------------------------ MODULE DisplayConfig_proofs ------------------------
(***************************************************************************)
(* Theorems about the configuration that the refreshes share, and about    *)
(* what its formats are parsed to, compiled to and rendered as.            *)
(*                                                                         *)
(* The parser, the compiler and the renderer are recursive functions.  Of  *)
(* each it is shown first that its recursion has a solution: the parser    *)
(* calls itself for shorter formats, the compiler only for the content of  *)
(* a styled block, which has no styled block, the renderer for lists that  *)
(* are nested less deep.                                                   *)
(***************************************************************************)
EXTENDS DisplayRender, SequenceFacts

------------------------------------------------------------------------------
(* The recursion of the parser. *)

\* The first block of f.
FirstBlock(f) == Min(Opens(f))

\* Where the brackets of a styled and of a conditional block at i close.
StyledEnds(f, i) == CHOOSE e \in StyledAt(f, i) : TRUE

ConditionalEnd(f, i) == CHOOSE k \in ConditionalAt(f, i) : TRUE

\* What is inside a conditional block.
Inside(f, i, k) == SubSeq(f, i + 1, k - 1)

StyledFirst(f) == StyledAt(f, FirstBlock(f)) # {}

AfterStyled(f) == After(f, StyledEnds(f, FirstBlock(f))[2])

AfterConditional(f) == After(f, ConditionalEnd(f, FirstBlock(f)))

InsideFirst(f) == Inside(f, FirstBlock(f), ConditionalEnd(f, FirstBlock(f)))

\* One call of the parser, with p for the calls it makes.
ParseBody(p, f) ==
  IF Opens(f) = {} THEN Text(f)
  ELSE IF StyledFirst(f)
  THEN Before(f, FirstBlock(f))
       \o <<Styled(f, FirstBlock(f), StyledEnds(f, FirstBlock(f)))>> \o p[AfterStyled(f)]
  ELSE Before(f, FirstBlock(f))
       \o <<[kind |-> "Conditional", inner |-> p[InsideFirst(f)]]>> \o p[AfterConditional(f)]

SolvesParse(p) == p = [f \in Seq(Token) |-> ParseBody(p, f)]

\* The parser is a solution of its recursion, if there is one.
LEMMA ParserIsChosen ==
  parse_segments = CHOOSE p : SolvesParse(p)
BY DEF parse_segments, SolvesParse, ParseBody, StyledFirst, FirstBlock, StyledEnds,
       ConditionalEnd, Inside, AfterStyled, AfterConditional, InsideFirst

\* The block that begins first is in the format, and its brackets in order.
LEMMA FirstBlockFacts ==
  ASSUME NEW f \in Seq(Token), Opens(f) # {}
  PROVE  /\ FirstBlock(f) \in Opens(f)
         /\ FirstBlock(f) \in 1 .. Len(f)
<1> DEFINE T == Opens(f)
<1>1. T \subseteq Nat /\ T # {} /\ T \subseteq 1 .. Len(f)
  BY DEF Opens
<1> HIDE DEF T
<1>2. Min(T) \in T
  BY <1>1, MinInSet
<1> QED
  BY <1>1, <1>2 DEF FirstBlock, T

\* The brackets of a styled block.
LEMMA StyledFacts ==
  ASSUME NEW f \in Seq(Token), NEW i \in 1 .. Len(f), StyledAt(f, i) # {}
  PROVE  LET e == StyledEnds(f, i)
         IN /\ e[1] \in i + 1 .. Len(f) /\ e[2] \in e[1] + 2 .. Len(f)
            /\ f[i] = "[" /\ f[e[1]] = "]" /\ f[e[1] + 1] = "(" /\ f[e[2]] = ")"
<1> DEFINE e == StyledEnds(f, i)
<1>1. e \in StyledAt(f, i)
  BY DEF StyledEnds
<1> HIDE DEF e
<1>2. IsFirst(f, "]", i + 1, e[1]) /\ IsFirst(f, ")", e[1] + 2, e[2]) /\ f[i] = "["
      /\ f[e[1] + 1] = "("
  BY <1>1 DEF StyledAt
<1> QED
  BY <1>2 DEF IsFirst, e

\* The brackets of a conditional block, which has no closing one inside.
LEMMA ConditionalFacts ==
  ASSUME NEW f \in Seq(Token), NEW i \in 1 .. Len(f), ConditionalAt(f, i) # {}
  PROVE  LET k == ConditionalEnd(f, i)
         IN /\ k \in i + 1 .. Len(f) /\ f[i] = "(" /\ f[k] = ")"
            /\ \A m \in i + 1 .. k - 1 : f[m] # ")"
<1> DEFINE k == ConditionalEnd(f, i)
<1>1. k \in ConditionalAt(f, i)
  BY DEF ConditionalEnd
<1> HIDE DEF k
<1> QED
  BY <1>1 DEF ConditionalAt, IsFirst, k

\* A part of a format.
LEMMA PartFacts ==
  ASSUME NEW A, NEW f \in Seq(A), NEW a \in Nat \ {0}, NEW b \in 0 .. Len(f)
  PROVE  /\ SubSeq(f, a, b) \in Seq(A)
         /\ Len(SubSeq(f, a, b)) = (IF a <= b THEN b - a + 1 ELSE 0)
         /\ \A m \in 1 .. Len(SubSeq(f, a, b)) : SubSeq(f, a, b)[m] = f[a + m - 1]
OBVIOUS

\* The parser calls itself for shorter formats.
LEMMA PartsAreShorter ==
  ASSUME NEW f \in Seq(Token), Opens(f) # {}
  PROVE  /\ StyledFirst(f) => AfterStyled(f) \in Seq(Token) /\ Len(AfterStyled(f)) < Len(f)
         /\ ~ StyledFirst(f) =>
              /\ AfterConditional(f) \in Seq(Token) /\ Len(AfterConditional(f)) < Len(f)
              /\ InsideFirst(f) \in Seq(Token) /\ Len(InsideFirst(f)) < Len(f)
<1> DEFINE i == FirstBlock(f)
<1>1. i \in Opens(f) /\ i \in 1 .. Len(f)
  BY FirstBlockFacts
<1> HIDE DEF i
<1>2. CASE StyledAt(f, i) # {}
  <2> DEFINE k == StyledEnds(f, i)[2]
  <2>1. k \in 1 .. Len(f)
    BY <1>1, <1>2, StyledFacts
  <2> HIDE DEF k
  <2>2. k + 1 \in Nat \ {0} /\ Len(f) \in 0 .. Len(f) /\ k \in Int /\ Len(f) \in Int
    BY <2>1
  <2>3. After(f, k) \in Seq(Token) /\ Len(After(f, k)) < Len(f)
    BY <2>1, <2>2, PartFacts DEF After
  <2> QED
    BY <1>2, <2>3 DEF StyledFirst, AfterStyled, i, k
<1>3. CASE StyledAt(f, i) = {}
  <2> DEFINE k == ConditionalEnd(f, i)
  <2>1. ConditionalAt(f, i) # {}
    BY <1>1, <1>3 DEF Opens
  <2>2. k \in i + 1 .. Len(f)
    BY <1>1, <2>1, ConditionalFacts
  <2> HIDE DEF k
  <2>3. k + 1 \in Nat \ {0} /\ Len(f) \in 0 .. Len(f) /\ k \in Int /\ Len(f) \in Int
        /\ i + 1 \in Nat \ {0} /\ k - 1 \in 0 .. Len(f) /\ i \in Int
    BY <1>1, <2>2
  <2>4. After(f, k) \in Seq(Token) /\ Len(After(f, k)) < Len(f)
    BY <1>1, <2>2, <2>3, PartFacts DEF After
  <2>5. Inside(f, i, k) \in Seq(Token) /\ Len(Inside(f, i, k)) < Len(f)
    BY <1>1, <2>2, <2>3, PartFacts DEF Inside
  <2> QED
    BY <1>3, <2>4, <2>5 DEF StyledFirst, AfterConditional, InsideFirst, i, k
<1> QED
  BY <1>2, <1>3

Agree(p, q, n) == \A g \in Seq(Token) : Len(g) < n => p[g] = q[g]

\* A call depends on what is returned for shorter formats.
LEMMA BodyDependsOnShorter ==
  ASSUME NEW f \in Seq(Token), NEW p, NEW q, Agree(p, q, Len(f))
  PROVE  ParseBody(p, f) = ParseBody(q, f)
<1>1. CASE Opens(f) = {}
  BY <1>1 DEF ParseBody
<1>2. CASE Opens(f) # {} /\ StyledFirst(f)
  <2>1. p[AfterStyled(f)] = q[AfterStyled(f)]
    BY <1>2, PartsAreShorter DEF Agree
  <2> QED
    BY <1>2, <2>1, Zenon DEF ParseBody
<1>3. CASE Opens(f) # {} /\ ~ StyledFirst(f)
  <2>1. p[AfterConditional(f)] = q[AfterConditional(f)] /\ p[InsideFirst(f)] = q[InsideFirst(f)]
    BY <1>3, PartsAreShorter DEF Agree
  <2> QED
    BY <1>3, <2>1, Zenon DEF ParseBody
<1> QED
  BY <1>1, <1>2, <1>3

\* p is the parser as far as formats shorter than n go.
Parses(p, n) ==
  /\ p = [f \in Seq(Token) |-> p[f]]
  /\ \A f \in Seq(Token) : Len(f) < n => p[f] = ParseBody(p, f)

\* There is a parser for formats of every length.
LEMMA ParserForEach ==
  \A n \in Nat : \E p : Parses(p, n)
<1> DEFINE S == {n \in Nat : \E p : Parses(p, n)}
<1>1. 0 \in S
  <2> DEFINE p == [f \in Seq(Token) |-> << >>]
  <2>1. p = [f \in Seq(Token) |-> p[f]]
    OBVIOUS
  <2>2. \A f \in Seq(Token) : ~ (Len(f) < 0)
    OBVIOUS
  <2> HIDE DEF p
  <2>3. Parses(p, 0)
    BY <2>1, <2>2 DEF Parses
  <2> QED
    BY <2>3
<1>2. ASSUME NEW n \in Nat, n \in S PROVE n + 1 \in S
  <2>1. PICK p : Parses(p, n)
    BY <1>2
  <2> DEFINE q == [f \in Seq(Token) |-> ParseBody(p, f)]
  <2>2. q = [f \in Seq(Token) |-> q[f]] /\ \A f \in Seq(Token) : q[f] = ParseBody(p, f)
    OBVIOUS
  <2> HIDE DEF q
  <2>3. ASSUME NEW f \in Seq(Token), Len(f) < n + 1
        PROVE  q[f] = ParseBody(q, f)
    <3>1. \A g \in Seq(Token) : Len(g) < Len(f) => Len(g) < n
      BY <2>3
    <3>2. Agree(p, q, Len(f))
      BY <2>1, <2>2, <3>1 DEF Agree, Parses
    <3> QED
      BY <2>2, <3>2, BodyDependsOnShorter
  <2>4. Parses(q, n + 1)
    BY <2>2, <2>3 DEF Parses
  <2> QED
    BY <2>4
<1> HIDE DEF S
<1>3. \A n \in Nat : n \in S
  BY <1>1, <1>2, InductionOnNat
<1> QED
  BY <1>3 DEF S

\* Two parsers return the same.
LEMMA ParsersAgree ==
  ASSUME NEW n \in Nat, NEW p, NEW q, Parses(p, n), Parses(q, n)
  PROVE  Agree(p, q, n)
<1> DEFINE S == {m \in Nat : m <= n => Agree(p, q, m)}
<1>1. 0 \in S
  <2>1. \A f \in Seq(Token) : ~ (Len(f) < 0)
    OBVIOUS
  <2> QED
    BY <2>1 DEF Agree
<1>2. ASSUME NEW m \in Nat, m \in S PROVE m + 1 \in S
  <2> SUFFICES ASSUME m + 1 <= n, NEW f \in Seq(Token), Len(f) < m + 1
               PROVE  p[f] = q[f]
    BY DEF Agree
  <2>1. Len(f) < n /\ \A g \in Seq(Token) : Len(g) < Len(f) => Len(g) < m
    OBVIOUS
  <2>2. Agree(p, q, Len(f))
    BY <1>2, <2>1 DEF Agree
  <2>3. p[f] = ParseBody(p, f) /\ q[f] = ParseBody(q, f)
    BY <2>1 DEF Parses
  <2> QED
    BY <2>2, <2>3, BodyDependsOnShorter
<1> HIDE DEF S
<1>3. n \in S
  BY <1>1, <1>2, InductionOnNat
<1> QED
  BY <1>3 DEF S

\* A parser for all formats is had by asking, for each, one for its length.
ForLength(n) == CHOOSE p : Parses(p, n)

\* The recursion of the parser has a solution.
LEMMA ParserExists ==
  \E p : SolvesParse(p)
<1>1. \A n \in Nat : Parses(ForLength(n), n)
  BY ParserForEach DEF ForLength
<1> DEFINE h == [f \in Seq(Token) |-> ForLength(Len(f) + 1)[f]]
<1>2. \A f \in Seq(Token) : h[f] = ForLength(Len(f) + 1)[f]
  OBVIOUS
<1>3. h = [f \in Seq(Token) |-> h[f]]
  OBVIOUS
<1> HIDE DEF h
<1>4. ASSUME NEW f \in Seq(Token) PROVE h[f] = ParseBody(h, f)
  <2> DEFINE n == Len(f) + 1
             p == ForLength(n)
  <2>1. n \in Nat /\ Len(f) < n /\ Len(f) \in Nat
    OBVIOUS
  <2> HIDE DEF n
  <2>2. Parses(p, n)
    BY <2>1, <1>1
  <2>3. ASSUME NEW g \in Seq(Token), Len(g) < Len(f) PROVE h[g] = p[g]
    <3> DEFINE m == Len(g) + 1
               q == ForLength(m)
    <3>1. m \in Nat /\ m <= n /\ Len(g) < m
      BY <2>1, <2>3 DEF n
    <3> HIDE DEF m, p
    <3>2. Parses(q, m)
      BY <3>1, <1>1
    <3> HIDE DEF q
    <3>3. \A x \in Seq(Token) : Len(x) < m => Len(x) < n
      BY <3>1, <2>1
    <3>4. Parses(p, m)
      BY <2>2, <3>3 DEF Parses
    <3>5. Agree(p, q, m)
      BY <3>1, <3>2, <3>4, ParsersAgree
    <3>6. h[g] = q[g]
      BY <1>2 DEF q, m
    <3> QED
      BY <3>1, <3>5, <3>6 DEF Agree
  <2>4. Agree(p, h, Len(f))
    BY <2>3 DEF Agree
  <2>5. ParseBody(p, f) = ParseBody(h, f)
    <3> HIDE DEF p
    <3> QED
      BY <2>4, BodyDependsOnShorter
  <2>6. p[f] = ParseBody(p, f)
    BY <2>1, <2>2 DEF Parses
  <2>7. h[f] = p[f]
    BY <1>2 DEF n
  <2> QED
    BY <2>5, <2>6, <2>7
<1>5. h = [f \in Seq(Token) |-> ParseBody(h, f)]
  BY <1>3, <1>4
<1> QED
  BY <1>5 DEF SolvesParse

\* The parser returns what its definition says.
LEMMA ParserSteps ==
  \A f \in Seq(Token) : parse_segments[f] = ParseBody(parse_segments, f)
<1>1. SolvesParse(parse_segments)
  BY ParserExists, ParserIsChosen
<1> QED
  BY <1>1 DEF SolvesParse

------------------------------------------------------------------------------
(* What the parser returns. *)

TextSegment == [kind : {"Text"}, text : Seq(Token)]

StyledSegment == [kind : {"Styled"}, content : Seq(Token), style_str : Seq(Token)]

ConditionalSegment == [kind : {"Conditional"}, inner : Seq(TextSegment)]

Segment == TextSegment \cup StyledSegment \cup ConditionalSegment

\* What segments are written with.
Alphabet == Token \cup {"[", "]", "(", ")"}

\* A format without ")" has no blocks.
LEMMA NoBlocks ==
  ASSUME NEW f \in Seq(Token), \A m \in 1 .. Len(f) : f[m] # ")"
  PROVE  Opens(f) = {}
<1> SUFFICES ASSUME NEW i \in 1 .. Len(f), StyledAt(f, i) # {} \/ ConditionalAt(f, i) # {}
             PROVE  FALSE
  BY DEF Opens
<1>1. CASE StyledAt(f, i) # {}
  <2> DEFINE e == StyledEnds(f, i)
  <2>1. e[2] \in 1 .. Len(f) /\ f[e[2]] = ")"
    BY <1>1, StyledFacts
  <2> QED
    BY <2>1
<1>2. CASE ConditionalAt(f, i) # {}
  <2> DEFINE k == ConditionalEnd(f, i)
  <2>1. k \in 1 .. Len(f) /\ f[k] = ")"
    BY <1>2, ConditionalFacts
  <2> QED
    BY <2>1
<1> QED
  BY <1>1, <1>2

\* A text is one segment or none.
LEMMA TextFacts ==
  ASSUME NEW f \in Seq(Token)
  PROVE  Text(f) \in Seq(TextSegment)
<1>1. [kind |-> "Text", text |-> f] \in TextSegment
  BY DEF TextSegment
<1> HIDE DEF TextSegment
<1>2. <<[kind |-> "Text", text |-> f]>> \in Seq(TextSegment) /\ << >> \in Seq(TextSegment)
  BY <1>1
<1> QED
  BY <1>2 DEF Text

\* What is inside a conditional block is parsed to text.
LEMMA InnerIsText ==
  ASSUME NEW f \in Seq(Token), Opens(f) # {}, ~ StyledFirst(f)
  PROVE  parse_segments[InsideFirst(f)] = Text(InsideFirst(f))
<1> DEFINE i == FirstBlock(f)
           k == ConditionalEnd(f, i)
           c == InsideFirst(f)
<1>1. i \in 1 .. Len(f) /\ ConditionalAt(f, i) # {}
  BY FirstBlockFacts DEF StyledFirst, Opens
<1> HIDE DEF i
<1>2. k \in i + 1 .. Len(f) /\ \A m \in i + 1 .. k - 1 : f[m] # ")"
  BY <1>1, ConditionalFacts
<1>3. c = SubSeq(f, i + 1, k - 1)
  BY DEF InsideFirst, Inside, i
<1> HIDE DEF k
<1>4. c \in Seq(Token)
  BY PartsAreShorter
<1> HIDE DEF c
<1>5. ASSUME NEW m \in 1 .. Len(c) PROVE c[m] # ")"
  <2>1. /\ i + 1 \in Nat \ {0} /\ k - 1 \in 0 .. Len(f)
    BY <1>1, <1>2
  <2>2. Len(c) = (IF i + 1 <= k - 1 THEN (k - 1) - (i + 1) + 1 ELSE 0)
    BY <1>3, <2>1, PartFacts
  <2>3. c[m] = f[(i + 1) + m - 1]
    BY <1>3, <2>1, PartFacts
  <2>4. (i + 1) + m - 1 \in i + 1 .. k - 1
    BY <1>1, <1>2, <2>2
  <2> QED
    BY <1>2, <2>3, <2>4
<1>6. Opens(c) = {}
  BY <1>4, <1>5, NoBlocks
<1>7. parse_segments[c] = ParseBody(parse_segments, c)
  BY <1>4, ParserSteps
<1> QED
  BY <1>6, <1>7 DEF ParseBody, c

\* A styled block as a segment.
LEMMA StyledTyped ==
  ASSUME NEW f \in Seq(Token), Opens(f) # {}, StyledFirst(f)
  PROVE  Styled(f, FirstBlock(f), StyledEnds(f, FirstBlock(f))) \in StyledSegment
<1> DEFINE i == FirstBlock(f)
           e == StyledEnds(f, i)
<1>1. i \in 1 .. Len(f) /\ StyledAt(f, i) # {}
  BY FirstBlockFacts DEF StyledFirst
<1> HIDE DEF i
<1>2. e[1] \in i + 1 .. Len(f) /\ e[2] \in e[1] + 2 .. Len(f)
  BY <1>1, StyledFacts
<1> HIDE DEF e
<1> DEFINE a == e[1]
           b == e[2]
<1>3. i + 1 \in Nat \ {0} /\ a - 1 \in 0 .. Len(f) /\ a + 2 \in Nat \ {0} /\ b - 1 \in 0 .. Len(f)
  BY <1>1, <1>2
<1> HIDE DEF a, b
<1>4. SubSeq(f, i + 1, a - 1) \in Seq(Token) /\ SubSeq(f, a + 2, b - 1) \in Seq(Token)
  BY <1>3, PartFacts
<1>5. Styled(f, i, e) = [kind |-> "Styled", content |-> SubSeq(f, i + 1, a - 1),
                         style_str |-> SubSeq(f, a + 2, b - 1)]
  BY DEF Styled, a, b
<1>6. Styled(f, i, e) \in StyledSegment
  BY <1>4, <1>5 DEF StyledSegment
<1> QED
  BY <1>6 DEF i, e

\* What comes before the first block.
LEMMA BeforeFacts ==
  ASSUME NEW f \in Seq(Token), NEW i \in 1 .. Len(f)
  PROVE  /\ SubSeq(f, 1, i - 1) \in Seq(Token)
         /\ Before(f, i) = Text(SubSeq(f, 1, i - 1))
<1>1. 1 \in Nat \ {0} /\ i - 1 \in 0 .. Len(f)
  OBVIOUS
<1> QED
  BY <1>1, PartFacts DEF Before

\* Texts and blocks are segments.
LEMMA SegmentFacts ==
  /\ \A s \in Seq(TextSegment) : s \in Seq(Segment)
  /\ \A x \in StyledSegment \cup ConditionalSegment : x \in Segment /\ <<x>> \in Seq(Segment)
  /\ \A r, s, t \in Seq(Segment) : r \o s \o t \in Seq(Segment) /\ s \o t \in Seq(Segment)
<1>1. TextSegment \subseteq Segment /\ StyledSegment \cup ConditionalSegment \subseteq Segment
  BY DEF Segment
<1> HIDE DEF Segment, TextSegment, StyledSegment, ConditionalSegment
<1> QED
  BY <1>1

------------------------------------------------------------------------------
(* Written out again. *)

\* Two parts of a list that adjoin make one.
LEMMA PartsJoin ==
  ASSUME NEW A, NEW f \in Seq(A), NEW a \in Nat \ {0}, NEW b \in 0 .. Len(f), NEW c \in 0 .. Len(f),
         a <= b + 1, b <= c
  PROVE  SubSeq(f, a, b) \o SubSeq(f, b + 1, c) = SubSeq(f, a, c)
<1> DEFINE s == SubSeq(f, a, b)
           t == SubSeq(f, b + 1, c)
           u == SubSeq(f, a, c)
<1>1. /\ s \in Seq(A) /\ Len(s) = (b - a) + 1
      /\ \A m \in 1 .. Len(s) : s[m] = f[a + m - 1]
  <2>1. IF a <= b THEN TRUE ELSE b - a + 1 = 0
    OBVIOUS
  <2> QED
    BY <2>1, PartFacts
<1>2. /\ t \in Seq(A) /\ Len(t) = c - b
      /\ \A m \in 1 .. Len(t) : t[m] = f[(b + 1) + m - 1]
  <2>1. b + 1 \in Nat \ {0} /\ (IF b + 1 <= c THEN c - (b + 1) + 1 ELSE 0) = c - b
    OBVIOUS
  <2> QED
    BY <2>1, PartFacts
<1>3. /\ u \in Seq(A) /\ Len(u) = (c - a) + 1
      /\ \A m \in 1 .. Len(u) : u[m] = f[a + m - 1]
  <2>1. (IF a <= c THEN c - a + 1 ELSE 0) = (c - a) + 1
    OBVIOUS
  <2> QED
    BY <2>1, PartFacts
<1>0. a \in Nat /\ b \in Nat /\ c \in Nat /\ Len(s) \in Nat /\ Len(t) \in Nat
  BY <1>1, <1>2
<1>s. s \in Seq(A) /\ t \in Seq(A)
  BY <1>1, <1>2
<1> HIDE DEF s, t, u
<1>c. /\ s \o t \in Seq(A) /\ Len(s \o t) = Len(s) + Len(t)
      /\ \A m \in 1 .. Len(s) + Len(t) :
           (s \o t)[m] = IF m <= Len(s) THEN s[m] ELSE t[m - Len(s)]
  BY <1>s
<1>4. s \o t \in Seq(A) /\ Len(s \o t) = Len(u)
  <2>1. Len(s) + Len(t) = Len(u)
    BY <1>0, <1>1, <1>2, <1>3
  <2> QED
    BY <1>c, <2>1
<1>5. ASSUME NEW m \in 1 .. Len(u) PROVE (s \o t)[m] = u[m]
  <2>0. m \in 1 .. Len(s) + Len(t) /\ u[m] = f[a + m - 1]
    BY <1>0, <1>1, <1>2, <1>3
  <2>1. CASE m <= Len(s)
    <3>1. m \in 1 .. Len(s) /\ (s \o t)[m] = s[m]
      BY <1>0, <1>c, <2>0, <2>1
    <3> QED
      BY <1>1, <2>0, <3>1
  <2>2. CASE ~ (m <= Len(s))
    <3>1. m - Len(s) \in 1 .. Len(t) /\ (b + 1) + (m - Len(s)) - 1 = a + m - 1
      BY <1>0, <1>1, <2>0, <2>2
    <3>2. (s \o t)[m] = t[m - Len(s)]
      BY <1>c, <2>0, <2>2
    <3> QED
      BY <1>2, <2>0, <3>1, <3>2
  <2> QED
    BY <2>1, <2>2
<1> QED
  BY <1>3, <1>4, <1>5 DEF s, t, u

\* Parts of one and two elements, and the whole.
LEMMA SmallParts ==
  ASSUME NEW A, NEW f \in Seq(A)
  PROVE  /\ \A i \in 1 .. Len(f) : SubSeq(f, i, i) = <<f[i]>>
         /\ \A i \in 1 .. Len(f) - 1 : SubSeq(f, i, i + 1) = <<f[i], f[i + 1]>>
         /\ SubSeq(f, 1, Len(f)) = f
<1>1. ASSUME NEW i \in 1 .. Len(f) PROVE SubSeq(f, i, i) = <<f[i]>>
  <2> DEFINE s == SubSeq(f, i, i)
  <2>1. i \in Nat \ {0} /\ i \in 0 .. Len(f) /\ (IF i <= i THEN i - i + 1 ELSE 0) = 1
    OBVIOUS
  <2>2. s \in Seq(A) /\ Len(s) = 1 /\ \A m \in 1 .. Len(s) : s[m] = f[i + m - 1]
    BY <2>1, PartFacts
  <2> HIDE DEF s
  <2>3. 1 \in 1 .. Len(s) /\ i + 1 - 1 = i
    BY <2>1, <2>2
  <2>4. s[1] = f[i]
    BY <2>2, <2>3
  <2>5. s = <<f[i]>>
    BY <2>2, <2>4
  <2> QED
    BY <2>5 DEF s
<1>2. ASSUME NEW i \in 1 .. Len(f) - 1 PROVE SubSeq(f, i, i + 1) = <<f[i], f[i + 1]>>
  <2> DEFINE s == SubSeq(f, i, i + 1)
  <2>1. /\ i \in Nat \ {0} /\ i + 1 \in 0 .. Len(f)
        /\ (IF i <= i + 1 THEN (i + 1) - i + 1 ELSE 0) = 2
    OBVIOUS
  <2>2. s \in Seq(A) /\ Len(s) = 2 /\ \A m \in 1 .. Len(s) : s[m] = f[i + m - 1]
    BY <2>1, PartFacts
  <2> HIDE DEF s
  <2>3. 1 \in 1 .. Len(s) /\ 2 \in 1 .. Len(s) /\ i + 1 - 1 = i /\ i + 2 - 1 = i + 1
    BY <2>1, <2>2
  <2>4. s[1] = f[i] /\ s[2] = f[i + 1]
    BY <2>2, <2>3
  <2>5. s = <<f[i], f[i + 1]>>
    BY <2>2, <2>4
  <2> QED
    BY <2>5 DEF s
<1>3. SubSeq(f, 1, Len(f)) = f
  OBVIOUS
<1> QED
  BY <1>1, <1>2, <1>3

\* The text of parsed text.
LEMMA TextOfText ==
  ASSUME NEW c \in Seq(Token)
  PROVE  TextOf(Text(c)) = c
<1> DEFINE s == Text(c)
           u == [n \in DOMAIN s |-> s[n].text]
<1>1. CASE c = << >>
  <2>1. u = << >>
    BY <1>1 DEF Text
  <2> QED
    BY <1>1, <2>1, FlattenOne DEF TextOf
<1>2. CASE c # << >>
  <2>1. s = <<[kind |-> "Text", text |-> c]>>
    BY <1>2 DEF Text
  <2>2. u = <<c>>
    BY <2>1
  <2>3. FlattenSeq(<<c>>) = c
    BY FlattenOne
  <2> QED
    BY <2>2, <2>3 DEF TextOf
<1> QED
  BY <1>1, <1>2

\* Each segment as it was written.
WrittenEach(segs) == [n \in DOMAIN segs |-> WrittenSegment(segs[n])]

\* What a segment was written as is a text.
LEMMA WrittenTyped ==
  \A seg \in Segment : WrittenSegment(seg) \in Seq(Alphabet)
<1> SUFFICES ASSUME NEW seg \in Segment PROVE WrittenSegment(seg) \in Seq(Alphabet)
  OBVIOUS
<1>1. \A s \in Seq(Token) : s \in Seq(Alphabet)
  BY DEF Alphabet
<1>2. /\ <<"[">> \in Seq(Alphabet) /\ <<"]", "(">> \in Seq(Alphabet)
      /\ <<")">> \in Seq(Alphabet) /\ <<"(">> \in Seq(Alphabet)
  BY DEF Alphabet
<1>3. \A r, s, t, u, v \in Seq(Alphabet) :
         r \o s \o t \o u \o v \in Seq(Alphabet) /\ r \o s \o t \in Seq(Alphabet)
  OBVIOUS
<1>4. CASE seg \in TextSegment
  BY <1>4, <1>1 DEF TextSegment, WrittenSegment
<1>5. CASE seg \in StyledSegment
  <2>1. seg.kind = "Styled" /\ seg.content \in Seq(Alphabet) /\ seg.style_str \in Seq(Alphabet)
    BY <1>1, <1>5 DEF StyledSegment
  <2>2. <<"[">> \o seg.content \o <<"]", "(">> \o seg.style_str \o <<")">> \in Seq(Alphabet)
    BY <1>2, <1>3, <2>1
  <2> QED
    BY <2>1, <2>2 DEF WrittenSegment
<1>6. CASE seg \in ConditionalSegment
  <2> DEFINE s == seg.inner
             u == [n \in DOMAIN s |-> s[n].text]
  <2>1. seg.kind = "Conditional" /\ s \in Seq(TextSegment)
    BY <1>6 DEF ConditionalSegment
  <2>2. \A n \in DOMAIN s : s[n].text \in Seq(Token)
    <3>1. \A n \in DOMAIN s : s[n] \in TextSegment
      BY <2>1
    <3> QED
      BY <3>1 DEF TextSegment
  <2> HIDE DEF s
  <2>3. u \in Seq(Seq(Token))
    BY <2>1, <2>2
  <2>4. FlattenSeq(u) \in Seq(Token)
    BY <2>3, FlattenConcat
  <2>5. TextOf(s) \in Seq(Alphabet)
    BY <1>1, <2>4 DEF TextOf
  <2>6. <<"(">> \o TextOf(s) \o <<")">> \in Seq(Alphabet)
    BY <1>2, <1>3, <2>5
  <2> QED
    BY <2>1, <2>6 DEF WrittenSegment, s
<1> QED
  BY <1>4, <1>5, <1>6 DEF Segment

\* Segments are written one after the other.
LEMMA WrittenConcat ==
  ASSUME NEW s \in Seq(Segment), NEW t \in Seq(Segment)
  PROVE  /\ Written(s) \in Seq(Alphabet)
         /\ Written(s \o t) = Written(s) \o Written(t)
<1>1. \A seg \in Segment : WrittenSegment(seg) \in Seq(Alphabet)
  BY WrittenTyped
<1> HIDE DEF Segment, Alphabet
<1>2. \A u \in Seq(Segment) : /\ WrittenEach(u) \in Seq(Seq(Alphabet)) /\ Len(WrittenEach(u)) = Len(u)
                              /\ \A n \in 1 .. Len(u) : WrittenEach(u)[n] = WrittenSegment(u[n])
  <2> SUFFICES ASSUME NEW u \in Seq(Segment)
               PROVE  /\ WrittenEach(u) \in Seq(Seq(Alphabet)) /\ Len(WrittenEach(u)) = Len(u)
                      /\ \A n \in 1 .. Len(u) : WrittenEach(u)[n] = WrittenSegment(u[n])
    OBVIOUS
  <2>1. DOMAIN u = 1 .. Len(u) /\ Len(u) \in Nat /\ \A n \in 1 .. Len(u) : u[n] \in Segment
    OBVIOUS
  <2>2. WrittenEach(u) = [n \in 1 .. Len(u) |-> WrittenSegment(u[n])]
    BY <2>1 DEF WrittenEach
  <2>3. \A n \in 1 .. Len(u) : WrittenSegment(u[n]) \in Seq(Alphabet)
    BY <2>1, <1>1
  <2> DEFINE B == Seq(Alphabet)
             l == Len(u)
             w == WrittenEach(u)
  <2>4. w = [n \in 1 .. l |-> WrittenSegment(u[n])]
        /\ l \in Nat /\ \A n \in 1 .. l : WrittenSegment(u[n]) \in B
    BY <2>1, <2>2, <2>3
  <2> HIDE DEF B, l, w
  <2>5. w \in Seq(B) /\ Len(w) = l /\ \A n \in 1 .. l : w[n] = WrittenSegment(u[n])
    BY <2>4
  <2> QED
    BY <2>5 DEF w, l, B
<1>3. s \o t \in Seq(Segment) /\ Len(s \o t) = Len(s) + Len(t)
  OBVIOUS
<1>4. WrittenEach(s \o t) = WrittenEach(s) \o WrittenEach(t)
  <2> DEFINE u == WrittenEach(s \o t)
             v == WrittenEach(s) \o WrittenEach(t)
             B == Seq(Alphabet)
             ws == WrittenEach(s)
             wt == WrittenEach(t)
  <2>0. /\ u \in Seq(B) /\ Len(u) = Len(s) + Len(t)
        /\ ws \in Seq(B) /\ wt \in Seq(B) /\ Len(ws) = Len(s) /\ Len(wt) = Len(t)
        /\ \A n \in 1 .. Len(u) : u[n] = WrittenSegment((s \o t)[n])
        /\ \A n \in 1 .. Len(s) : ws[n] = WrittenSegment(s[n])
        /\ \A n \in 1 .. Len(t) : wt[n] = WrittenSegment(t[n])
    BY <1>2, <1>3
  <2>v. v = ws \o wt
    OBVIOUS
  <2> HIDE DEF B, u, v, ws, wt
  <2>1. v \in Seq(B) /\ Len(v) = Len(s) + Len(t) /\ Len(s) \in Nat /\ Len(t) \in Nat
    BY <2>0, <2>v
  <2>2. ASSUME NEW n \in 1 .. Len(u) PROVE u[n] = v[n]
    <3>1. u[n] = WrittenSegment((s \o t)[n]) /\ n \in 1 .. Len(s) + Len(t)
      BY <2>0
    <3>2. CASE n <= Len(s)
      <4>1. n \in 1 .. Len(s) /\ (s \o t)[n] = s[n] /\ v[n] = ws[n]
        BY <2>0, <2>v, <2>1, <3>1, <3>2
      <4> QED
        BY <2>0, <3>1, <4>1
    <3>3. CASE n > Len(s)
      <4>1. n - Len(s) \in 1 .. Len(t)
        BY <2>1, <3>1, <3>3
      <4>2. (s \o t)[n] = t[n - Len(s)] /\ v[n] = wt[n - Len(s)]
        BY <2>0, <2>v, <2>1, <3>1, <3>3
      <4> QED
        BY <2>0, <3>1, <4>1, <4>2
    <3> QED
      BY <2>1, <3>1, <3>2, <3>3
  <2>3. u = v
    BY <2>0, <2>1, <2>2
  <2> QED
    BY <2>3 DEF u, v
<1>5. WrittenEach(s) \in Seq(Seq(Alphabet)) /\ WrittenEach(t) \in Seq(Seq(Alphabet))
  BY <1>2
<1>6. /\ FlattenSeq(WrittenEach(s)) \in Seq(Alphabet)
      /\ FlattenSeq(WrittenEach(s) \o WrittenEach(t))
           = FlattenSeq(WrittenEach(s)) \o FlattenSeq(WrittenEach(t))
  BY <1>5, FlattenConcat
<1>7. \A u : Written(u) = FlattenSeq(WrittenEach(u))
  BY DEF Written, WrittenEach
<1> QED
  BY <1>4, <1>6, <1>7

\* One segment is written as that segment, a text as it is.
LEMMA WrittenOne ==
  /\ \A seg \in Segment : Written(<<seg>>) = WrittenSegment(seg)
  /\ \A c \in Seq(Token) : Written(Text(c)) = c
<1>1. ASSUME NEW seg \in Segment PROVE Written(<<seg>>) = WrittenSegment(seg)
  <2> DEFINE x == WrittenSegment(seg)
             s == <<seg>>
  <2>1. x \in Seq(Alphabet)
    BY WrittenTyped
  <2>2. [n \in DOMAIN s |-> WrittenSegment(s[n])] = <<x>>
    OBVIOUS
  <2> HIDE DEF x
  <2>3. FlattenSeq(<<x>>) = x
    BY <2>1, FlattenOne
  <2> QED
    BY <2>2, <2>3 DEF Written, x
<1>2. ASSUME NEW c \in Seq(Token) PROVE Written(Text(c)) = c
  <2>1. CASE c = << >>
    <3> DEFINE s == << >>
    <3>1. [n \in DOMAIN s |-> WrittenSegment(s[n])] = << >>
      OBVIOUS
    <3>2. FlattenSeq(<< >>) = << >>
      BY FlattenOne
    <3> QED
      BY <2>1, <3>1, <3>2 DEF Written, Text
  <2>2. CASE c # << >>
    <3> DEFINE x == [kind |-> "Text", text |-> c]
    <3>1. x \in TextSegment /\ WrittenSegment(x) = c
      BY DEF TextSegment, WrittenSegment
    <3>2. x \in Segment /\ Text(c) = <<x>>
      BY <2>2, <3>1 DEF Segment, Text
    <3> HIDE DEF x
    <3> QED
      BY <3>1, <3>2, <1>1
  <2> QED
    BY <2>1, <2>2
<1> QED
  BY <1>1, <1>2

\* A styled block is written as it stands in the format.
LEMMA StyledWritten ==
  ASSUME NEW f \in Seq(Token), Opens(f) # {}, StyledFirst(f)
  PROVE  LET i == FirstBlock(f)
             e == StyledEnds(f, i)
         IN WrittenSegment(Styled(f, i, e)) = SubSeq(f, i, e[2])
<1> DEFINE i == FirstBlock(f)
           e == StyledEnds(f, i)
           a == e[1]
           b == e[2]
<1>1. i \in 1 .. Len(f) /\ StyledAt(f, i) # {}
  BY FirstBlockFacts DEF StyledFirst
<1> HIDE DEF i
<1>2. /\ a \in i + 1 .. Len(f) /\ b \in a + 2 .. Len(f)
      /\ f[i] = "[" /\ f[a] = "]" /\ f[a + 1] = "(" /\ f[b] = ")"
  BY <1>1, StyledFacts
<1>3. WrittenSegment(Styled(f, i, e))
        = <<"[">> \o SubSeq(f, i + 1, a - 1) \o <<"]", "(">> \o SubSeq(f, a + 2, b - 1) \o <<")">>
  BY DEF WrittenSegment, Styled
<1> HIDE DEF a, b
<1>4. <<"[">> = SubSeq(f, i, i) /\ <<"]", "(">> = SubSeq(f, a, a + 1) /\ <<")">> = SubSeq(f, b, b)
  <2>1. a \in 1 .. Len(f) - 1 /\ b \in 1 .. Len(f)
    BY <1>1, <1>2
  <2> QED
    BY <1>1, <1>2, <2>1, SmallParts
<1>5. /\ i \in Nat \ {0} /\ i \in 0 .. Len(f) /\ a - 1 \in 0 .. Len(f) /\ a + 1 \in 0 .. Len(f)
      /\ b - 1 \in 0 .. Len(f) /\ b \in 0 .. Len(f)
      /\ i <= i + 1 /\ i <= a - 1 /\ i <= (a - 1) + 1 /\ a - 1 <= a + 1 /\ i <= (a + 1) + 1
      /\ a + 1 <= b - 1 /\ i <= (b - 1) + 1 /\ b - 1 <= b
      /\ (a - 1) + 1 = a /\ (a + 1) + 1 = a + 2 /\ (b - 1) + 1 = b
  BY <1>1, <1>2
<1>6. SubSeq(f, i, i) \o SubSeq(f, i + 1, a - 1) = SubSeq(f, i, a - 1)
  BY <1>5, PartsJoin
<1>7. SubSeq(f, i, a - 1) \o SubSeq(f, (a - 1) + 1, a + 1) = SubSeq(f, i, a + 1)
  BY <1>5, PartsJoin
<1>8. SubSeq(f, i, a + 1) \o SubSeq(f, (a + 1) + 1, b - 1) = SubSeq(f, i, b - 1)
  BY <1>5, PartsJoin
<1>9. SubSeq(f, i, b - 1) \o SubSeq(f, (b - 1) + 1, b) = SubSeq(f, i, b)
  BY <1>5, PartsJoin
<1>10. SubSeq(f, i, i) \o SubSeq(f, i + 1, a - 1) \o SubSeq(f, a, a + 1)
         \o SubSeq(f, a + 2, b - 1) \o SubSeq(f, b, b) = SubSeq(f, i, b)
  <2>1. /\ SubSeq(f, i, a - 1) \o SubSeq(f, a, a + 1) = SubSeq(f, i, a + 1)
        /\ SubSeq(f, i, a + 1) \o SubSeq(f, a + 2, b - 1) = SubSeq(f, i, b - 1)
        /\ SubSeq(f, i, b - 1) \o SubSeq(f, b, b) = SubSeq(f, i, b)
    BY <1>5, <1>7, <1>8, <1>9
  <2> QED
    BY <1>6, <2>1, Zenon
<1>11. WrittenSegment(Styled(f, i, e)) = SubSeq(f, i, b)
  BY <1>3, <1>4, <1>10, Zenon
<1> QED
  BY <1>11 DEF i, b

\* A conditional block is written as it stands in the format.
LEMMA ConditionalWritten ==
  ASSUME NEW f \in Seq(Token), Opens(f) # {}, ~ StyledFirst(f)
  PROVE  LET i == FirstBlock(f)
             seg == [kind |-> "Conditional", inner |-> Text(InsideFirst(f))]
         IN /\ seg \in ConditionalSegment
            /\ WrittenSegment(seg) = SubSeq(f, i, ConditionalEnd(f, i))
<1> DEFINE i == FirstBlock(f)
           k == ConditionalEnd(f, i)
           c == InsideFirst(f)
           seg == [kind |-> "Conditional", inner |-> Text(c)]
<1>1. i \in 1 .. Len(f) /\ ConditionalAt(f, i) # {}
  BY FirstBlockFacts DEF StyledFirst, Opens
<1> HIDE DEF i
<1>2. k \in i + 1 .. Len(f) /\ f[i] = "(" /\ f[k] = ")"
  BY <1>1, ConditionalFacts
<1>3. c \in Seq(Token) /\ c = SubSeq(f, i + 1, k - 1)
  BY PartsAreShorter DEF InsideFirst, Inside, i
<1> HIDE DEF k, c
<1>4. Text(c) \in Seq(TextSegment) /\ TextOf(Text(c)) = c
  BY <1>3, TextFacts, TextOfText
<1>5. seg \in ConditionalSegment
  BY <1>4 DEF ConditionalSegment
<1>6. WrittenSegment(seg) = <<"(">> \o c \o <<")">>
  BY <1>4 DEF WrittenSegment
<1>7. <<"(">> = SubSeq(f, i, i) /\ <<")">> = SubSeq(f, k, k)
  <2>1. k \in 1 .. Len(f)
    BY <1>1, <1>2
  <2> QED
    BY <1>1, <1>2, <2>1, SmallParts
<1>8. /\ i \in Nat \ {0} /\ i \in 0 .. Len(f) /\ k - 1 \in 0 .. Len(f) /\ k \in 0 .. Len(f)
      /\ i <= i + 1 /\ i <= k - 1 /\ i <= (k - 1) + 1 /\ k - 1 <= k /\ (k - 1) + 1 = k
  BY <1>1, <1>2
<1>9. SubSeq(f, i, i) \o SubSeq(f, i + 1, k - 1) = SubSeq(f, i, k - 1)
  BY <1>8, PartsJoin
<1>10. SubSeq(f, i, k - 1) \o SubSeq(f, (k - 1) + 1, k) = SubSeq(f, i, k)
  BY <1>8, PartsJoin
<1>11. WrittenSegment(seg) = SubSeq(f, i, k)
  <2>1. SubSeq(f, i, k - 1) \o SubSeq(f, k, k) = SubSeq(f, i, k)
    BY <1>8, <1>10
  <2> QED
    BY <1>3, <1>6, <1>7, <1>9, <2>1, Zenon
<1> QED
  BY <1>5, <1>11 DEF i, k, c

\* What is parsed is a list of segments that are written as the format.
Whole(f) == parse_segments[f] \in Seq(Segment) /\ Written(parse_segments[f]) = f

\* A block before formats that are parsed whole.
LEMMA WholeWithBlock ==
  ASSUME NEW f \in Seq(Token), NEW i \in 1 .. Len(f), NEW k \in i .. Len(f),
         NEW seg \in StyledSegment \cup ConditionalSegment,
         WrittenSegment(seg) = SubSeq(f, i, k), Whole(After(f, k)),
         parse_segments[f] = Before(f, i) \o <<seg>> \o parse_segments[After(f, k)]
  PROVE  Whole(f)
<1> DEFINE b == SubSeq(f, 1, i - 1)
           r == After(f, k)
           q == parse_segments[r]
           s == <<seg>>
<1>1. b \in Seq(Token) /\ Before(f, i) = Text(b)
  BY BeforeFacts
<1>2. q \in Seq(Segment) /\ Written(q) = r
  BY DEF Whole
<1>3. Text(b) \in Seq(Segment) /\ Written(Text(b)) = b
  BY <1>1, TextFacts, SegmentFacts, WrittenOne
<1>4. s \in Seq(Segment) /\ Written(s) = SubSeq(f, i, k)
  BY SegmentFacts, WrittenOne
<1>5. r = SubSeq(f, k + 1, Len(f))
  BY DEF After
<1>6. parse_segments[f] = Text(b) \o s \o q
  BY <1>1
<1> HIDE DEF b, r, q, s
<1>7. Text(b) \o s \in Seq(Segment) /\ (Text(b) \o s) \o q \in Seq(Segment)
  BY <1>2, <1>3, <1>4, SegmentFacts
<1>8. Written((Text(b) \o s) \o q) = (b \o SubSeq(f, i, k)) \o r
  <2>1. Written((Text(b) \o s) \o q) = Written(Text(b) \o s) \o Written(q)
    BY <1>2, <1>7, WrittenConcat
  <2>2. Written(Text(b) \o s) = Written(Text(b)) \o Written(s)
    BY <1>3, <1>4, WrittenConcat
  <2> QED
    BY <1>2, <1>3, <1>4, <2>1, <2>2, Zenon
<1>9. (b \o SubSeq(f, i, k)) \o r = f
  <2>1. /\ 1 \in Nat \ {0} /\ i - 1 \in 0 .. Len(f) /\ k \in 0 .. Len(f) /\ Len(f) \in 0 .. Len(f)
        /\ 1 <= (i - 1) + 1 /\ i - 1 <= k /\ 1 <= k + 1 /\ k <= Len(f) /\ (i - 1) + 1 = i
    OBVIOUS
  <2>2. SubSeq(f, 1, i - 1) \o SubSeq(f, (i - 1) + 1, k) = SubSeq(f, 1, k)
    BY <2>1, PartsJoin
  <2>3. SubSeq(f, 1, k) \o SubSeq(f, k + 1, Len(f)) = SubSeq(f, 1, Len(f))
    BY <2>1, PartsJoin
  <2>4. SubSeq(f, 1, i - 1) \o SubSeq(f, i, k) = SubSeq(f, 1, k)
    BY <2>1, <2>2
  <2>5. SubSeq(f, 1, Len(f)) = f
    BY SmallParts
  <2> QED
    BY <1>5, <2>3, <2>4, <2>5, Zenon DEF b
<1> QED
  BY <1>6, <1>7, <1>8, <1>9 DEF Whole

\* Every format is parsed whole: by induction on its length.
LEMMA AllParsedWhole ==
  \A f \in Seq(Token) : Whole(f)
<1> DEFINE S == {n \in Nat : \A f \in Seq(Token) : Len(f) < n => Whole(f)}
<1>1. 0 \in S
  <2>1. \A f \in Seq(Token) : ~ (Len(f) < 0)
    OBVIOUS
  <2> QED
    BY <2>1
<1>2. ASSUME NEW n \in Nat, n \in S PROVE n + 1 \in S
  <2> SUFFICES ASSUME NEW f \in Seq(Token), Len(f) < n + 1 PROVE Whole(f)
    OBVIOUS
  <2>1. \A g \in Seq(Token) : Len(g) < Len(f) => Whole(g)
    <3>1. \A g \in Seq(Token) : Len(g) < Len(f) => Len(g) < n
      OBVIOUS
    <3> QED
      BY <1>2, <3>1
  <2>2. parse_segments[f] = ParseBody(parse_segments, f)
    BY ParserSteps
  <2> HIDE DEF S
  <2>3. CASE Opens(f) = {}
    <3>1. parse_segments[f] = Text(f)
      BY <2>2, <2>3 DEF ParseBody
    <3> QED
      BY <3>1, TextFacts, SegmentFacts, WrittenOne DEF Whole
  <2>4. CASE Opens(f) # {} /\ StyledFirst(f)
    <3> DEFINE i == FirstBlock(f)
               k == StyledEnds(f, i)[2]
               seg == Styled(f, i, StyledEnds(f, i))
    <3>1. i \in 1 .. Len(f) /\ k \in i .. Len(f)
      <4>1. i \in 1 .. Len(f) /\ StyledAt(f, i) # {}
        BY <2>4, FirstBlockFacts DEF StyledFirst
      <4> HIDE DEF i
      <4>2. StyledEnds(f, i)[1] \in i + 1 .. Len(f)
            /\ StyledEnds(f, i)[2] \in StyledEnds(f, i)[1] + 2 .. Len(f)
        BY <4>1, StyledFacts
      <4> QED
        BY <4>1, <4>2
    <3>2. seg \in StyledSegment /\ WrittenSegment(seg) = SubSeq(f, i, k)
      BY <2>4, StyledTyped, StyledWritten
    <3>3. Whole(After(f, k))
      BY <2>1, <2>4, PartsAreShorter DEF AfterStyled
    <3>4. parse_segments[f] = Before(f, i) \o <<seg>> \o parse_segments[After(f, k)]
      BY <2>2, <2>4 DEF ParseBody, AfterStyled
    <3> HIDE DEF i, k, seg
    <3> QED
      BY <3>1, <3>2, <3>3, <3>4, WholeWithBlock
  <2>5. CASE Opens(f) # {} /\ ~ StyledFirst(f)
    <3> DEFINE i == FirstBlock(f)
               k == ConditionalEnd(f, i)
               seg == [kind |-> "Conditional", inner |-> Text(InsideFirst(f))]
    <3>1. i \in 1 .. Len(f) /\ k \in i .. Len(f)
      <4>1. i \in 1 .. Len(f) /\ ConditionalAt(f, i) # {}
        BY <2>5, FirstBlockFacts DEF StyledFirst, Opens
      <4> HIDE DEF i
      <4>2. k \in i + 1 .. Len(f)
        BY <4>1, ConditionalFacts
      <4> QED
        BY <4>1, <4>2
    <3>2. seg \in ConditionalSegment /\ WrittenSegment(seg) = SubSeq(f, i, k)
      BY <2>5, ConditionalWritten
    <3>3. Whole(After(f, k))
      BY <2>1, <2>5, PartsAreShorter DEF AfterConditional
    <3>4. parse_segments[f] = Before(f, i) \o <<seg>> \o parse_segments[After(f, k)]
      BY <2>2, <2>5, InnerIsText DEF ParseBody, AfterConditional
    <3> HIDE DEF i, k, seg
    <3> QED
      BY <3>1, <3>2, <3>3, <3>4, WholeWithBlock
  <2> QED
    BY <2>3, <2>4, <2>5
<1> HIDE DEF S
<1>3. \A n \in Nat : n \in S
  BY <1>1, <1>2, InductionOnNat
<1> QED
  <2> SUFFICES ASSUME NEW f \in Seq(Token) PROVE Whole(f)
    OBVIOUS
  <2>1. Len(f) + 1 \in Nat /\ Len(f) < Len(f) + 1
    OBVIOUS
  <2> QED
    BY <1>3, <2>1 DEF S

------------------------------------------------------------------------------
(* The configuration that the refreshes share. *)

\* What the file can hold.
Contents == {None, Invalid, Empty, Defaults} \cup Initial \cup Edited

\* The formats that are used with a content are formats.
LEMMA FormatsTyped ==
  ASSUME NEW content \in Contents
  PROVE  /\ parse_display_config(content).merge_ready.format \in Seq(Token)
         /\ parse_display_config(content).error.format \in Seq(Token)
<1> DEFINE raw == IF content \in {None, Invalid} THEN Empty ELSE content
           F(sections) == UNION {section["format"] : section \in sections}
<1>1. F(raw.merge_ready) \subseteq Seq(Token) /\ F(raw.error) \subseteq Seq(Token)
  <2>1. CASE raw = Empty
    BY <2>1 DEF Empty
  <2>2. CASE raw = Defaults
    BY <2>2, FormatAssumption DEF Defaults
  <2>3. CASE raw \in (Initial \cup Edited) \ {None, Invalid}
    <3>1. FormatsIn(raw) \subseteq Seq(Token)
      BY <2>3, FormatAssumption
    <3> HIDE DEF raw
    <3> QED
      BY <3>1 DEF FormatsIn
  <2>4. raw = Empty \/ raw = Defaults \/ raw \in (Initial \cup Edited) \ {None, Invalid}
    BY DEF Contents
  <2> HIDE DEF raw, F
  <2> QED
    BY <2>1, <2>2, <2>3, <2>4
<1>2. \A options, default : options \subseteq Seq(Token) /\ default \in Seq(Token) =>
        Or(options, default) \in Seq(Token)
  BY DEF Or
<1>3. /\ DefaultToken["format"] \in Seq(Token) /\ "format" \in DOMAIN DefaultToken
      /\ DefaultError["format"] \in Seq(Token) /\ "format" \in DOMAIN DefaultError
  BY FormatAssumption DEF DefaultToken, DefaultError
<1>4. \A sections, default : "format" \in DOMAIN default =>
        merge_token(sections, default).format = Or(F(sections), default["format"])
  BY DEF merge_token
<1>5. /\ merge_token(raw.merge_ready, DefaultToken).format = Or(F(raw.merge_ready), DefaultToken["format"])
      /\ merge_token(raw.error, DefaultError).format = Or(F(raw.error), DefaultError["format"])
  <2> HIDE DEF raw, F
  <2> QED
    BY <1>3, <1>4
<1>6. parse_display_config(content)
        = [merge_ready |-> merge_token(raw.merge_ready, DefaultToken),
           error |-> merge_token(raw.error, DefaultError)]
  BY DEF parse_display_config
<1> HIDE DEF raw, F
<1>7. /\ parse_display_config(content).merge_ready = merge_token(raw.merge_ready, DefaultToken)
      /\ parse_display_config(content).error = merge_token(raw.error, DefaultError)
  BY <1>6
<1> QED
  BY <1>1, <1>2, <1>3, <1>5, <1>7

\* What a refresh has read can be in a file, and what it compiled or loaded was made of it.
LoadCoherent(state) ==
  /\ state.stage \in {"idle", "read", "compiled", "loaded"}
  /\ state.stage # "idle" => state.content \in Contents
  /\ state.stage \in {"compiled", "loaded"} => state.config = CompiledDisplayConfig(state.content)

CacheCoherent == cache # None => cache.config = CompiledDisplayConfig(cache.fingerprint)

Inv ==
  /\ file \in Contents
  /\ load = [r \in Refresh |-> load[r]]
  /\ \A r \in Refresh : LoadCoherent(load[r])
  /\ CacheCoherent

\* A step of one refresh leaves the others alone.
LEMMA GoesFacts ==
  ASSUME Inv, NEW r \in Refresh, NEW state, LoadCoherent(state), Goes(r, state)
  PROVE  load' = [q \in Refresh |-> load'[q]] /\ \A q \in Refresh : LoadCoherent(load'[q])
<1>1. load' = [load EXCEPT ![r] = state]
  BY DEF Goes
<1>2. load' = [q \in Refresh |-> load'[q]]
  BY <1>1 DEF Inv
<1>3. \A q \in Refresh : load'[q] = IF q = r THEN state ELSE load[q]
  BY <1>1 DEF Inv
<1> QED
  BY <1>2, <1>3 DEF Inv

\* The invariant holds at first.
LEMMA InitInv == Init => Inv
<1> SUFFICES ASSUME Init PROVE Inv
  OBVIOUS
<1>1. file \in Contents /\ cache = None
  BY DEF Init, Contents
<1>2. load = [r \in Refresh |-> load[r]] /\ \A r \in Refresh : load[r] = Idle
  BY DEF Init
<1>3. LoadCoherent(Idle)
  BY DEF LoadCoherent, Idle
<1> QED
  BY <1>1, <1>2, <1>3 DEF Inv, CacheCoherent

\* Every step keeps the invariant.
LEMMA NextInv == Inv /\ [Next]_vars => Inv'
<1> SUFFICES ASSUME Inv, [Next]_vars PROVE Inv'
  OBVIOUS
<1> USE DEF Inv
<1>1. ASSUME NEW r \in Refresh, Read(r) PROVE Inv'
  <2> DEFINE state == [stage |-> "read", content |-> file]
  <2>1. LoadCoherent(state) /\ Goes(r, state)
    BY <1>1 DEF Read, LoadCoherent
  <2> HIDE DEF state, Inv
  <2>2. load' = [q \in Refresh |-> load'[q]] /\ \A q \in Refresh : LoadCoherent(load'[q])
    BY <2>1, GoesFacts
  <2> QED
    BY <1>1, <2>2 DEF Read, Inv, CacheCoherent, LoadCoherent
<1>2. ASSUME NEW r \in Refresh, LookUp(r) PROVE Inv'
  <2>1. load[r].content \in Contents
    BY <1>2 DEF LookUp, LoadCoherent
  <2>2. ASSUME NEW config, config = CompiledDisplayConfig(load[r].content)
        PROVE  /\ LoadCoherent([stage |-> "loaded", content |-> load[r].content, config |-> config])
               /\ LoadCoherent([stage |-> "compiled", content |-> load[r].content, config |-> config])
    BY <2>1, <2>2 DEF LoadCoherent
  <2>3. Hit(r) => cache.config = CompiledDisplayConfig(load[r].content)
    BY DEF Hit, CacheCoherent
  <2>4. \E state : LoadCoherent(state) /\ Goes(r, state)
    BY <1>2, <2>2, <2>3 DEF LookUp, Done
  <2> HIDE DEF Inv
  <2>5. load' = [q \in Refresh |-> load'[q]] /\ \A q \in Refresh : LoadCoherent(load'[q])
    BY <2>4, GoesFacts
  <2> QED
    BY <1>2, <2>5 DEF LookUp, Inv, CacheCoherent, LoadCoherent
<1>3. ASSUME NEW r \in Refresh, Store(r) PROVE Inv'
  <2> DEFINE state == [stage |-> "loaded", content |-> load[r].content, config |-> load[r].config]
  <2>1. load[r].content \in Contents /\ load[r].config = CompiledDisplayConfig(load[r].content)
    BY <1>3 DEF Store, LoadCoherent
  <2>2. LoadCoherent(state) /\ Goes(r, state)
    BY <1>3, <2>1 DEF Store, Done, LoadCoherent
  <2> HIDE DEF state, Inv
  <2>3. load' = [q \in Refresh |-> load'[q]] /\ \A q \in Refresh : LoadCoherent(load'[q])
    BY <2>2, GoesFacts
  <2>4. CacheCoherent'
    BY <1>3, <2>1 DEF Store, CacheCoherent
  <2> QED
    BY <1>3, <2>3, <2>4 DEF Store, Inv, LoadCoherent
<1>4. ASSUME NEW r \in Refresh, Rendered(r) PROVE Inv'
  <2>1. LoadCoherent(Idle) /\ Goes(r, Idle)
    BY <1>4 DEF Rendered, LoadCoherent, Idle
  <2> HIDE DEF Inv
  <2>2. load' = [q \in Refresh |-> load'[q]] /\ \A q \in Refresh : LoadCoherent(load'[q])
    BY <2>1, GoesFacts
  <2> QED
    BY <1>4, <2>2 DEF Rendered, Inv, CacheCoherent, LoadCoherent
<1>5. ASSUME EnsureConfigFile \/ WriteDefaults \/ EditorEnds PROVE Inv'
  <2>1. file' \in Contents /\ UNCHANGED <<cache, load>>
    BY <1>5 DEF EnsureConfigFile, WriteDefaults, EditorEnds, Contents
  <2> QED
    BY <2>1 DEF CacheCoherent, LoadCoherent
<1>6. CASE UNCHANGED vars
  BY <1>6 DEF vars, CacheCoherent, LoadCoherent
<1> HIDE DEF Inv
<1> QED
  BY <1>1, <1>2, <1>3, <1>4, <1>5, <1>6 DEF Next

LEMMA InvHolds == Spec => []Inv
BY InitInv, NextInv, PTL DEF Spec

\* A refresh renders with what it has read, and the cache holds what was
\* compiled of the content it is for, however refreshes and edits interleave.
THEOREM LoadedIsReadHolds == Spec => []LoadedIsRead
<1>1. Inv => LoadedIsRead
  BY DEF Inv, LoadedIsRead, LoadCoherent, CacheCoherent
<1> QED
  BY <1>1, InvHolds, PTL

\* What has just been compiled is a format.
LEMMA FormatsInUse ==
  ASSUME Inv, NEW f \in Formats
  PROVE  f \in Seq(Token)
<1>1. PICK content \in Fresh :
        f \in {parse_display_config(content).merge_ready.format,
               parse_display_config(content).error.format}
  BY DEF Formats
<1>2. content \in Contents
  BY <1>1 DEF Fresh, Inv, LoadCoherent
<1> QED
  BY <1>1, <1>2, FormatsTyped

\* The segments of every format that is compiled, written out, are the format.
THEOREM ParsedWholeHolds == Spec => []ParsedWhole
<1>1. Inv => ParsedWhole
  <2> SUFFICES ASSUME Inv, NEW f \in Formats PROVE Written(parse_segments[f]) = f
    BY DEF ParsedWhole
  <2>1. f \in Seq(Token)
    BY FormatsInUse
  <2> QED
    BY <2>1, AllParsedWhole DEF Whole
<1> QED
  BY <1>1, InvHolds, PTL

------------------------------------------------------------------------------
(* How deep blocks are nested. *)

\* No styled block can end in f.
Unclosed(f) == \A m \in 1 .. Len(f) : f[m] # "]"

PlainSegment == TextSegment \cup ConditionalSegment

\* What a format's segments are: the content of a styled block has no such block.
TidySegment == PlainSegment \cup {x \in StyledSegment : Unclosed(x.content)}

\* What the segments of f are.
Shaped(f) ==
  /\ parse_segments[f] \in Seq(TidySegment)
  /\ Unclosed(f) => parse_segments[f] \in Seq(PlainSegment)

\* The content of a styled block has no such block.
LEMMA ContentUnclosed ==
  ASSUME NEW f \in Seq(Token), Opens(f) # {}, StyledFirst(f)
  PROVE  /\ Styled(f, FirstBlock(f), StyledEnds(f, FirstBlock(f))) \in TidySegment
         /\ ~ Unclosed(f)
<1> DEFINE i == FirstBlock(f)
           e == StyledEnds(f, i)
           seg == Styled(f, i, e)
<1>1. i \in 1 .. Len(f) /\ StyledAt(f, i) # {} /\ seg \in StyledSegment
  BY FirstBlockFacts, StyledTyped DEF StyledFirst
<1> HIDE DEF i
<1>2. e[1] \in i + 1 .. Len(f) /\ f[e[1]] = "]"
  BY <1>1, StyledFacts
<1>3. \A m \in i + 1 .. e[1] - 1 : f[m] # "]"
  BY <1>1 DEF StyledAt, IsFirst, StyledEnds
<1> DEFINE a == e[1]
           c == SubSeq(f, i + 1, a - 1)
<1>4. seg.content = c
  BY DEF Styled
<1> HIDE DEF e, seg
<1>5. a \in i + 1 .. Len(f) /\ f[a] = "]" /\ \A m \in i + 1 .. a - 1 : f[m] # "]"
  BY <1>2, <1>3
<1> HIDE DEF a
<1>6. i + 1 \in Nat \ {0} /\ a - 1 \in 0 .. Len(f)
  BY <1>1, <1>5
<1>7. /\ Len(c) = (IF i + 1 <= a - 1 THEN (a - 1) - (i + 1) + 1 ELSE 0)
      /\ \A m \in 1 .. Len(c) : c[m] = f[(i + 1) + m - 1]
  BY <1>6, PartFacts
<1> HIDE DEF c
<1>8. Unclosed(c)
  <2> SUFFICES ASSUME NEW m \in 1 .. Len(c) PROVE c[m] # "]"
    BY DEF Unclosed
  <2>1. (i + 1) + m - 1 \in i + 1 .. a - 1
    BY <1>1, <1>5, <1>7
  <2> QED
    BY <1>5, <1>7, <2>1
<1>9. ~ Unclosed(f)
  <2>1. a \in 1 .. Len(f)
    BY <1>1, <1>5
  <2> QED
    BY <1>5, <2>1 DEF Unclosed
<1> QED
  BY <1>1, <1>4, <1>8, <1>9 DEF TidySegment, seg, e, i

\* What follows a block has no end of a styled block if the format has none.
LEMMA AfterUnclosed ==
  ASSUME NEW f \in Seq(Token), NEW k \in 1 .. Len(f), Unclosed(f)
  PROVE  Unclosed(After(f, k))
<1> DEFINE r == After(f, k)
<1>1. k + 1 \in Nat \ {0} /\ Len(f) \in 0 .. Len(f)
  OBVIOUS
<1>2. /\ Len(r) = (IF k + 1 <= Len(f) THEN Len(f) - (k + 1) + 1 ELSE 0)
      /\ \A m \in 1 .. Len(r) : r[m] = f[(k + 1) + m - 1]
  BY <1>1, PartFacts DEF After
<1> HIDE DEF r
<1>3. \A m \in 1 .. Len(r) : (k + 1) + m - 1 \in 1 .. Len(f)
  BY <1>2
<1> QED
  BY <1>2, <1>3 DEF Unclosed, r

\* Some kinds of segments are kinds of others.
LEMMA KindsOfSegments ==
  /\ TextSegment \subseteq PlainSegment /\ ConditionalSegment \subseteq PlainSegment
  /\ PlainSegment \subseteq TidySegment
BY DEF PlainSegment, TidySegment

\* Segments one after the other.
LEMMA JoinSegments ==
  ASSUME NEW B, NEW r \in Seq(B), NEW x \in B, NEW s \in Seq(B)
  PROVE  r \o <<x>> \o s \in Seq(B)
OBVIOUS

\* A list is one of a larger set.
LEMMA LargerSet ==
  ASSUME NEW A, NEW B, A \subseteq B, NEW s \in Seq(A)
  PROVE  s \in Seq(B)
OBVIOUS

\* Every format: by induction on its length.
LEMMA AllShaped ==
  \A f \in Seq(Token) : Shaped(f)
<1> DEFINE S == {n \in Nat : \A f \in Seq(Token) : Len(f) < n => Shaped(f)}
<1>1. 0 \in S
  <2>1. \A f \in Seq(Token) : ~ (Len(f) < 0)
    OBVIOUS
  <2> QED
    BY <2>1
<1>2. ASSUME NEW n \in Nat, n \in S PROVE n + 1 \in S
  <2> SUFFICES ASSUME NEW f \in Seq(Token), Len(f) < n + 1 PROVE Shaped(f)
    OBVIOUS
  <2>1. \A g \in Seq(Token) : Len(g) < Len(f) => Shaped(g)
    <3>1. \A g \in Seq(Token) : Len(g) < Len(f) => Len(g) < n
      OBVIOUS
    <3> QED
      BY <1>2, <3>1
  <2>2. parse_segments[f] = ParseBody(parse_segments, f)
    BY ParserSteps
  <2> HIDE DEF S
  <2> DEFINE B == TidySegment
  <2>3. TextSegment \subseteq B /\ PlainSegment \subseteq B /\ ConditionalSegment \subseteq B
        /\ TextSegment \subseteq PlainSegment /\ ConditionalSegment \subseteq PlainSegment
    BY KindsOfSegments
  <2>4. \A g \in Seq(Token) : Len(g) < Len(f) => parse_segments[g] \in Seq(B)
    BY <2>1 DEF Shaped
  <2>5. \A i \in 1 .. Len(f) : Before(f, i) \in Seq(TextSegment)
    BY BeforeFacts, TextFacts
  <2>6. \A i \in 1 .. Len(f) : Before(f, i) \in Seq(B) /\ Before(f, i) \in Seq(PlainSegment)
    BY <2>3, <2>5, LargerSet
  <2>7. CASE Opens(f) = {}
    <3>1. parse_segments[f] = Text(f)
      BY <2>2, <2>7 DEF ParseBody
    <3>2. Text(f) \in Seq(TextSegment)
      BY TextFacts
    <3> QED
      BY <2>3, <3>1, <3>2, LargerSet DEF Shaped
  <2>8. CASE Opens(f) # {} /\ StyledFirst(f)
    <3> DEFINE i == FirstBlock(f)
               seg == Styled(f, i, StyledEnds(f, i))
               q == parse_segments[AfterStyled(f)]
               b == Before(f, i)
    <3>1. parse_segments[f] = b \o <<seg>> \o q
      BY <2>2, <2>8 DEF ParseBody
    <3>2. seg \in B /\ ~ Unclosed(f)
      BY <2>8, ContentUnclosed
    <3>3. q \in Seq(B)
      BY <2>4, <2>8, PartsAreShorter
    <3>4. b \in Seq(B)
      BY <2>6, <2>8, FirstBlockFacts
    <3> HIDE DEF i, seg, q, B, b
    <3>5. b \o <<seg>> \o q \in Seq(B)
      BY <3>2, <3>3, <3>4, JoinSegments
    <3> QED
      BY <3>1, <3>2, <3>5 DEF Shaped, B
  <2>9. CASE Opens(f) # {} /\ ~ StyledFirst(f)
    <3> DEFINE i == FirstBlock(f)
               k == ConditionalEnd(f, i)
               seg == [kind |-> "Conditional", inner |-> Text(InsideFirst(f))]
               r == AfterConditional(f)
               q == parse_segments[r]
               b == Before(f, i)
    <3>1. parse_segments[f] = b \o <<seg>> \o q
      BY <2>2, <2>9, InnerIsText DEF ParseBody
    <3>2. seg \in ConditionalSegment
      BY <2>9, ConditionalWritten
    <3>3. seg \in B /\ seg \in PlainSegment
      BY <2>3, <3>2
    <3>4. r \in Seq(Token) /\ Len(r) < Len(f)
      BY <2>9, PartsAreShorter
    <3>5. q \in Seq(B)
      BY <2>4, <3>4
    <3>6. b \in Seq(B) /\ b \in Seq(PlainSegment)
      BY <2>6, <2>9, FirstBlockFacts
    <3>7. Unclosed(f) => q \in Seq(PlainSegment)
      <4> SUFFICES ASSUME Unclosed(f) PROVE q \in Seq(PlainSegment)
        OBVIOUS
      <4>1. k \in 1 .. Len(f) /\ r = After(f, k)
        <5>1. i \in 1 .. Len(f) /\ ConditionalAt(f, i) # {}
          BY <2>9, FirstBlockFacts DEF StyledFirst, Opens
        <5> HIDE DEF i
        <5>2. k \in i + 1 .. Len(f)
          BY <5>1, ConditionalFacts
        <5> QED
          BY <5>1, <5>2 DEF AfterConditional, i
      <4>2. Unclosed(r)
        BY <4>1, AfterUnclosed
      <4> QED
        BY <2>1, <3>4, <4>2 DEF Shaped
    <3> HIDE DEF i, k, seg, q, B, b, r
    <3>8. b \o <<seg>> \o q \in Seq(B)
      BY <3>3, <3>5, <3>6, JoinSegments
    <3>9. Unclosed(f) => b \o <<seg>> \o q \in Seq(PlainSegment)
      BY <3>3, <3>6, <3>7, JoinSegments
    <3> QED
      BY <3>1, <3>8, <3>9 DEF Shaped, B
  <2> QED
    BY <2>7, <2>8, <2>9
<1> HIDE DEF S
<1>3. \A n \in Nat : n \in S
  BY <1>1, <1>2, InductionOnNat
<1> QED
  <2> SUFFICES ASSUME NEW f \in Seq(Token) PROVE Shaped(f)
    OBVIOUS
  <2>1. Len(f) + 1 \in Nat /\ Len(f) < Len(f) + 1
    OBVIOUS
  <2> QED
    BY <1>3, <2>1 DEF S

------------------------------------------------------------------------------
(* What a format compiles to. *)

\* A segment compiled, with p for the lists it holds.
CompileSegment(p, seg) ==
  IF seg.kind = "Styled"
  THEN [kind |-> "Styled", style |-> StyleOf(seg.style_str), content |-> p[seg.content]]
  ELSE seg

CompileBody(p, f) ==
  [n \in DOMAIN parse_segments[f] |-> CompileSegment(p, parse_segments[f][n])]

SolvesCompile(p) == p = [f \in Seq(Token) |-> CompileBody(p, f)]

\* The compiler is a solution of its recursion, if there is one.
LEMMA CompilerIsChosen ==
  compile_segments = CHOOSE p : SolvesCompile(p)
BY DEF compile_segments, SolvesCompile, CompileBody, CompileSegment

\* Segments without styles are compiled to themselves.
LEMMA PlainCompiled ==
  ASSUME NEW f \in Seq(Token), parse_segments[f] \in Seq(PlainSegment), NEW p
  PROVE  CompileBody(p, f) = parse_segments[f]
<1> DEFINE s == parse_segments[f]
<1>1. \A n \in DOMAIN s : s[n] \in PlainSegment
  OBVIOUS
<1>2. \A seg \in PlainSegment : CompileSegment(p, seg) = seg
  BY DEF PlainSegment, TextSegment, ConditionalSegment, CompileSegment
<1>3. s = [n \in DOMAIN s |-> s[n]]
  OBVIOUS
<1>4. CompileBody(p, f) = [n \in DOMAIN s |-> CompileSegment(p, s[n])]
  BY DEF CompileBody
<1> HIDE DEF s
<1>5. [n \in DOMAIN s |-> CompileSegment(p, s[n])] = [n \in DOMAIN s |-> s[n]]
  BY <1>1, <1>2
<1> QED
  BY <1>3, <1>4, <1>5, Zenon DEF s

\* The recursion has a solution: it ends at the content of a styled block.
LEMMA CompilerExists ==
  \E p : SolvesCompile(p)
<1> DEFINE q == [f \in Seq(Token) |-> parse_segments[f]]
           p == [f \in Seq(Token) |-> CompileBody(q, f)]
<1>1. \A f \in Seq(Token) : q[f] = parse_segments[f]
  OBVIOUS
<1>2. \A f \in Seq(Token) : p[f] = CompileBody(q, f)
  OBVIOUS
<1>3. p = [f \in Seq(Token) |-> p[f]]
  OBVIOUS
<1> HIDE DEF p, q
<1>4. ASSUME NEW f \in Seq(Token) PROVE CompileBody(p, f) = CompileBody(q, f)
  <2> DEFINE s == parse_segments[f]
  <2>1. \A n \in DOMAIN s : s[n] \in TidySegment
    <3>1. s \in Seq(TidySegment)
      BY AllShaped DEF Shaped
    <3> HIDE DEF s
    <3> QED
      BY <3>1
  <2>2. ASSUME NEW seg \in TidySegment PROVE CompileSegment(p, seg) = CompileSegment(q, seg)
    <3>1. CASE seg.kind # "Styled"
      BY <3>1 DEF CompileSegment
    <3>2. CASE seg.kind = "Styled"
      <4> DEFINE c == seg.content
      <4>1. c \in Seq(Token) /\ Unclosed(c)
        BY <3>2 DEF TidySegment, PlainSegment, TextSegment, ConditionalSegment, StyledSegment
      <4> HIDE DEF c
      <4>2. parse_segments[c] \in Seq(PlainSegment)
        BY <4>1, AllShaped DEF Shaped
      <4>3. CompileBody(q, c) = parse_segments[c]
        BY <4>1, <4>2, PlainCompiled
      <4>4. p[c] = q[c]
        BY <1>1, <1>2, <4>1, <4>3
      <4> QED
        BY <4>4 DEF CompileSegment, c
    <3> QED
      BY <3>1, <3>2
  <2>3. /\ CompileBody(p, f) = [n \in DOMAIN s |-> CompileSegment(p, s[n])]
        /\ CompileBody(q, f) = [n \in DOMAIN s |-> CompileSegment(q, s[n])]
    BY DEF CompileBody
  <2> HIDE DEF s
  <2>4. [n \in DOMAIN s |-> CompileSegment(p, s[n])] = [n \in DOMAIN s |-> CompileSegment(q, s[n])]
    BY <2>1, <2>2
  <2> QED
    BY <2>3, <2>4, Zenon
<1>5. p = [f \in Seq(Token) |-> CompileBody(p, f)]
  BY <1>2, <1>3, <1>4
<1> QED
  BY <1>5 DEF SolvesCompile

\* The compiler returns what its definition says.
LEMMA CompilerSteps ==
  \A f \in Seq(Token) : compile_segments[f] = CompileBody(compile_segments, f)
<1>1. SolvesCompile(compile_segments)
  BY CompilerExists, CompilerIsChosen
<1> QED
  BY <1>1 DEF SolvesCompile

\* The color is one that a word names, or none.
LEMMA LastColorTyped ==
  ASSUME NEW s \in Seq(Token), NEW colors
  PROVE  LastColor(s, colors) \in {NoColor} \cup Range(colors)
<1> DEFINE named == {n \in DOMAIN s : s[n] \in DOMAIN colors}
<1>1. named \in SUBSET (1 .. Len(s)) /\ Len(s) \in Nat
  OBVIOUS
<1>2. \A n \in named : colors[s[n]] \in Range(colors)
  BY DEF Range
<1>3. LastColor(s, colors) = IF named = {} THEN NoColor ELSE colors[s[Max(named)]]
  BY DEF LastColor
<1> HIDE DEF named
<1>4. named # {} => Max(named) \in named
  BY <1>1, MaxInSet
<1> QED
  BY <1>2, <1>3, <1>4

\* What the words of a block ask for is a style.
LEMMA StyleTyped ==
  ASSUME NEW s \in Seq(Token)
  PROVE  StyleOf(s) \in Style
<1>1. Plain \in Style
  BY DEF Plain, Style
<1>2. /\ LastColor(s, Foreground) \in {NoColor} \cup Range(Foreground)
      /\ LastColor(s, Background) \in {NoColor} \cup Range(Background)
  BY LastColorTyped
<1>3. ModifiersOf(s) \in SUBSET Modifier
  BY DEF ModifiersOf
<1>4. [fg |-> LastColor(s, Foreground), bg |-> LastColor(s, Background),
       modifiers |-> ModifiersOf(s)] \in Style
  BY <1>2, <1>3 DEF Style
<1> QED
  BY <1>1, <1>4 DEF StyleOf

\* Compiled blocks.
StyledBlock == [kind : {"Styled"}, style : Style, content : Seq(PlainSegment)]

CompiledSegment == PlainSegment \cup StyledBlock

\* A format compiles to segments whose styled blocks hold none.
LEMMA CompiledTyped ==
  ASSUME NEW f \in Seq(Token)
  PROVE  compile_segments[f] \in Seq(CompiledSegment)
<1> DEFINE s == parse_segments[f]
           p == compile_segments
           u == CompileBody(p, f)
<1>1. s \in Seq(TidySegment)
  BY AllShaped DEF Shaped
<1>2. ASSUME NEW seg \in TidySegment PROVE CompileSegment(p, seg) \in CompiledSegment
  <2>1. CASE seg \in PlainSegment
    <3>1. seg.kind # "Styled"
      BY <2>1 DEF PlainSegment, TextSegment, ConditionalSegment
    <3> QED
      BY <2>1, <3>1 DEF CompileSegment, CompiledSegment
  <2>2. CASE seg \in StyledSegment /\ Unclosed(seg.content)
    <3> DEFINE c == seg.content
               w == seg.style_str
    <3>1. c \in Seq(Token) /\ w \in Seq(Token) /\ seg.kind = "Styled"
      BY <2>2 DEF StyledSegment
    <3>2. CompileSegment(p, seg) = [kind |-> "Styled", style |-> StyleOf(w), content |-> p[c]]
      BY <3>1 DEF CompileSegment
    <3>3. Unclosed(c)
      BY <2>2
    <3> HIDE DEF c, w, p
    <3>4. parse_segments[c] \in Seq(PlainSegment)
      BY <3>1, <3>3, AllShaped DEF Shaped
    <3>5. p[c] = parse_segments[c]
      BY <3>1, <3>4, CompilerSteps, PlainCompiled DEF p
    <3>6. StyleOf(w) \in Style
      BY <3>1, StyleTyped
    <3> QED
      BY <3>2, <3>4, <3>5, <3>6 DEF CompiledSegment, StyledBlock
  <2> QED
    BY <2>1, <2>2 DEF TidySegment
<1>3. u = [n \in DOMAIN s |-> CompileSegment(p, s[n])]
  BY DEF CompileBody
<1>4. compile_segments[f] = u
  BY CompilerSteps
<1> HIDE DEF s, p, u
<1>5. DOMAIN s = 1 .. Len(s) /\ Len(s) \in Nat /\ \A n \in 1 .. Len(s) : s[n] \in TidySegment
  BY <1>1
<1>6. u \in Seq(CompiledSegment)
  <2> HIDE DEF CompiledSegment
  <2>1. \A n \in 1 .. Len(s) : CompileSegment(p, s[n]) \in CompiledSegment
    BY <1>2, <1>5
  <2>2. u = [n \in 1 .. Len(s) |-> CompileSegment(p, s[n])]
    BY <1>3, <1>5
  <2> QED
    BY <1>5, <2>1, <2>2
<1> QED
  BY <1>4, <1>6

\* A list without styled blocks holds one level of lists, a format two.
LEMMA NestedFacts ==
  /\ Seq(TextSegment) \subseteq Nested({})
  /\ Seq(PlainSegment) \subseteq Nested(Nested({}))
  /\ Seq(CompiledSegment) \subseteq Nested(Nested(Nested({})))
<1>1. \A S : Nested(S) = Seq(Holding(S))
  BY DEF Nested
<1>2. \A A, C : A \subseteq C => Seq(A) \subseteq Seq(C)
  OBVIOUS
<1>3. TextSegment \subseteq Holding({})
  BY DEF TextSegment, Holding
<1>4. Seq(TextSegment) \subseteq Nested({})
  BY <1>1, <1>2, <1>3
<1>5. PlainSegment \subseteq Holding(Nested({}))
  BY <1>4 DEF PlainSegment, TextSegment, ConditionalSegment, Holding
<1>6. Seq(PlainSegment) \subseteq Nested(Nested({}))
  BY <1>1, <1>2, <1>5
<1>7. Seq(TextSegment) \subseteq Nested(Nested({}))
  BY <1>2, <1>6 DEF PlainSegment
<1>8. CompiledSegment \subseteq Holding(Nested(Nested({})))
  BY <1>6, <1>7 DEF Holding, CompiledSegment, StyledBlock, PlainSegment, TextSegment, ConditionalSegment
<1>9. Seq(CompiledSegment) \subseteq Nested(Nested(Nested({})))
  BY <1>1, <1>2, <1>8
<1> QED
  BY <1>4, <1>6, <1>9

------------------------------------------------------------------------------
(* The recursion of the renderer. *)

\* A list rendered, with p for the lists it holds.
EvalBody(p, s, known) == FlattenSeq([n \in DOMAIN s |-> eval_segment(p, s[n], known)])

SolvesEval(p, known) == p = [s \in CompiledSegments |-> EvalBody(p, s, known)]

Renderer(known) == CHOOSE p : SolvesEval(p, known)

\* The renderer is a solution of its recursion, if there is one.
LEMMA RendererIsChosen ==
  \A segs, known : eval_segments(segs, known) = Renderer(known)[segs]
BY DEF eval_segments, Renderer, SolvesEval, EvalBody

\* p renders the lists in S.
Renders(p, S, known) ==
  /\ p = [s \in CompiledSegments |-> p[s]]
  /\ \A s \in S : p[s] = EvalBody(p, s, known)

\* Lists of blocks that hold more lists are more.
LEMMA NestedMonotone ==
  ASSUME NEW S, NEW T, S \subseteq T
  PROVE  Nested(S) \subseteq Nested(T)
<1>1. Nested(S) = Seq(Holding(S)) /\ Nested(T) = Seq(Holding(T))
  BY DEF Nested
<1>2. Holding(S) \subseteq Holding(T)
  BY DEF Holding
<1>3. \A A, C : A \subseteq C => Seq(A) \subseteq Seq(C)
  OBVIOUS
<1> QED
  BY <1>1, <1>2, <1>3

\* A segment renders to what the lists it holds are rendered to.
LEMMA SegmentDepends ==
  ASSUME NEW S, NEW known, NEW p, NEW q, \A c \in S : p[c] = q[c],
         NEW seg \in Holding(S)
  PROVE  eval_segment(p, seg, known) = eval_segment(q, seg, known)
<1>1. CASE seg.kind = "Text"
  BY <1>1 DEF eval_segment
<1>2. CASE seg.kind = "Styled"
  <2>1. seg.content \in S
    BY <1>2 DEF Holding
  <2>2. p[seg.content] = q[seg.content]
    BY <2>1
  <2>3. \A r : eval_segment(r, seg, known) = paint(seg.style, r[seg.content])
    BY <1>2 DEF eval_segment
  <2> QED
    BY <2>2, <2>3
<1>3. CASE seg.kind = "Conditional"
  <2>1. seg.inner \in S
    BY <1>3 DEF Holding
  <2>2. p[seg.inner] = q[seg.inner]
    BY <2>1
  <2>3. \A r : eval_segment(r, seg, known)
               = IF ShowsBlock(seg.inner, known) THEN r[seg.inner] ELSE << >>
    BY <1>3 DEF eval_segment
  <2> QED
    BY <2>2, <2>3
<1> QED
  BY <1>1, <1>2, <1>3 DEF Holding

\* A list renders to what the lists that its blocks hold are rendered to.
LEMMA ListDepends ==
  ASSUME NEW S, NEW s \in Nested(S), NEW known, NEW p, NEW q, \A c \in S : p[c] = q[c]
  PROVE  EvalBody(p, s, known) = EvalBody(q, s, known)
<1>1. \A seg \in Holding(S) : eval_segment(p, seg, known) = eval_segment(q, seg, known)
  BY SegmentDepends
<1>2. s \in Seq(Holding(S))
  BY DEF Nested
<1>3. \A n \in DOMAIN s : s[n] \in Holding(S)
  BY <1>2
<1>4. [n \in DOMAIN s |-> eval_segment(p, s[n], known)]
        = [n \in DOMAIN s |-> eval_segment(q, s[n], known)]
  BY <1>1, <1>3
<1> QED
  BY <1>4, Zenon DEF EvalBody

\* Who renders some lists can render those whose blocks hold them.
LEMMA RendersDeeper ==
  ASSUME NEW S, NEW known, S \subseteq CompiledSegments, Nested(S) \subseteq CompiledSegments,
         \E p : Renders(p, S, known)
  PROVE  \E p : Renders(p, Nested(S), known)
<1>1. PICK p : Renders(p, S, known)
  OBVIOUS
<1> DEFINE q == [s \in CompiledSegments |-> EvalBody(p, s, known)]
<1>2. q = [s \in CompiledSegments |-> q[s]]
      /\ \A s \in CompiledSegments : q[s] = EvalBody(p, s, known)
  OBVIOUS
<1> HIDE DEF q
<1>3. \A c \in S : p[c] = q[c]
  BY <1>1, <1>2 DEF Renders
<1>4. \A s \in Nested(S) : EvalBody(p, s, known) = EvalBody(q, s, known)
  BY <1>3, ListDepends
<1>5. Renders(q, Nested(S), known)
  BY <1>2, <1>4 DEF Renders
<1> QED
  BY <1>5

\* Lists whose blocks are nested up to so many levels.
One == Nested({})

Two == Nested(One)

Three == Nested(Two)

Four == Nested(Three)

\* All of them can be rendered.
LEMMA Levels ==
  /\ {} \subseteq CompiledSegments /\ One \subseteq CompiledSegments /\ Two \subseteq CompiledSegments
  /\ Three \subseteq CompiledSegments /\ Four \subseteq CompiledSegments
  /\ CompiledSegments = Nested(Four)
<1>1. CompiledSegments = Nested(Four)
  BY DEF CompiledSegments, One, Two, Three, Four
<1>2. {} \subseteq One
  OBVIOUS
<1>3. One \subseteq Two
  BY <1>2, NestedMonotone DEF One, Two
<1>4. Two \subseteq Three
  BY <1>3, NestedMonotone DEF Two, Three
<1>5. Three \subseteq Four
  BY <1>4, NestedMonotone DEF Three, Four
<1>6. Four \subseteq Nested(Four)
  BY <1>5, NestedMonotone DEF Four
<1> QED
  BY <1>1, <1>2, <1>3, <1>4, <1>5, <1>6

\* The recursion of the renderer has a solution, level by level.
LEMMA RendererExists ==
  ASSUME NEW known
  PROVE  \E p : SolvesEval(p, known)
<1>1. \E p : Renders(p, {}, known)
  <2> DEFINE p == [s \in CompiledSegments |-> << >>]
  <2>1. p = [s \in CompiledSegments |-> p[s]]
    OBVIOUS
  <2> HIDE DEF p
  <2>2. Renders(p, {}, known)
    BY <2>1 DEF Renders
  <2> QED
    BY <2>2
<1>2. \E p : Renders(p, One, known)
  BY <1>1, Levels, RendersDeeper DEF One
<1>3. \E p : Renders(p, Two, known)
  BY <1>2, Levels, RendersDeeper DEF Two
<1>4. \E p : Renders(p, Three, known)
  BY <1>3, Levels, RendersDeeper DEF Three
<1>5. \E p : Renders(p, Four, known)
  BY <1>4, Levels, RendersDeeper DEF Four
<1>6. \E p : Renders(p, CompiledSegments, known)
  BY <1>5, Levels, RendersDeeper
<1>7. PICK p : Renders(p, CompiledSegments, known)
  BY <1>6
<1>8. p = [s \in CompiledSegments |-> EvalBody(p, s, known)]
  BY <1>7 DEF Renders
<1> QED
  BY <1>8 DEF SolvesEval

\* Lists are rendered as the definition says.
LEMMA RendererSteps ==
  ASSUME NEW known, NEW s \in CompiledSegments
  PROVE  Renderer(known)[s] = EvalBody(Renderer(known), s, known)
<1>1. SolvesEval(Renderer(known), known)
  BY RendererExists DEF Renderer
<1> QED
  BY <1>1 DEF SolvesEval

------------------------------------------------------------------------------
(* What segments are rendered to. *)

\* The names have values of tokens in A, as the format has.
KnownIn(known, A) == Token \subseteq A /\ \A name \in DOMAIN known : known[name] \in Seq(A)

CellIn(A, styles) == [token : A, style : styles]

\* A text with the values in the place of the names.
ValuesIn(t, known) ==
  [n \in DOMAIN t |-> IF t[n] \in DOMAIN known THEN known[t[n]] ELSE <<t[n]>>]

\* Each part of a text is replaced by tokens.
LEMMA ValuesTyped ==
  ASSUME NEW A, NEW known, KnownIn(known, A), NEW t \in Seq(Token)
  PROVE  /\ ValuesIn(t, known) \in Seq(Seq(A))
         /\ Len(ValuesIn(t, known)) = Len(t)
         /\ \A n \in 1 .. Len(t) :
              ValuesIn(t, known)[n] = IF t[n] \in DOMAIN known THEN known[t[n]] ELSE <<t[n]>>
<1> DEFINE B == Seq(A)
           v(x) == IF x \in DOMAIN known THEN known[x] ELSE <<x>>
           u == ValuesIn(t, known)
<1>1. DOMAIN t = 1 .. Len(t) /\ Len(t) \in Nat /\ \A n \in 1 .. Len(t) : t[n] \in Token
  OBVIOUS
<1>2. \A x \in Token : v(x) \in B
  <2> SUFFICES ASSUME NEW x \in Token PROVE v(x) \in B
    OBVIOUS
  <2>1. x \in A
    BY DEF KnownIn
  <2> QED
    BY <2>1 DEF KnownIn
<1>3. u = [n \in 1 .. Len(t) |-> v(t[n])]
  BY <1>1 DEF ValuesIn
<1> HIDE DEF B, v, u
<1>4. u \in Seq(B) /\ Len(u) = Len(t) /\ \A n \in 1 .. Len(t) : u[n] = v(t[n])
  BY <1>1, <1>2, <1>3
<1> QED
  BY <1>4 DEF B, u, v

\* The cells of a text: its tokens, in no style.
LEMMA SubstituteFacts ==
  ASSUME NEW A, NEW known, KnownIn(known, A), NEW t \in Seq(Token)
  PROVE  LET tokens == FlattenSeq(ValuesIn(t, known))
             cells == substitute_vars(t, known)
         IN /\ tokens \in Seq(A)
            /\ cells \in Seq(CellIn(A, {Plain})) /\ Len(cells) = Len(tokens)
            /\ \A n \in 1 .. Len(cells) : cells[n] = [token |-> tokens[n], style |-> Plain]
<1> DEFINE tokens == FlattenSeq(ValuesIn(t, known))
           cells == substitute_vars(t, known)
<1>1. tokens \in Seq(A)
  BY ValuesTyped, FlattenConcat
<1>2. cells = [n \in DOMAIN tokens |-> [token |-> tokens[n], style |-> Plain]]
  BY DEF substitute_vars, ValuesIn
<1> HIDE DEF tokens, cells
<1>3. DOMAIN tokens = 1 .. Len(tokens) /\ Len(tokens) \in Nat
      /\ \A n \in 1 .. Len(tokens) : tokens[n] \in A
  BY <1>1
<1>4. \A x \in A : [token |-> x, style |-> Plain] \in CellIn(A, {Plain})
  BY DEF CellIn
<1>5. cells \in Seq(CellIn(A, {Plain})) /\ Len(cells) = Len(tokens)
  <2> DEFINE C == CellIn(A, {Plain})
             cell(x) == [token |-> x, style |-> Plain]
  <2>1. cells = [n \in 1 .. Len(tokens) |-> cell(tokens[n])]
        /\ \A n \in 1 .. Len(tokens) : cell(tokens[n]) \in C
    BY <1>2, <1>3, <1>4
  <2> HIDE DEF C, cell
  <2>2. cells \in Seq(C) /\ Len(cells) = Len(tokens)
    BY <1>3, <2>1
  <2> QED
    BY <2>2 DEF C
<1>6. \A n \in 1 .. Len(cells) : cells[n] = [token |-> tokens[n], style |-> Plain]
  BY <1>2, <1>3, <1>5
<1> QED
  BY <1>1, <1>5, <1>6 DEF tokens, cells

\* Painted cells have the tokens they had.
LEMMA PaintFacts ==
  ASSUME NEW A, NEW style \in Style, NEW cells \in Seq(CellIn(A, Style))
  PROVE  /\ paint(style, cells) \in Seq(CellIn(A, Style))
         /\ Len(paint(style, cells)) = Len(cells)
         /\ \A n \in 1 .. Len(cells) : paint(style, cells)[n].token = cells[n].token
<1> DEFINE C == CellIn(A, Style)
           p(n) == IF \E m \in 1 .. n : cells[m].style # Plain THEN cells[n]
                   ELSE [cells[n] EXCEPT !.style = style]
           u == paint(style, cells)
<1>1. DOMAIN cells = 1 .. Len(cells) /\ Len(cells) \in Nat
      /\ \A n \in 1 .. Len(cells) : cells[n] \in C
  OBVIOUS
<1>2. \A c \in C : [c EXCEPT !.style = style] \in C /\ [c EXCEPT !.style = style].token = c.token
  BY DEF CellIn
<1>3. u = [n \in 1 .. Len(cells) |-> p(n)]
  BY <1>1 DEF paint
<1>4. \A n \in 1 .. Len(cells) : p(n) \in C /\ p(n).token = cells[n].token
  <2> HIDE DEF C
  <2> QED
    BY <1>1, <1>2
<1> HIDE DEF C, p, u
<1>5. u \in Seq(C) /\ Len(u) = Len(cells) /\ \A n \in 1 .. Len(cells) : u[n] = p(n)
  BY <1>1, <1>3, <1>4
<1> QED
  BY <1>4, <1>5 DEF C, u

\* The escape codes of a block reach to its end if nothing in it has any.
LEMMA PaintCovers ==
  ASSUME NEW A, NEW style, NEW cells \in Seq(CellIn(A, {Plain}))
  PROVE  paint(style, cells) \in Seq(CellIn(A, {style}))
<1> DEFINE C == CellIn(A, {Plain})
           D == CellIn(A, {style})
           u == paint(style, cells)
<1>1. DOMAIN cells = 1 .. Len(cells) /\ Len(cells) \in Nat
      /\ \A n \in 1 .. Len(cells) : cells[n] \in C
  OBVIOUS
<1>2. \A c \in C : [c EXCEPT !.style = style] \in D /\ c.style = Plain
  BY DEF CellIn
<1> HIDE DEF C, D
<1>3. ASSUME NEW n \in 1 .. Len(cells), NEW m \in 1 .. n PROVE cells[m].style = Plain
  <2>1. m \in 1 .. Len(cells)
    BY <1>1
  <2> QED
    BY <1>1, <1>2, <2>1
<1>4. u = [n \in 1 .. Len(cells) |-> [cells[n] EXCEPT !.style = style]]
  BY <1>1, <1>3 DEF paint
<1> HIDE DEF u
<1>5. u \in Seq(D)
  BY <1>1, <1>2, <1>4
<1> QED
  BY <1>5 DEF u, D

\* A list renders to cells if its segments do.
LEMMA ListTyped ==
  ASSUME NEW known, NEW B, NEW s \in CompiledSegments,
         \A n \in DOMAIN s : eval_segment(Renderer(known), s[n], known) \in Seq(B)
  PROVE  Renderer(known)[s] \in Seq(B)
<1> DEFINE u == [n \in DOMAIN s |-> eval_segment(Renderer(known), s[n], known)]
           L == Seq(B)
<1>1. DOMAIN s = 1 .. Len(s) /\ Len(s) \in Nat
  BY DEF CompiledSegments, Nested
<1>2. u = [n \in 1 .. Len(s) |-> eval_segment(Renderer(known), s[n], known)]
  BY <1>1
<1>3. Renderer(known)[s] = FlattenSeq(u)
  BY RendererSteps DEF EvalBody
<1>4. u \in Seq(L)
  <2> HIDE DEF L, u
  <2>1. \A n \in 1 .. Len(s) : eval_segment(Renderer(known), s[n], known) \in L
    BY <1>1 DEF L
  <2> QED
    BY <1>1, <1>2, <2>1
<1> HIDE DEF u
<1> QED
  BY <1>3, <1>4, FlattenConcat

\* The lists of a format are ones that can be rendered.
LEMMA CanBeRendered ==
  /\ Seq(TextSegment) \subseteq CompiledSegments
  /\ Seq(PlainSegment) \subseteq CompiledSegments
  /\ Seq(CompiledSegment) \subseteq CompiledSegments
BY NestedFacts, Levels DEF One, Two, Three

\* Lists without styled blocks render to cells in no style.
LEMMA PlainRendered ==
  ASSUME NEW A, NEW known, KnownIn(known, A)
  PROVE  \A s \in Seq(PlainSegment) : Renderer(known)[s] \in Seq(CellIn(A, {Plain}))
<1> DEFINE C == CellIn(A, {Plain})
           R == Renderer(known)
<1>1. \A seg \in TextSegment : eval_segment(R, seg, known) \in Seq(C)
  <2> SUFFICES ASSUME NEW seg \in TextSegment PROVE eval_segment(R, seg, known) \in Seq(C)
    OBVIOUS
  <2>1. seg.text \in Seq(Token) /\ eval_segment(R, seg, known) = substitute_vars(seg.text, known)
    BY DEF TextSegment, eval_segment
  <2> QED
    BY <2>1, SubstituteFacts
<1>2. ASSUME NEW s \in Seq(TextSegment) PROVE R[s] \in Seq(C)
  <2>1. \A n \in DOMAIN s : s[n] \in TextSegment
    OBVIOUS
  <2>2. s \in CompiledSegments
    BY CanBeRendered
  <2> HIDE DEF C
  <2>3. \A n \in DOMAIN s : eval_segment(R, s[n], known) \in Seq(C)
    BY <1>1, <2>1
  <2> QED
    BY <2>2, <2>3, ListTyped
<1>3. ASSUME NEW seg \in PlainSegment PROVE eval_segment(R, seg, known) \in Seq(C)
  <2>1. CASE seg \in TextSegment
    BY <1>1, <2>1
  <2>2. CASE seg \in ConditionalSegment
    <3>1. /\ seg.inner \in Seq(TextSegment)
          /\ eval_segment(R, seg, known)
               = IF ShowsBlock(seg.inner, known) THEN R[seg.inner] ELSE << >>
      BY <2>2 DEF ConditionalSegment, eval_segment
    <3>2. << >> \in Seq(C)
      OBVIOUS
    <3> HIDE DEF C, R
    <3> QED
      BY <1>2, <3>1, <3>2
  <2> QED
    BY <2>1, <2>2 DEF PlainSegment
<1>4. ASSUME NEW s \in Seq(PlainSegment) PROVE R[s] \in Seq(C)
  <2>1. \A n \in DOMAIN s : s[n] \in PlainSegment
    OBVIOUS
  <2>2. s \in CompiledSegments
    BY CanBeRendered
  <2> HIDE DEF C
  <2>3. \A n \in DOMAIN s : eval_segment(R, s[n], known) \in Seq(C)
    BY <1>3, <2>1
  <2> QED
    BY <2>2, <2>3, ListTyped
<1> QED
  BY <1>4

(***************************************************************************)
(* Nothing within a styled block resets its style early, whatever formats  *)
(* a configuration has: a block's content has no styled block.             *)
(***************************************************************************)
THEOREM StyleCoversBlockHolds == Spec => []StyleCoversBlock
<1>1. Inv => StyleCoversBlock
  <2> SUFFICES ASSUME Inv, NEW f \in Formats, NEW seg \in ToSet(compile_segments[f]),
                      seg.kind = "Styled", NEW values \in Values,
                      NEW cell \in ToSet(eval_segments(<<seg>>, values))
               PROVE  cell.style = seg.style
    BY DEF StyleCoversBlock
  <2>1. f \in Seq(Token)
    BY FormatsInUse
  <2> DEFINE s == compile_segments[f]
             A == Token \cup {"value"}
             R == Renderer(values)
             cells == paint(seg.style, R[seg.content])
  <2>2. s \in Seq(CompiledSegment)
    BY <2>1, CompiledTyped
  <2>3. seg \in CompiledSegment
    <3>1. seg \in ToSet(s)
      OBVIOUS
    <3> HIDE DEF s
    <3> QED
      BY <2>2, <3>1 DEF ToSet
  <2>4. seg \in StyledBlock
    BY <2>3 DEF CompiledSegment, PlainSegment, TextSegment, ConditionalSegment
  <2>5. KnownIn(values, A)
    <3>1. << >> \in Seq(A) /\ <<"value">> \in Seq(A) /\ Token \subseteq A
      OBVIOUS
    <3>2. \A name \in DOMAIN values : values[name] \in {<< >>, <<"value">>}
      BY DEF Values
    <3> QED
      BY <3>1, <3>2 DEF KnownIn
  <2>6. <<seg>> \in CompiledSegments
    <3>1. <<seg>> \in Seq(CompiledSegment)
      BY <2>3
    <3> QED
      BY <3>1, CanBeRendered
  <2>7. seg.content \in Seq(PlainSegment)
    BY <2>4 DEF StyledBlock
  <2>8. R[seg.content] \in Seq(CellIn(A, {Plain}))
    BY <2>5, <2>7, PlainRendered
  <2>9. cells \in Seq(CellIn(A, {seg.style}))
    BY <2>8, PaintCovers
  <2>10. R[<<seg>>] = cells
    <3>1. R[<<seg>>] = EvalBody(R, <<seg>>, values)
      BY <2>6, RendererSteps
    <3>2. EvalBody(R, <<seg>>, values) = FlattenSeq(<<eval_segment(R, seg, values)>>)
      BY DEF EvalBody
    <3>3. eval_segment(R, seg, values) = cells
      BY DEF eval_segment
    <3>4. FlattenSeq(<<cells>>) = cells
      <4> HIDE DEF cells
      <4> QED
        BY <2>9, FlattenOne
    <3> QED
      BY <3>1, <3>2, <3>3, <3>4, Zenon
  <2>11. cell \in ToSet(cells)
    BY <2>10, RendererIsChosen
  <2> HIDE DEF cells
  <2>12. cell \in CellIn(A, {seg.style})
    BY <2>9, <2>11 DEF ToSet
  <2> QED
    BY <2>12 DEF CellIn
<1> QED
  BY <1>1, InvHolds, PTL

------------------------------------------------------------------------------
(* What a text keeps when names lose their values. *)

\* pos has, for each element of c, a place of one in d, in the same order.
Places(pos, R, c, d) ==
  /\ pos \in [1 .. Len(c) -> 1 .. Len(d)]
  /\ \A i, j \in 1 .. Len(c) : i < j => pos[i] < pos[j]
  /\ \A i \in 1 .. Len(c) : <<c[i], d[pos[i]]>> \in R

\* The elements of c are found in d, in the same order, as far as R goes.
Found(R, c, d) == \E pos : Places(pos, R, c, d)

\* Nothing is found in anything, and a list in itself.
LEMMA FoundSimple ==
  ASSUME NEW R, NEW B, NEW d \in Seq(B)
  PROVE  /\ Found(R, << >>, d)
         /\ (\A x \in B : <<x, x>> \in R) => Found(R, d, d)
<1>1. Found(R, << >>, d)
  <2> DEFINE pos == [i \in 1 .. 0 |-> i]
  <2>1. Places(pos, R, << >>, d)
    BY DEF Places
  <2> QED
    BY <2>1 DEF Found
<1>2. ASSUME \A x \in B : <<x, x>> \in R PROVE Found(R, d, d)
  <2> DEFINE pos == [i \in 1 .. Len(d) |-> i]
  <2>1. Places(pos, R, d, d)
    BY <1>2 DEF Places
  <2> QED
    BY <2>1 DEF Found
<1> QED
  BY <1>1, <1>2

\* What is found in parts is found in the whole.
LEMMA FoundConcat ==
  ASSUME NEW R, NEW B, NEW a \in Seq(B), NEW b \in Seq(B), NEW c \in Seq(B), NEW d \in Seq(B),
         Found(R, a, c), Found(R, b, d)
  PROVE  Found(R, a \o b, c \o d)
<1>1. PICK p : Places(p, R, a, c)
  BY DEF Found
<1>2. PICK q : Places(q, R, b, d)
  BY DEF Found
<1> DEFINE n == Len(a)
           m == Len(b)
           k == Len(c)
           l == Len(d)
           pos == [i \in 1 .. n + m |-> IF i <= n THEN p[i] ELSE k + q[i - n]]
           u == a \o b
           v == c \o d
<1>3. n \in Nat /\ m \in Nat /\ k \in Nat /\ l \in Nat
  OBVIOUS
<1>4. /\ Len(u) = n + m /\ Len(v) = k + l
      /\ \A i \in 1 .. n + m : u[i] = IF i <= n THEN a[i] ELSE b[i - n]
      /\ \A i \in 1 .. k + l : v[i] = IF i <= k THEN c[i] ELSE d[i - k]
  OBVIOUS
<1>5. /\ \A i \in 1 .. n : p[i] \in 1 .. k /\ <<a[i], c[p[i]]>> \in R
      /\ \A i, j \in 1 .. n : i < j => p[i] < p[j]
      /\ \A i \in 1 .. m : q[i] \in 1 .. l /\ <<b[i], d[q[i]]>> \in R
      /\ \A i, j \in 1 .. m : i < j => q[i] < q[j]
  BY <1>1, <1>2 DEF Places
<1> HIDE DEF n, m, k, l, u, v
<1>6. \A i \in 1 .. n + m : pos[i] = IF i <= n THEN p[i] ELSE k + q[i - n]
  OBVIOUS
<1>7. pos = [i \in 1 .. n + m |-> pos[i]]
  OBVIOUS
<1> HIDE DEF pos
<1>8. \A i \in 1 .. n + m : \/ i <= n /\ i \in 1 .. n
                            \/ ~ (i <= n) /\ i - n \in 1 .. m
  BY <1>3
<1>9. ASSUME NEW i \in 1 .. n + m
      PROVE  pos[i] \in 1 .. k + l /\ <<u[i], v[pos[i]]>> \in R
  <2>1. CASE i <= n
    <3>1. i \in 1 .. n /\ pos[i] = p[i] /\ u[i] = a[i]
      BY <1>4, <1>6, <1>8, <2>1
    <3>2. p[i] \in 1 .. k /\ <<a[i], c[p[i]]>> \in R
      BY <1>5, <3>1
    <3>3. p[i] \in 1 .. k + l /\ v[p[i]] = c[p[i]]
      BY <1>3, <1>4, <3>2
    <3> QED
      BY <3>1, <3>2, <3>3
  <2>2. CASE ~ (i <= n)
    <3>1. i - n \in 1 .. m /\ pos[i] = k + q[i - n] /\ u[i] = b[i - n]
      BY <1>4, <1>6, <1>8, <2>2
    <3> DEFINE j == q[i - n]
    <3>2. j \in 1 .. l /\ <<b[i - n], d[j]>> \in R
      BY <1>5, <3>1
    <3> HIDE DEF j
    <3>3. k + j \in 1 .. k + l /\ ~ (k + j <= k) /\ (k + j) - k = j
      BY <1>3, <3>2
    <3>4. v[k + j] = d[j]
      BY <1>4, <3>3
    <3> QED
      BY <3>1, <3>2, <3>3, <3>4 DEF j
  <2> QED
    BY <2>1, <2>2
<1>10. ASSUME NEW i \in 1 .. n + m, NEW j \in 1 .. n + m, i < j PROVE pos[i] < pos[j]
  <2>1. CASE j <= n
    <3>1. i \in 1 .. n /\ j \in 1 .. n /\ i <= n
      BY <1>3, <1>10, <2>1
    <3> QED
      BY <1>5, <1>6, <1>10, <2>1, <3>1
  <2>2. CASE i <= n /\ ~ (j <= n)
    <3>1. i \in 1 .. n /\ j - n \in 1 .. m
      BY <1>8, <2>2
    <3>2. p[i] \in 1 .. k /\ q[j - n] \in 1 .. l
      BY <1>5, <3>1
    <3>3. p[i] < k + q[j - n]
      BY <1>3, <3>2
    <3> QED
      BY <1>6, <2>2, <3>3
  <2>3. CASE ~ (i <= n)
    <3>1. ~ (j <= n)
      BY <1>3, <1>10, <2>3
    <3>2. i - n \in 1 .. m /\ j - n \in 1 .. m /\ i - n < j - n
      BY <1>3, <1>8, <1>10, <2>3, <3>1
    <3>3. q[i - n] \in 1 .. l /\ q[j - n] \in 1 .. l /\ q[i - n] < q[j - n]
      BY <1>5, <3>2
    <3>4. k + q[i - n] < k + q[j - n]
      BY <1>3, <3>3
    <3> QED
      BY <1>6, <2>3, <3>1, <3>4
  <2> QED
    BY <1>3, <1>10, <2>1, <2>2, <2>3
<1>11. Places(pos, R, u, v)
  <2>1. pos \in [1 .. n + m -> 1 .. k + l]
    BY <1>7, <1>9
  <2> QED
    BY <1>4, <1>9, <1>10, <2>1 DEF Places
<1> QED
  BY <1>11 DEF Found, u, v

\* Lists whose parts are found one in the other.
LEMMA FoundFlatten ==
  ASSUME NEW R, NEW B, NEW s \in Seq(Seq(B)), NEW t \in Seq(Seq(B)), Len(s) = Len(t),
         \A i \in 1 .. Len(s) : Found(R, s[i], t[i])
  PROVE  Found(R, FlattenSeq(s), FlattenSeq(t))
<1> DEFINE n == Len(s)
<1>1. n \in Nat /\ Len(t) = n /\ \A i \in 1 .. n : s[i] \in Seq(B) /\ t[i] \in Seq(B)
  OBVIOUS
<1>2. PICK F \in [0 .. n -> Seq(B)] : Flattens(F, s, n)
  BY FlattenSteps
<1>3. PICK G \in [0 .. n -> Seq(B)] : Flattens(G, t, n)
  BY <1>1, FlattenSteps
<1>4. \A i \in 1 .. n : Found(R, s[i], t[i])
  OBVIOUS
<1> HIDE DEF n
<1> DEFINE S == {i \in 0 .. n : Found(R, F[i], G[i])}
<1>5. 0 \in S
  <2>1. F[0] = << >> /\ G[0] = << >> /\ << >> \in Seq(B)
    BY <1>2, <1>3 DEF Flattens
  <2>2. Found(R, F[0], G[0])
    BY <2>1, FoundSimple
  <2> QED
    BY <1>1, <2>2
<1>6. ASSUME NEW i \in 1 .. n, i - 1 \in S PROVE i \in S
  <2>1. F[i] = F[i - 1] \o s[i] /\ G[i] = G[i - 1] \o t[i]
    BY <1>2, <1>3 DEF Flattens
  <2>2. i - 1 \in 0 .. n /\ i \in 0 .. n
    BY <1>1
  <2>3. F[i - 1] \in Seq(B) /\ G[i - 1] \in Seq(B) /\ s[i] \in Seq(B) /\ t[i] \in Seq(B)
    BY <1>1, <1>2, <1>3, <2>2
  <2>4. Found(R, F[i - 1], G[i - 1]) /\ Found(R, s[i], t[i])
    BY <1>4, <1>6
  <2>5. Found(R, F[i - 1] \o s[i], G[i - 1] \o t[i])
    BY <2>3, <2>4, FoundConcat
  <2> QED
    BY <2>1, <2>2, <2>5
<1> HIDE DEF S
<1>7. n \in S
  <2>1. \A i \in 0 .. n : i \in S
    BY <1>1, <1>5, <1>6, InductionTo
  <2> QED
    BY <1>1, <2>1
<1> QED
  BY <1>2, <1>3, <1>7 DEF Flattens, S

\* A token and itself; cells of the same token.
Same(A) == {<<x, x>> : x \in A}

SameToken(A) ==
  {pair \in CellIn(A, Style) \X CellIn(A, Style) : pair[1].token = pair[2].token}

\* The same names are known, some of them without the value they have otherwise.
Fewer(known, others) ==
  /\ DOMAIN known = DOMAIN others
  /\ \A name \in DOMAIN known : known[name] \in {<< >>, others[name]}

\* A text with fewer values only leaves tokens out.
LEMMA SubstituteFound ==
  ASSUME NEW A, NEW known, NEW others, KnownIn(known, A), KnownIn(others, A), Fewer(known, others),
         NEW t \in Seq(Token)
  PROVE  Found(SameToken(A), substitute_vars(t, known), substitute_vars(t, others))
<1> DEFINE u == ValuesIn(t, known)
           v == ValuesIn(t, others)
           f == FlattenSeq(u)
           g == FlattenSeq(v)
           c == substitute_vars(t, known)
           d == substitute_vars(t, others)
<1>1. /\ u \in Seq(Seq(A)) /\ Len(u) = Len(t)
      /\ \A n \in 1 .. Len(t) : u[n] = IF t[n] \in DOMAIN known THEN known[t[n]] ELSE <<t[n]>>
  BY ValuesTyped
<1>2. /\ v \in Seq(Seq(A)) /\ Len(v) = Len(t)
      /\ \A n \in 1 .. Len(t) : v[n] = IF t[n] \in DOMAIN others THEN others[t[n]] ELSE <<t[n]>>
  BY ValuesTyped
<1>3. /\ f \in Seq(A)
      /\ c \in Seq(CellIn(A, {Plain})) /\ Len(c) = Len(f)
      /\ \A n \in 1 .. Len(c) : c[n] = [token |-> f[n], style |-> Plain]
  BY SubstituteFacts
<1>4. /\ g \in Seq(A)
      /\ d \in Seq(CellIn(A, {Plain})) /\ Len(d) = Len(g)
      /\ \A n \in 1 .. Len(d) : d[n] = [token |-> g[n], style |-> Plain]
  BY SubstituteFacts
<1> HIDE DEF u, v
<1>5. \A i \in 1 .. Len(u) : u[i] \in {<< >>, v[i]} /\ v[i] \in Seq(A)
  <2>1. \A i \in 1 .. Len(u) : u[i] \in {<< >>, v[i]}
    BY <1>1, <1>2 DEF Fewer
  <2>2. \A i \in 1 .. Len(v) : v[i] \in Seq(A)
    BY <1>2
  <2> QED
    BY <1>1, <1>2, <2>1, <2>2
<1>6. \A x \in A : <<x, x>> \in Same(A)
  BY DEF Same
<1>7. \A i \in 1 .. Len(u) : Found(Same(A), u[i], v[i])
  BY <1>5, <1>6, FoundSimple
<1>8. Found(Same(A), f, g)
  <2>1. Len(u) = Len(v)
    BY <1>1, <1>2
  <2> QED
    BY <1>1, <1>2, <1>7, <2>1, FoundFlatten
<1> HIDE DEF f, g, c, d
<1>9. PICK pos : Places(pos, Same(A), f, g)
  BY <1>8 DEF Found
<1>10. \A x \in A : [token |-> x, style |-> Plain] \in CellIn(A, Style)
  <2>1. Plain \in Style
    BY DEF Plain, Style
  <2> QED
    BY <2>1 DEF CellIn
<1>11. Len(f) \in Nat /\ Len(g) \in Nat /\ \A n \in 1 .. Len(f) : f[n] \in A
  BY <1>3, <1>4
<1>12. ASSUME NEW i \in 1 .. Len(f) PROVE <<c[i], d[pos[i]]>> \in SameToken(A)
  <2>1. pos[i] \in 1 .. Len(g) /\ <<f[i], g[pos[i]]>> \in Same(A) /\ f[i] \in A
    BY <1>9, <1>11 DEF Places
  <2>2. f[i] = g[pos[i]]
    BY <2>1 DEF Same
  <2>3. c[i] = [token |-> f[i], style |-> Plain] /\ d[pos[i]] = [token |-> f[i], style |-> Plain]
    BY <1>3, <1>4, <2>1, <2>2
  <2>4. <<c[i], d[pos[i]]>> \in CellIn(A, Style) \X CellIn(A, Style)
    BY <1>10, <2>1, <2>3
  <2> QED
    BY <2>3, <2>4 DEF SameToken
<1>13. Places(pos, SameToken(A), c, d)
  BY <1>3, <1>4, <1>9, <1>12 DEF Places
<1> QED
  BY <1>13 DEF Found, c, d

\* Painting does not change which tokens are found.
LEMMA PaintFound ==
  ASSUME NEW A, NEW style \in Style, NEW c \in Seq(CellIn(A, Style)), NEW d \in Seq(CellIn(A, Style)),
         Found(SameToken(A), c, d)
  PROVE  Found(SameToken(A), paint(style, c), paint(style, d))
<1> DEFINE C == CellIn(A, Style)
           u == paint(style, c)
           v == paint(style, d)
<1>1. PICK pos : Places(pos, SameToken(A), c, d)
  BY DEF Found
<1>2. u \in Seq(C) /\ Len(u) = Len(c) /\ \A n \in 1 .. Len(c) : u[n].token = c[n].token
  BY PaintFacts
<1>3. v \in Seq(C) /\ Len(v) = Len(d) /\ \A n \in 1 .. Len(d) : v[n].token = d[n].token
  BY PaintFacts
<1> HIDE DEF u, v
<1>4. /\ \A n \in 1 .. Len(c) : u[n] \in C
      /\ \A n \in 1 .. Len(d) : v[n] \in C
  <2> HIDE DEF C
  <2> QED
    BY <1>2, <1>3
<1>5. ASSUME NEW i \in 1 .. Len(c) PROVE <<u[i], v[pos[i]]>> \in SameToken(A)
  <2>1. pos[i] \in 1 .. Len(d) /\ <<c[i], d[pos[i]]>> \in SameToken(A)
    BY <1>1 DEF Places
  <2>2. c[i].token = d[pos[i]].token
    BY <2>1 DEF SameToken
  <2>3. u[i].token = v[pos[i]].token /\ u[i] \in C /\ v[pos[i]] \in C
    BY <1>2, <1>3, <1>4, <2>1, <2>2
  <2> QED
    BY <2>3 DEF SameToken
<1>6. Places(pos, SameToken(A), u, v)
  BY <1>1, <1>2, <1>3, <1>5 DEF Places
<1> QED
  BY <1>6 DEF Found, u, v

\* Of the lists in S, fewer values only leave tokens out.
OnlyAdds(A, known, others, S) ==
  \A s \in S :
    /\ Renderer(known)[s] \in Seq(CellIn(A, Style)) /\ Renderer(others)[s] \in Seq(CellIn(A, Style))
    /\ Found(SameToken(A), Renderer(known)[s], Renderer(others)[s])

\* The same of a segment, if it holds such lists: a block that is shown stays so with more values.
LEMMA SegmentOnlyAdds ==
  ASSUME NEW A, NEW known, NEW others, KnownIn(known, A), KnownIn(others, A), Fewer(known, others),
         NEW S, OnlyAdds(A, known, others, S), NEW seg \in Holding(S)
  PROVE  LET c == eval_segment(Renderer(known), seg, known)
             d == eval_segment(Renderer(others), seg, others)
         IN c \in Seq(CellIn(A, Style)) /\ d \in Seq(CellIn(A, Style)) /\ Found(SameToken(A), c, d)
<1> DEFINE C == CellIn(A, Style)
           c == eval_segment(Renderer(known), seg, known)
           d == eval_segment(Renderer(others), seg, others)
<1>1. CASE seg.kind = "Text"
  <2>1. seg.text \in Seq(Token)
    BY <1>1 DEF Holding
  <2>2. c = substitute_vars(seg.text, known) /\ d = substitute_vars(seg.text, others)
    BY <1>1 DEF eval_segment
  <2>3. CellIn(A, {Plain}) \subseteq C
    BY DEF CellIn, Plain, Style
  <2>4. /\ substitute_vars(seg.text, known) \in Seq(CellIn(A, {Plain}))
        /\ substitute_vars(seg.text, others) \in Seq(CellIn(A, {Plain}))
    BY <2>1, SubstituteFacts
  <2>5. c \in Seq(C) /\ d \in Seq(C)
    BY <2>2, <2>3, <2>4, LargerSet
  <2>6. Found(SameToken(A), substitute_vars(seg.text, known), substitute_vars(seg.text, others))
    BY <2>1, SubstituteFound
  <2> QED
    BY <2>2, <2>5, <2>6
<1>2. CASE seg.kind = "Styled"
  <2> DEFINE a == Renderer(known)[seg.content]
             b == Renderer(others)[seg.content]
  <2>1. seg.content \in S /\ seg.style \in Style
    BY <1>2 DEF Holding
  <2>2. c = paint(seg.style, a) /\ d = paint(seg.style, b)
    BY <1>2 DEF eval_segment
  <2>3. a \in Seq(C) /\ b \in Seq(C) /\ Found(SameToken(A), a, b)
    BY <2>1 DEF OnlyAdds
  <2> HIDE DEF a, b
  <2>4. paint(seg.style, a) \in Seq(C) /\ paint(seg.style, b) \in Seq(C)
    BY <2>1, <2>3, PaintFacts
  <2>5. Found(SameToken(A), paint(seg.style, a), paint(seg.style, b))
    BY <2>1, <2>3, PaintFound
  <2> QED
    BY <2>2, <2>4, <2>5
<1>3. CASE seg.kind = "Conditional"
  <2> DEFINE l == seg.inner
             a == Renderer(known)[l]
             b == Renderer(others)[l]
  <2>1. l \in S
    BY <1>3 DEF Holding
  <2>2. /\ c = IF ShowsBlock(l, known) THEN a ELSE << >>
        /\ d = IF ShowsBlock(l, others) THEN b ELSE << >>
    BY <1>3 DEF eval_segment
  <2>3. a \in Seq(C) /\ b \in Seq(C) /\ Found(SameToken(A), a, b)
    BY <2>1 DEF OnlyAdds
  <2>4. ShowsBlock(l, known) => ShowsBlock(l, others)
    <3>1. \A name : NotEmpty(name, known) => NotEmpty(name, others)
      BY DEF Fewer, NotEmpty
    <3> QED
      BY <3>1 DEF ShowsBlock
  <2>5. << >> \in Seq(C)
    OBVIOUS
  <2> HIDE DEF a, b, l, C, c, d
  <2>6. Found(SameToken(A), << >>, b) /\ Found(SameToken(A), << >>, << >>)
    BY <2>3, <2>5, FoundSimple
  <2>7. c \in Seq(C) /\ d \in Seq(C)
    BY <2>2, <2>3, <2>5
  <2>8. Found(SameToken(A), c, d)
    BY <2>2, <2>3, <2>4, <2>6
  <2> QED
    BY <2>7, <2>8 DEF c, d, C
<1>4. seg.kind \in {"Text", "Styled", "Conditional"}
  BY DEF Holding
<1> HIDE DEF C, c, d
<1> QED
  BY <1>1, <1>2, <1>3, <1>4 DEF C, c, d

\* The same of lists of segments that hold such lists.
LEMMA ListOnlyAdds ==
  ASSUME NEW A, NEW known, NEW others, KnownIn(known, A), KnownIn(others, A), Fewer(known, others),
         NEW S, OnlyAdds(A, known, others, S), Nested(S) \subseteq CompiledSegments
  PROVE  OnlyAdds(A, known, others, Nested(S))
<1> SUFFICES ASSUME NEW s \in Nested(S)
             PROVE  /\ Renderer(known)[s] \in Seq(CellIn(A, Style))
                    /\ Renderer(others)[s] \in Seq(CellIn(A, Style))
                    /\ Found(SameToken(A), Renderer(known)[s], Renderer(others)[s])
  BY DEF OnlyAdds
<1> DEFINE C == CellIn(A, Style)
           B == Seq(C)
           n == Len(s)
           c(i) == eval_segment(Renderer(known), s[i], known)
           d(i) == eval_segment(Renderer(others), s[i], others)
           u == [i \in DOMAIN s |-> c(i)]
           v == [i \in DOMAIN s |-> d(i)]
<1>1. DOMAIN s = 1 .. n /\ n \in Nat /\ \A i \in 1 .. n : s[i] \in Holding(S)
  BY DEF Nested
<1>2. \A i \in 1 .. n : c(i) \in B /\ d(i) \in B /\ Found(SameToken(A), c(i), d(i))
  BY <1>1, SegmentOnlyAdds
<1>3. Renderer(known)[s] = FlattenSeq(u) /\ Renderer(others)[s] = FlattenSeq(v)
  BY RendererSteps DEF EvalBody
<1>4. u = [i \in 1 .. n |-> c(i)] /\ v = [i \in 1 .. n |-> d(i)]
  BY <1>1
<1> HIDE DEF C, B, n, c, d, u, v
<1>5. /\ u \in Seq(B) /\ Len(u) = n /\ \A i \in 1 .. n : u[i] = c(i)
      /\ v \in Seq(B) /\ Len(v) = n /\ \A i \in 1 .. n : v[i] = d(i)
  BY <1>1, <1>2, <1>4
<1>6. \A i \in 1 .. Len(u) : Found(SameToken(A), u[i], v[i])
  BY <1>2, <1>5
<1>7. u \in Seq(Seq(C)) /\ v \in Seq(Seq(C)) /\ Len(u) = Len(v)
  BY <1>5 DEF B
<1>8. Found(SameToken(A), FlattenSeq(u), FlattenSeq(v))
  BY <1>6, <1>7, FoundFlatten
<1>9. FlattenSeq(u) \in Seq(C) /\ FlattenSeq(v) \in Seq(C)
  BY <1>7, FlattenConcat
<1> QED
  BY <1>3, <1>8, <1>9 DEF C

\* The same of what a format compiles to.
LEMMA FormatOnlyAdds ==
  ASSUME NEW A, NEW known, NEW others, KnownIn(known, A), KnownIn(others, A), Fewer(known, others)
  PROVE  OnlyAdds(A, known, others, Seq(CompiledSegment))
<1>1. OnlyAdds(A, known, others, {})
  BY DEF OnlyAdds
<1>2. OnlyAdds(A, known, others, One)
  BY <1>1, Levels, ListOnlyAdds DEF One
<1>3. OnlyAdds(A, known, others, Two)
  BY <1>2, Levels, ListOnlyAdds DEF Two
<1>4. OnlyAdds(A, known, others, Three)
  BY <1>3, Levels, ListOnlyAdds DEF Three
<1>5. Seq(CompiledSegment) \subseteq Three
  BY NestedFacts DEF One, Two, Three
<1> QED
  BY <1>4, <1>5 DEF OnlyAdds

\* How much of t has been found, in turn, in each beginning of u.
Finds(S, t, u) ==
  /\ S[0] = 0
  /\ \A i \in 1 .. Len(u) :
       S[i] = IF S[i - 1] < Len(t) /\ t[S[i - 1] + 1] = u[i] THEN S[i - 1] + 1 ELSE S[i - 1]

\* LeavesOut goes through u from the left.
LEMMA LeavesOutFold ==
  ASSUME NEW t, Len(t) \in Nat, NEW B, NEW u \in Seq(B)
  PROVE  \E S : Finds(S, t, u) /\ (LeavesOut(t, u) <=> S[Len(u)] = Len(t))
<1> DEFINE n == Len(u)
           m == Len(t)
           next(i, x) == IF x < m /\ t[x + 1] = u[i] THEN x + 1 ELSE x
           apply == [i \in 1 .. n |-> [x \in Nat |-> next(i, x)]]
           Solves(f) == f = [s \in SUBSET DOMAIN u |->
                               IF s = {} THEN 0 ELSE next(Max(s), f[s \ {Max(s)}])]
<1>1. n \in Nat /\ DOMAIN u = 1 .. n /\ m \in Nat
  OBVIOUS
<1> HIDE DEF n
<1>2. apply \in [1 .. n -> [Nat -> Nat]]
  <2>1. \A i \in 1 .. n, x \in Nat : next(i, x) \in Nat
    OBVIOUS
  <2> HIDE DEF next
  <2> QED
    BY <2>1
<1>3. PICK f \in [SUBSET (1 .. n) -> Nat] : SolvesFold(f, n, 0, apply)
  <2> HIDE DEF apply
  <2> QED
    BY <1>1, <1>2, FoldExists
<1>4. Solves(f)
  <2>1. \A i \in 1 .. n, x \in Nat : apply[i][x] = next(i, x)
    OBVIOUS
  <2>2. \A s \in SUBSET (1 .. n) : s # {} => Max(s) \in 1 .. n /\ f[s \ {Max(s)}] \in Nat
    BY <1>1, PrefixFacts
  <2> HIDE DEF apply, next
  <2>3. \A s \in SUBSET (1 .. n) : s # {} =>
          apply[Max(s)][f[s \ {Max(s)}]] = next(Max(s), f[s \ {Max(s)}])
    BY <2>1, <2>2
  <2>4. f = [s \in SUBSET (1 .. n) |-> IF s = {} THEN 0 ELSE next(Max(s), f[s \ {Max(s)}])]
    BY <1>3, <2>3 DEF SolvesFold
  <2> QED
    BY <2>4, <1>1
<1> DEFINE F == CHOOSE g : Solves(g)
<1>5. Solves(F)
  <2> HIDE DEF Solves
  <2> QED
    BY <1>4
<1>6. LeavesOut(t, u) <=> F[DOMAIN u] = m
  BY DEF LeavesOut, FoldLeft, MapThenFoldSet
<1> HIDE DEF F
<1> DEFINE S == [i \in 0 .. n |-> F[1 .. i]]
<1>7. S[0] = 0
  BY <1>1, <1>5, PrefixFacts
<1>8. ASSUME NEW i \in 1 .. n PROVE S[i] = next(i, S[i - 1])
  <2>1. S[i] = F[1 .. i] /\ S[i - 1] = F[1 .. (i - 1)]
    BY <1>1
  <2>2. /\ 1 .. i \in SUBSET (1 .. n) /\ 1 .. i # {}
        /\ Max(1 .. i) = i /\ (1 .. i) \ {i} = 1 .. (i - 1)
    BY <1>1, PrefixFacts
  <2> HIDE DEF next
  <2>3. F[1 .. i] = next(Max(1 .. i), F[(1 .. i) \ {Max(1 .. i)}])
    BY <1>1, <1>5, <2>2
  <2> QED
    BY <2>1, <2>2, <2>3
<1>9. LeavesOut(t, u) <=> S[n] = m
  BY <1>1, <1>6
<1> HIDE DEF S
<1>10. Finds(S, t, u)
  BY <1>7, <1>8 DEF Finds, n
<1> QED
  BY <1>9, <1>10 DEF n

\* What is found somewhere is found by going through once, taking each element as soon as it comes.
LEMMA FoundInTurn ==
  ASSUME NEW A, NEW t \in Seq(A), NEW u \in Seq(A), Found(Same(A), t, u)
  PROVE  LeavesOut(t, u)
<1> DEFINE n == Len(u)
           m == Len(t)
<1>1. n \in Nat /\ m \in Nat
  OBVIOUS
<1>2. PICK pos : Places(pos, Same(A), t, u)
  BY DEF Found
<1>3. /\ \A j \in 1 .. m : pos[j] \in 1 .. n /\ t[j] = u[pos[j]]
      /\ \A i, j \in 1 .. m : i < j => pos[i] < pos[j]
  BY <1>2 DEF Places, Same
<1>4. PICK S : Finds(S, t, u) /\ (LeavesOut(t, u) <=> S[n] = m)
  BY <1>1, LeavesOutFold
<1>5. /\ S[0] = 0
      /\ \A i \in 1 .. n :
           S[i] = IF S[i - 1] < m /\ t[S[i - 1] + 1] = u[i] THEN S[i - 1] + 1 ELSE S[i - 1]
  BY <1>4 DEF Finds
<1> HIDE DEF n, m
<1> DEFINE T == {i \in 0 .. n : S[i] \in 0 .. m /\ \A j \in 1 .. m : pos[j] <= i => j <= S[i]}
<1>6. 0 \in T
  <2>1. \A j \in 1 .. m : ~ (pos[j] <= 0)
    BY <1>3
  <2> QED
    BY <1>1, <1>5, <2>1
<1>7. ASSUME NEW i \in 1 .. n, i - 1 \in T PROVE i \in T
  <2> DEFINE x == S[i - 1]
  <2>1. x \in 0 .. m /\ \A j \in 1 .. m : pos[j] <= i - 1 => j <= x
    BY <1>7
  <2>2. S[i] = IF x < m /\ t[x + 1] = u[i] THEN x + 1 ELSE x
    BY <1>5
  <2> HIDE DEF x, T
  <2>3. S[i] \in 0 .. m /\ x <= S[i]
    BY <1>1, <2>1, <2>2
  <2>4. ASSUME NEW j \in 1 .. m, pos[j] <= i PROVE j <= S[i]
    <3>1. CASE pos[j] <= i - 1
      BY <1>1, <2>1, <2>3, <3>1
    <3>2. CASE pos[j] = i
      <4>1. j - 1 <= x
        <5>1. CASE j = 1
          BY <2>1, <5>1
        <5>2. CASE j # 1
          <6>1. j - 1 \in 1 .. m /\ j - 1 < j
            BY <1>1, <5>2
          <6>2. pos[j - 1] < pos[j] /\ pos[j - 1] \in 1 .. n
            BY <1>3, <6>1
          <6>3. pos[j - 1] <= i - 1
            BY <1>1, <3>2, <6>2
          <6> QED
            BY <2>1, <6>1, <6>3
        <5> QED
          BY <5>1, <5>2
      <4>2. t[j] = u[i]
        BY <1>3, <3>2
      <4>3. CASE j <= x
        BY <1>1, <2>1, <2>3, <4>3
      <4>4. CASE ~ (j <= x)
        <5>1. x + 1 = j /\ x < m
          BY <1>1, <2>1, <4>1, <4>4
        <5> QED
          BY <2>2, <4>2, <5>1
      <4> QED
        BY <4>3, <4>4
    <3>3. pos[j] <= i - 1 \/ pos[j] = i
      <4>1. pos[j] \in 1 .. n
        BY <1>3
      <4> QED
        BY <1>1, <2>4, <4>1
    <3> QED
      BY <3>1, <3>2, <3>3
  <2>5. i \in 0 .. n
    BY <1>1
  <2> QED
    BY <2>3, <2>4, <2>5 DEF T
<1>8. n \in T
  <2> HIDE DEF T
  <2>1. \A i \in 0 .. n : i \in T
    BY <1>1, <1>6, <1>7, InductionTo
  <2> QED
    BY <1>1, <2>1
<1>9. S[n] = m
  <2>1. CASE m = 0
    BY <1>8, <2>1
  <2>2. CASE m # 0
    <3>1. m \in 1 .. m
      BY <1>1, <2>2
    <3>2. pos[m] \in 1 .. n
      BY <1>3, <3>1
    <3>3. m <= S[n]
      BY <1>1, <1>8, <3>1, <3>2
    <3> QED
      BY <1>1, <1>8, <3>3
  <2> QED
    BY <2>1, <2>2
<1> QED
  BY <1>4, <1>9

\* The tokens of cells that are found in others.
LEMMA FoundTokens ==
  ASSUME NEW A, NEW c \in Seq(CellIn(A, Style)), NEW d \in Seq(CellIn(A, Style)),
         Found(SameToken(A), c, d)
  PROVE  /\ Tokens(c) \in Seq(A) /\ Tokens(d) \in Seq(A)
         /\ Found(Same(A), Tokens(c), Tokens(d))
<1> DEFINE t == Tokens(c)
           u == Tokens(d)
<1>1. PICK pos : Places(pos, SameToken(A), c, d)
  BY DEF Found
<1>2. \A s \in Seq(CellIn(A, Style)) :
        /\ Tokens(s) \in Seq(A) /\ Len(Tokens(s)) = Len(s)
        /\ \A n \in 1 .. Len(s) : Tokens(s)[n] = s[n].token /\ s[n].token \in A
  <2> SUFFICES ASSUME NEW s \in Seq(CellIn(A, Style))
               PROVE  /\ Tokens(s) \in Seq(A) /\ Len(Tokens(s)) = Len(s)
                      /\ \A n \in 1 .. Len(s) : Tokens(s)[n] = s[n].token /\ s[n].token \in A
    OBVIOUS
  <2>1. DOMAIN s = 1 .. Len(s) /\ Len(s) \in Nat /\ \A n \in 1 .. Len(s) : s[n] \in CellIn(A, Style)
    OBVIOUS
  <2>2. \A x \in CellIn(A, Style) : x.token \in A
    BY DEF CellIn
  <2>3. Tokens(s) = [n \in 1 .. Len(s) |-> s[n].token]
    BY <2>1 DEF Tokens
  <2> QED
    BY <2>1, <2>2, <2>3
<1>3. /\ t \in Seq(A) /\ Len(t) = Len(c) /\ \A n \in 1 .. Len(c) : t[n] = c[n].token /\ c[n].token \in A
      /\ u \in Seq(A) /\ Len(u) = Len(d) /\ \A n \in 1 .. Len(d) : u[n] = d[n].token
  BY <1>2
<1> HIDE DEF t, u
<1>4. ASSUME NEW i \in 1 .. Len(c) PROVE <<t[i], u[pos[i]]>> \in Same(A)
  <2>1. pos[i] \in 1 .. Len(d) /\ <<c[i], d[pos[i]]>> \in SameToken(A)
    BY <1>1 DEF Places
  <2>2. c[i].token = d[pos[i]].token
    BY <2>1 DEF SameToken
  <2> QED
    BY <1>3, <2>1, <2>2 DEF Same
<1>5. Places(pos, Same(A), t, u)
  BY <1>1, <1>3, <1>4 DEF Places
<1> QED
  BY <1>3, <1>5 DEF Found, t, u

\* The symbol and the label that are used with a content are texts.
LEMMA TextsTyped ==
  ASSUME NEW content \in Contents
  PROVE  /\ parse_display_config(content).merge_ready.symbol \in Seq(Token)
         /\ parse_display_config(content).merge_ready.label \in Seq(Token)
<1> DEFINE raw == IF content \in {None, Invalid} THEN Empty ELSE content
           F(sections) == UNION {section["symbol"] : section \in sections}
           G(sections) == UNION {section["label"] : section \in sections}
<1>1. F(raw.merge_ready) \subseteq Seq(Token) /\ G(raw.merge_ready) \subseteq Seq(Token)
  <2>1. CASE raw = Empty
    BY <2>1 DEF Empty
  <2>2. CASE raw = Defaults
    BY <2>2, FormatAssumption DEF Defaults
  <2>3. CASE raw \in (Initial \cup Edited) \ {None, Invalid}
    <3>1. TextsIn(raw) \subseteq Seq(Token)
      BY <2>3, FormatAssumption
    <3> HIDE DEF raw
    <3> QED
      BY <3>1 DEF TextsIn
  <2>4. raw = Empty \/ raw = Defaults \/ raw \in (Initial \cup Edited) \ {None, Invalid}
    BY DEF Contents
  <2> HIDE DEF raw, F, G
  <2> QED
    BY <2>1, <2>2, <2>3, <2>4
<1>2. \A options, default : options \subseteq Seq(Token) /\ default \in Seq(Token) =>
        Or(options, default) \in Seq(Token)
  BY DEF Or
<1>3. /\ DefaultToken["symbol"] \in Seq(Token) /\ "symbol" \in DOMAIN DefaultToken
      /\ DefaultToken["label"] \in Seq(Token) /\ "label" \in DOMAIN DefaultToken
  BY FormatAssumption DEF DefaultToken
<1>4. \A sections, default :
        /\ "symbol" \in DOMAIN default =>
             merge_token(sections, default).symbol = Or(F(sections), default["symbol"])
        /\ "label" \in DOMAIN default =>
             merge_token(sections, default).label = Or(G(sections), default["label"])
  BY DEF merge_token
<1>5. parse_display_config(content).merge_ready = merge_token(raw.merge_ready, DefaultToken)
  BY DEF parse_display_config
<1> HIDE DEF raw, F, G
<1> QED
  BY <1>1, <1>2, <1>3, <1>4, <1>5

\* What is compiled of a token.
LEMMA CompiledToken ==
  ASSUME NEW content
  PROVE  LET token == parse_display_config(content).merge_ready
             compiled == CompiledDisplayConfig(content).merge_ready
         IN /\ compiled.symbol = token.symbol /\ compiled.label = token.label
            /\ compiled.segments = compile_segments[token.format]
<1> DEFINE token == parse_display_config(content).merge_ready
<1>1. CompiledDisplayConfig(content).merge_ready = compile(token)
  BY DEF CompiledDisplayConfig
<1>2. DOMAIN token = {"symbol", "label", "format"}
  BY DEF parse_display_config, merge_token, DefaultToken
<1> HIDE DEF token
<1>3. /\ compile(token).symbol = token.symbol /\ compile(token).label = token.label
      /\ compile(token).segments = compile_segments[token.format]
  BY <1>2 DEF compile
<1> QED
  BY <1>1, <1>3 DEF token

\* What is known of a pull request with the numbers ids.
KnownOf(token, ids) ==
  [v \in {"$symbol", "$label"} \cup {"$pr_ids" : i \in {ids}} |->
     CASE v = "$symbol" -> token.symbol
       [] v = "$label" -> token.label
       [] OTHER -> Or({ids}, <<>>)]

\* The values of the names.
LEMMA KnownFacts ==
  ASSUME NEW token, NEW ids
  PROVE  /\ DOMAIN KnownOf(token, ids) = {"$symbol", "$label", "$pr_ids"}
         /\ KnownOf(token, ids)["$symbol"] = token.symbol
         /\ KnownOf(token, ids)["$label"] = token.label
         /\ KnownOf(token, ids)["$pr_ids"] = ids
<1>1. Or({ids}, <<>>) = ids
  BY DEF Or
<1> QED
  BY <1>1 DEF KnownOf

\* Without numbers everything is shown that is shown with some, less tokens.
LEMMA LessWithoutNumbers ==
  ASSUME NEW numbers, NEW token, token.symbol \in Seq(Token), token.label \in Seq(Token),
         token.segments \in Seq(CompiledSegment)
  PROVE  LeavesOut(Tokens(render_token(token, {<<>>})), Tokens(render_token(token, {<<numbers>>})))
<1> DEFINE A == Token \cup {numbers}
           C == CellIn(A, Style)
           known == KnownOf(token, <<>>)
           others == KnownOf(token, <<numbers>>)
           c == render_token(token, {<<>>})
           d == render_token(token, {<<numbers>>})
<1>1. c = Renderer(known)[token.segments] /\ d = Renderer(others)[token.segments]
  <2>1. c = eval_segments(token.segments, known)
    BY DEF render_token, KnownOf
  <2>2. d = eval_segments(token.segments, others)
    BY DEF render_token, KnownOf
  <2> QED
    BY <2>1, <2>2, RendererIsChosen
<1>2. Token \subseteq A /\ << >> \in Seq(A) /\ <<numbers>> \in Seq(A)
  OBVIOUS
<1> HIDE DEF A, C, c, d
<1>3. token.symbol \in Seq(A) /\ token.label \in Seq(A)
  BY <1>2, LargerSet
<1>4. /\ DOMAIN known = {"$symbol", "$label", "$pr_ids"} /\ DOMAIN others = {"$symbol", "$label", "$pr_ids"}
      /\ known["$symbol"] = token.symbol /\ others["$symbol"] = token.symbol
      /\ known["$label"] = token.label /\ others["$label"] = token.label
      /\ known["$pr_ids"] = << >> /\ others["$pr_ids"] = <<numbers>>
  BY KnownFacts
<1> HIDE DEF known, others
<1>5. KnownIn(known, A) /\ KnownIn(others, A)
  BY <1>2, <1>3, <1>4 DEF KnownIn
<1>6. Fewer(known, others)
  BY <1>4 DEF Fewer
<1>7. OnlyAdds(A, known, others, Seq(CompiledSegment))
  BY <1>5, <1>6, FormatOnlyAdds
<1>8. c \in Seq(C) /\ d \in Seq(C) /\ Found(SameToken(A), c, d)
  BY <1>1, <1>7 DEF OnlyAdds, C
<1>9. LeavesOut(Tokens(c), Tokens(d))
  BY <1>8, FoundTokens, FoundInTurn DEF C
<1> QED
  BY <1>9 DEF c, d

(***************************************************************************)
(* The numbers only add to what is shown, whatever formats, symbols and    *)
(* labels a configuration has: each segment is shown without them as with  *)
(* them, less tokens; a conditional block that is shown without them is    *)
(* shown with them.                                                        *)
(***************************************************************************)
THEOREM NumbersOnlyAddHolds == Spec => []NumbersOnlyAdd
<1>1. Inv => NumbersOnlyAdd
  <2> SUFFICES ASSUME Inv, NEW r \in Refresh, load[r].stage = "compiled"
               PROVE  LET token == load[r].config.merge_ready
                      IN LeavesOut(Tokens(render_token(token, {<<>>})),
                                   Tokens(render_token(token, {<<"#1 #2">>})))
    BY DEF NumbersOnlyAdd
  <2> DEFINE content == load[r].content
             token == load[r].config.merge_ready
             read == parse_display_config(content).merge_ready
  <2>1. content \in Contents /\ load[r].config = CompiledDisplayConfig(content)
    BY DEF Inv, LoadCoherent
  <2>2. /\ read.symbol \in Seq(Token) /\ read.label \in Seq(Token) /\ read.format \in Seq(Token)
    BY <2>1, TextsTyped, FormatsTyped
  <2>3. /\ token.symbol = read.symbol /\ token.label = read.label
        /\ token.segments = compile_segments[read.format]
    BY <2>1, CompiledToken
  <2>4. token.segments \in Seq(CompiledSegment)
    BY <2>2, <2>3, CompiledTyped
  <2>5. token.symbol \in Seq(Token) /\ token.label \in Seq(Token)
    BY <2>2, <2>3
  <2> HIDE DEF token
  <2>6. \A numbers : LeavesOut(Tokens(render_token(token, {<<>>})),
                               Tokens(render_token(token, {<<numbers>>})))
    BY <2>4, <2>5, LessWithoutNumbers
  <2> QED
    BY <2>6, Zenon DEF token
<1> QED
  BY <1>1, InvHolds, PTL
=============================================================================
