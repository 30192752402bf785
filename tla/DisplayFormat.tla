---------------------------- MODULE DisplayFormat ----------------------------
(***************************************************************************)
(* The `format` of a display token: how it is parsed into segments and how *)
(* they are compiled (evaluation/domain/format_parser.rs, style_spec.rs).  *)
(*                                                                         *)
(* A format is a sequence of tokens: the delimiters, the variables ("$" is *)
(* part of the name) and pieces of text.  In the style of a block each     *)
(* token is one word.                                                      *)
(***************************************************************************)
EXTENDS Integers, SequencesExt

CONSTANTS
  Token,               \* what a format is made of
  Variable,            \* names of the form $name
  Modifier,            \* "bold" and its like
  Foreground, Background   \* the color of each word that names one: red, fg:red, bg:red

NoColor == "none"

\* Style::new, which paints nothing; also what the word `none` asks for.
Plain == [fg |-> NoColor, bg |-> NoColor, modifiers |-> {}]

------------------------------------------------------------------------------
(* Parsing. *)

\* The first t at or after `from` is at k.
IsFirst(f, t, from, k) ==
  k \in from .. Len(f) /\ f[k] = t /\ \A m \in from .. k - 1 : f[m] # t

\* Mutant: the content goes on to the last "]".
StyledAt_greedy(f, i) ==
  {e \in (1 .. Len(f)) \X (1 .. Len(f)) :
     /\ f[i] = "[" /\ e[1] > i /\ f[e[1]] = "]" /\ \A m \in e[1] + 1 .. Len(f) : f[m] # "]"
     /\ e[1] < Len(f) /\ f[e[1] + 1] = "(" /\ IsFirst(f, ")", e[1] + 2, e[2])}

\* [content](style) begins at i: where "]" and ")" are.
StyledAt(f, i) ==
  {e \in (1 .. Len(f)) \X (1 .. Len(f)) :
     /\ f[i] = "[" /\ IsFirst(f, "]", i + 1, e[1])
     /\ e[1] < Len(f) /\ f[e[1] + 1] = "(" /\ IsFirst(f, ")", e[1] + 2, e[2])}

\* (content) begins at i: where ")" is.
ConditionalAt(f, i) == {k \in 1 .. Len(f) : f[i] = "(" /\ IsFirst(f, ")", i + 1, k)}

Text(f) == IF f = <<>> THEN <<>> ELSE <<[kind |-> "Text", text |-> f]>>

After(f, k) == SubSeq(f, k + 1, Len(f))

\* Mutant: the token before the block is lost.
Before_dropped(f, i) == Text(SubSeq(f, 1, i - 2))

\* What precedes the block at i.
Before(f, i) == Text(SubSeq(f, 1, i - 1))

\* Where a block begins.
Opens(f) == {i \in 1 .. Len(f) : StyledAt(f, i) # {} \/ ConditionalAt(f, i) # {}}

Styled(f, i, e) ==
  [kind |-> "Styled", content |-> SubSeq(f, i + 1, e[1] - 1),
   style_str |-> SubSeq(f, e[1] + 2, e[2] - 1)]

\* A delimiter that opens nothing is text.
parse_segments[f \in Seq(Token)] ==
  LET opens == Opens(f)
      i == Min(opens)
      styled == CHOOSE e \in StyledAt(f, i) : TRUE
      close == CHOOSE k \in ConditionalAt(f, i) : TRUE
  IN IF opens = {} THEN Text(f)
     ELSE IF StyledAt(f, i) # {}
     THEN Before(f, i) \o <<Styled(f, i, styled)>> \o parse_segments[After(f, styled[2])]
     ELSE Before(f, i)
          \o <<[kind |-> "Conditional", inner |-> parse_segments[SubSeq(f, i + 1, close - 1)]]>>
          \o parse_segments[After(f, close)]

\* The last word of s that names a color.
LastColor(s, colors) ==
  LET named == {n \in DOMAIN s : s[n] \in DOMAIN colors}
  IN IF named = {} THEN NoColor ELSE colors[s[Max(named)]]

\* Modifiers add up, in any order.
ModifiersOf(s) == ToSet(s) \cap Modifier

\* StyleSpec::parse and to_ansi_style; unknown words are ignored.
StyleOf(s) ==
  IF Contains(s, "none") THEN Plain
  ELSE [fg |-> LastColor(s, Foreground), bg |-> LastColor(s, Background),
        modifiers |-> ModifiersOf(s)]

\* A conditional block holds only text, as its content has no ")"; that is compiled as it is.
compile_segments[f \in Seq(Token)] ==
  LET segs == parse_segments[f]
  IN [n \in DOMAIN segs |->
        IF segs[n].kind = "Styled"
        THEN [kind |-> "Styled", style |-> StyleOf(segs[n].style_str),
              content |-> compile_segments[segs[n].content]]
        ELSE segs[n]]

------------------------------------------------------------------------------
(* What the properties compare with. *)

\* The text of segments that are all text.
TextOf(segs) == FlattenSeq([n \in DOMAIN segs |-> segs[n].text])

WrittenSegment(seg) ==
  CASE seg.kind = "Text" -> seg.text
    [] seg.kind = "Styled" ->
         <<"[">> \o seg.content \o <<"]", "(">> \o seg.style_str \o <<")">>
    [] OTHER -> <<"(">> \o TextOf(seg.inner) \o <<")">>

\* The format that the segments were written as.
Written(segs) == FlattenSeq([n \in DOMAIN segs |-> WrittenSegment(segs[n])])
==============================================================================
