---------------------------- MODULE DisplayRender ----------------------------
(***************************************************************************)
(* What the compiled segments of a format render to (evaluation/domain/    *)
(* display_config/render.rs), and what a user may expect of it whatever    *)
(* the configuration holds.                                                *)
(*                                                                         *)
(* known maps the names that are known to their values, each a sequence of *)
(* tokens.  A rendered text is a sequence of cells, a token and the style  *)
(* it is shown in.                                                         *)
(***************************************************************************)
EXTENDS DisplayConfig

\* Mutant: a variable without a value counts as unknown.
substitute_vars_named(t, known) ==
  LET tokens == FlattenSeq([n \in DOMAIN t |->
                  IF t[n] \in DOMAIN known /\ known[t[n]] # <<>> THEN known[t[n]] ELSE <<t[n]>>])
  IN [n \in DOMAIN tokens |-> [token |-> tokens[n], style |-> Plain]]

\* An unknown variable is shown as it is written.
substitute_vars(t, known) ==
  LET tokens == FlattenSeq([n \in DOMAIN t |->
                  IF t[n] \in DOMAIN known THEN known[t[n]] ELSE <<t[n]>>])
  IN [n \in DOMAIN tokens |-> [token |-> tokens[n], style |-> Plain]]

\* The escape codes end at the first reset, which a styled cell before n has brought.
paint(style, cells) ==
  [n \in DOMAIN cells |->
     IF \E m \in 1 .. n : cells[m].style # Plain THEN cells[n]
     ELSE [cells[n] EXCEPT !.style = style]]

\* What a style can be.
Style ==
  [fg : {NoColor} \cup Range(Foreground), bg : {NoColor} \cup Range(Background),
   modifiers : SUBSET Modifier]

\* Compiled segments whose blocks hold lists in S.
Holding(S) ==
  [kind : {"Text"}, text : Seq(Token)]
    \cup [kind : {"Styled"}, style : Style, content : S]
    \cup [kind : {"Conditional"}, inner : S]

Nested(S) == Seq(Holding(S))

\* Bound: five levels, where the lists of a format have three (NestedFacts in DisplayConfig_proofs).
CompiledSegments == Nested(Nested(Nested(Nested(Nested({})))))

collect_var_refs[segs \in CompiledSegments] ==
  UNION {CASE segs[n].kind = "Text" -> ToSet(segs[n].text) \cap Variable
           [] segs[n].kind = "Styled" -> collect_var_refs[segs[n].content]
           [] OTHER -> collect_var_refs[segs[n].inner] : n \in DOMAIN segs}

NotEmpty(name, known) == name \in DOMAIN known /\ known[name] # <<>>

\* eval_conditional: a block is hidden if its variables are all empty, or if it has none.
ShowsBlock(inner, known) == \E name \in collect_var_refs[inner] : NotEmpty(name, known)

\* What one segment renders to, where eval renders the lists it holds.
eval_segment(eval, seg, known) ==
  CASE seg.kind = "Text" -> substitute_vars(seg.text, known)
    [] seg.kind = "Styled" -> paint(seg.style, eval[seg.content])
    [] OTHER -> IF ShowsBlock(seg.inner, known) THEN eval[seg.inner] ELSE <<>>

eval_segments(segs, known) ==
  LET eval[s \in CompiledSegments] ==
        FlattenSeq([n \in DOMAIN s |-> eval_segment(eval, s[n], known)])
  IN eval[segs]

\* pr_ids is an `Option`: no numbers and no variable for them, or one that may be empty.
render_token(token, pr_ids) ==
  eval_segments(token.segments,
                [v \in {"$symbol", "$label"} \cup {"$pr_ids" : ids \in pr_ids} |->
                   CASE v = "$symbol" -> token.symbol
                     [] v = "$label" -> token.label
                     [] OTHER -> Or(pr_ids, <<>>)])

------------------------------------------------------------------------------
\* The tokens of a rendered text.
Tokens(cells) == [n \in DOMAIN cells |-> cells[n].token]

Values == [{"$symbol", "$label", "$pr_ids"} -> {<<>>, <<"value">>}]

(***************************************************************************)
(* A block's style reaches to the end of the block (README, `[text](style)`*)
(* around a conditional block): nothing within it resets the style early.  *)
(***************************************************************************)
StyleCoversBlock ==
  \A f \in Formats :
    \A seg \in ToSet(compile_segments[f]) : seg.kind = "Styled" =>
      \A values \in Values :
        \A cell \in ToSet(eval_segments(<<seg>>, values)) : cell.style = seg.style

\* t can be had from u by leaving tokens out: going through u, all of t is found in turn.
LeavesOut(t, u) ==
  FoldLeft(LAMBDA found, token : IF found < Len(t) /\ t[found + 1] = token THEN found + 1 ELSE found,
           0, u) = Len(t)

(***************************************************************************)
(* The numbers of the pull requests only add to what is shown: without     *)
(* them the prompt shows the same, less the numbers and the blocks that    *)
(* are there for them, and no trace of the variable.                       *)
(***************************************************************************)
NumbersOnlyAdd ==
  \A r \in Refresh : load[r].stage = "compiled" =>
    LET token == load[r].config.merge_ready
    IN LeavesOut(Tokens(render_token(token, {<<>>})), Tokens(render_token(token, {<<"#1 #2">>})))
==============================================================================
