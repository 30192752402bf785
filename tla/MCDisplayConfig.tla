-------------------------- MODULE MCDisplayConfig --------------------------
(* A small instance of DisplayConfig and DisplayRender for TLC. *)
EXTENDS DisplayRender, TLC

Variables == {"$symbol", "$label", "$pr_ids", "$message", "$pr_id"}

Modifiers == {"bold"}

Foregrounds == ("red" :> "red") @@ ("fg:red" :> "red") @@ ("green" :> "green")

Backgrounds == "bg:red" :> "red"

FormatTokens ==
  Variables \cup {"[", "]", "(", ")", " ", "a", "b", "c", "x", "Ready", "none", "bold"}
    \cup DOMAIN Foregrounds \cup DOMAIN Backgrounds

SymbolValue == <<"x">>

LabelValue == <<"Ready">>

\* "$symbol $label( $pr_ids)"
TokenFormat == <<"$symbol", " ", "$label", "(", " ", "$pr_ids", ")">>

ErrorFormat == <<"$symbol", " ", "$message">>

\* Blocks, pieces of blocks and stray delimiters.
Piece ==
  {<<"$symbol", "$pr_ids">>, <<"(", " ", "$pr_ids", ")">>, <<"(", "$pr_id", ")">>,
   <<"[", "$label", "]", "(", "red", "bold", ")">>,
   <<"[", "a", "(", "$pr_ids", ")", "]", "(", "fg:red", "bg:red", ")">>,
   <<"[", "b", "]", "(", "red", "none", ")">>,
   <<"[">>, <<"(">>, <<"]">>, <<")">>, <<"]", "(">>}

SomeFormats ==
  UNION {{f \o g, <<"[">> \o f \o g \o <<"c", "]", "(", "green", ")">>} :
           f \in Piece, g \in Piece}

MergeReady(symbol, format) == [symbol |-> symbol, label |-> {}, format |-> format]

WithFormat(f) == [merge_ready |-> {MergeReady({}, {f})}, error |-> {}]

\* A file with one of the formats, for pull requests; or none.
InitialFiles == {WithFormat(f) : f \in SomeFormats} \cup {None}

\* A format for errors, a symbol that is empty, and what is no configuration.
EditedFiles ==
  {[merge_ready |-> {MergeReady({<<>>}, {})},
    error |-> {[symbol |-> {}, format |-> {<<"[", "$message", "]", "(", "red", ")">>}]}],
   Invalid}

RefreshSymmetry == Permutations(Refresh)
=============================================================================
