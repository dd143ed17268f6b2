------------------------------ MODULE InputBox ------------------------------
(***************************************************************************)
(* agents/claude-cache-keeper.ts: what the keeper takes for the text typed *)
(* in the input box of a Claude session, from the styled line zmx prints.  *)
(*                                                                         *)
(* A line is a sequence of tokens: style sequences (SGR codes) and glyphs. *)
(* A keepalive, a draft or half of a prompt suggestion is one glyph.       *)
(***************************************************************************)
EXTENDS Naturals, SequencesExt

Sgr(codes)   == [kind |-> "sgr", codes |-> codes]
Glyph(glyph) == [kind |-> "glyph", glyph |-> glyph]

-----------------------------------------------------------------------------
(* Reading the line.                                                       *)

NoStyle == [dim |-> FALSE, inverse |-> FALSE, skip |-> 0]

\* Fault: the arguments of a colour are read as codes.
ApplyCodeNoSkip(codes, style, i) ==
  LET code == codes[i] IN
  CASE code = 0  -> NoStyle
    [] code = 2  -> [style EXCEPT !.dim = TRUE]
    [] code = 22 -> [style EXCEPT !.dim = FALSE]
    [] code = 7  -> [style EXCEPT !.inverse = TRUE]
    [] code = 27 -> [style EXCEPT !.inverse = FALSE]
    [] OTHER     -> style

\* The style after the i-th of these codes; `skip` counts the arguments of a
\* colour that are still to come: 5;n or 2;r;g;b.
ApplyCode(codes, style, i) ==
  LET code == codes[i] IN
  IF style.skip > 0 THEN [style EXCEPT !.skip = @ - 1]
  ELSE CASE code = 0               -> NoStyle
         [] code = 2               -> [style EXCEPT !.dim = TRUE]
         [] code = 22              -> [style EXCEPT !.dim = FALSE]
         [] code = 7               -> [style EXCEPT !.inverse = TRUE]
         [] code = 27              -> [style EXCEPT !.inverse = FALSE]
         [] code \in {38, 48, 58}  -> [style EXCEPT !.skip =
                                         IF i < Len(codes) /\ codes[i + 1] = 5 THEN 2 ELSE 4]
         [] OTHER                  -> style

\* No parameters mean a reset.
ApplyStyle(style, codes) ==
  LET all == IF codes = <<>> THEN <<0>> ELSE codes
  IN  [FoldLeftDomain(LAMBDA s, i : ApplyCode(all, s, i), style, all)
         EXCEPT !.skip = 0]

Visible(glyph) == glyph # "space"

NothingRead == [style |-> NoStyle, afterMarker |-> FALSE,
                dimText |-> FALSE, plainText |-> FALSE, text |-> <<>>]

\* The text is kept without blanks, which stand only at its ends here: trimming
\* drops them all.
ReadToken(seen, token) ==
  IF token.kind = "sgr"
    THEN [seen EXCEPT !.style = ApplyStyle(@, token.codes)]
  ELSE IF ~seen.afterMarker
    THEN [seen EXCEPT !.afterMarker = (token.glyph = "marker")]
  ELSE IF ~Visible(token.glyph)
    THEN seen
  ELSE IF seen.style.dim
    THEN [seen EXCEPT !.dimText = TRUE]
  ELSE [seen EXCEPT !.text = Append(@, token.glyph),
                    !.plainText = @ \/ ~seen.style.inverse]

\* Fault: a prompt suggestion counts as typed text.
TypedTextWithSuggestion(line) == FoldLeft(ReadToken, NothingRead, line).text

\* The typed text: without dim text, an inverse glyph is the cursor on a typed one.
TypedText(line) ==
  LET seen == FoldLeft(ReadToken, NothingRead, line)
  IN  IF seen.plainText \/ ~seen.dimText THEN seen.text ELSE <<>>

-----------------------------------------------------------------------------
(* How Claude Code draws a box that holds this content: the cursor is in   *)
(* inverse video; a suggestion in an empty box has the cursor on its first *)
(* glyph and the rest dim; typed text may be coloured, and is never dim.   *)

Marker       == <<Glyph("marker"), Glyph("space")>>
Cursor(g)    == <<Sgr(<<7>>), Glyph(g), Sgr(<<27>>)>>
Glyphs(text) == [i \in 1..Len(text) |-> Glyph(text[i])]

Screens(content) ==
  IF content = <<>>
    THEN {Marker \o Cursor("space"),
          Marker \o Cursor("suggestion") \o <<Sgr(<<2>>), Glyph("suggestion"), Sgr(<<22>>)>>}
    ELSE {Marker \o Glyphs(content) \o Cursor("space"),
          Marker \o <<Sgr(<<38, 5, 2>>)>> \o Glyphs(Front(content))
                 \o Cursor(Last(content)) \o <<Sgr(<<>>)>>}

=============================================================================
