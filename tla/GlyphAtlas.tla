------------------------------- MODULE GlyphAtlas -------------------------------
(***************************************************************************)
(* A font of the game, on screen (ui::Text) or in the world (billb::Text,  *)
(* the same code): loadFont packs the glyphs of the first characters into  *)
(* one texture, row by row, and draw lays texts out as one quad a letter.  *)
(*                                                                         *)
(* A glyph's box, padding included, and its advance are whatever the font  *)
(* says within the bounds below; bearings and the scale are left out.      *)
(* Horizontal positions of letters count half pixels, so that half of a    *)
(* text's width is an integer.                                             *)
(***************************************************************************)
EXTENDS Integers, Sequences

CONSTANTS
    Count,        \* characters the font is asked for, 128 in the code
    AtlasWidth,
    Widths, Rows, \* sizes a glyph's box may have
    Advances,
    Newline,      \* the character of a line break
    Contents,     \* what draw may be given: sequences of texts
    MaxLetters    \* kMaxInstanceCount

ASSUME AtlasAssumption ==
    /\ Count \in Nat
    /\ AtlasWidth \in Nat
    /\ Widths \subseteq 1..(AtlasWidth - 1)
    /\ Rows \subseteq Nat \ {0}
    /\ Advances \subseteq Nat
    /\ Contents \subseteq Seq(Seq(Nat))
    /\ MaxLetters \in Nat

VARIABLES
    code,        \* the next character to load
    currentX, currentY, rowHeight,
    characters,  \* m_characters: the box and the advance of each glyph loaded
    texts,       \* what draw was given last
    letters      \* the quads it wrote into the instance buffer

atlasVars == <<code, currentX, currentY, rowHeight, characters, texts, letters>>

Glyph == [left : 0..(AtlasWidth - 1), top : Nat, width : Widths, rows : Rows,
          advance : Advances]

AtlasInit ==
    /\ code = 1
    /\ currentX = 0 /\ currentY = 0 /\ rowHeight = 0
    /\ characters = [c \in {} |-> 0]
    /\ texts = <<>> /\ letters = <<>>

Larger(a, b) == IF a > b THEN a ELSE b

\* Defect: the row is as high as the last glyph in it.
LastRows(height, rows) == rows + 1
Heightened(height, rows) == Larger(height, rows + 1)

Wraps(x, width) == x + width >= AtlasWidth

LoadGlyph(width, rows, advance) ==
    LET wraps == Wraps(currentX, width)
        x == IF wraps THEN 0 ELSE currentX
        y == IF wraps THEN currentY + rowHeight ELSE currentY
        glyph == [left |-> x, top |-> y, width |-> width, rows |-> rows,
                  advance |-> advance]
    IN  /\ code <= Count
        /\ code' = code + 1
        /\ characters' = [c \in DOMAIN characters \cup {code} |->
                              IF c = code THEN glyph ELSE characters[c]]
        /\ currentX' = x + width + 1
        /\ currentY' = y
        /\ rowHeight' = Heightened(IF wraps THEN 0 ELSE rowHeight, rows)
        /\ UNCHANGED <<texts, letters>>

\* The font has no such glyph, or it cannot be rendered.
SkipGlyph ==
    /\ code <= Count
    /\ code' = code + 1
    /\ UNCHANGED <<currentX, currentY, rowHeight, characters, texts, letters>>

LoadFont == SkipGlyph \/ \E w \in Widths, r \in Rows, a \in Advances : LoadGlyph(w, r, a)

-----------------------------------------------------------------------------
AdvanceOf(c) == IF c \in DOMAIN characters THEN characters[c].advance ELSE 0

\* Defect: the width is counted as if every character were drawn.
WidthByLength(text) == Len(text)
\* A line break with a glyph of its own counts like any other character.
TotalWidth(text) ==
    LET upTo[i \in 0..Len(text)] ==
            IF i = 0 THEN 0 ELSE upTo[i - 1] + AdvanceOf(text[i])
    IN  upTo[Len(text)]

Drawable(c) == c # Newline /\ c \in DOMAIN characters

\* The quad of the i-th character of text t, where the pen is.
Letter(t, i, c, pen) ==
    [text |-> t, at |-> i, char |-> c, x |-> pen.x, line |-> pen.line]

\* One turn of the loop over a text: a line break, a character the font lacks,
\* or a letter.
Typed(t, i, c, pen) ==
    IF c = Newline THEN [x |-> 0, line |-> pen.line + 1, out |-> pen.out]
    ELSE IF ~Drawable(c) THEN pen
    ELSE [x |-> pen.x + 2 * AdvanceOf(c), line |-> pen.line,
          out |-> Append(pen.out, Letter(t, i, c, pen))]

\* Text t behind the quads of the texts before it.
LaidOut(t, text, before) ==
    LET pen[i \in 0..Len(text)] ==
            IF i = 0 THEN [x |-> -TotalWidth(text), line |-> 0, out |-> before]
            ELSE Typed(t, i, text[i], pen[i - 1])
    IN  pen[Len(text)].out

AllLaidOut(content) ==
    LET upTo[t \in 0..Len(content)] ==
            IF t = 0 THEN <<>> ELSE LaidOut(t, content[t], upTo[t - 1])
    IN  upTo[Len(content)]

\* Letters beyond the instance buffer are dropped.
Capped(all) == IF Len(all) > MaxLetters THEN SubSeq(all, 1, MaxLetters) ELSE all

Draw(content) ==
    /\ code > Count
    /\ texts' = content
    /\ letters' = Capped(AllLaidOut(content))
    /\ UNCHANGED <<code, currentX, currentY, rowHeight, characters>>

AtlasNext == LoadFont \/ \E content \in Contents : Draw(content)
AtlasSpec == AtlasInit /\ [][AtlasNext]_atlasVars

-----------------------------------------------------------------------------
AtlasTypeOK ==
    /\ code \in 1..(Count + 1)
    /\ currentX \in 0..AtlasWidth /\ currentY \in Nat /\ rowHeight \in Nat
    /\ DOMAIN characters \subseteq 1..(code - 1)
    /\ \A c \in DOMAIN characters : characters[c] \in Glyph
    /\ Len(letters) <= MaxLetters

Apart(g, h) ==
    \/ g.left + g.width < h.left \/ h.left + h.width < g.left
    \/ g.top + g.rows < h.top \/ h.top + h.rows < g.top

\* No two glyphs share a pixel of the atlas or touch: sampling one at its edge
\* never blends in another.
GlyphsApart ==
    \A c, d \in DOMAIN characters : c # d => Apart(characters[c], characters[d])

\* No glyph crosses the right edge, where its rows would continue on the left
\* of the next ones.
WithinRows ==
    \A c \in DOMAIN characters :
        characters[c].left + characters[c].width < AtlasWidth

\* A letter is one of the characters it was written for, and they come in order.
LettersOfTexts ==
    /\ \A k \in DOMAIN letters :
           LET a == letters[k]
           IN  /\ a.text \in DOMAIN texts /\ a.at \in DOMAIN texts[a.text]
               /\ a.char = texts[a.text][a.at] /\ Drawable(a.char)
    /\ \A k \in 1..(Len(letters) - 1) :
           LET a == letters[k]
               b == letters[k + 1]
           IN  a.text < b.text \/ (a.text = b.text /\ a.at < b.at)

\* While there is room no character that the font has is left out.
EveryLetterDrawn ==
    Len(letters) < MaxLetters =>
        \A t \in DOMAIN texts : \A i \in DOMAIN texts[t] : Drawable(texts[t][i]) =>
            \E k \in DOMAIN letters : letters[k].text = t /\ letters[k].at = i

\* On one line letters follow each other at the distance of their advances.
LettersFollow ==
    \A k \in 1..(Len(letters) - 1) :
        LET a == letters[k]
            b == letters[k + 1]
        IN  a.text = b.text /\ a.line = b.line =>
                b.x = a.x + 2 * AdvanceOf(a.char)

StartsText(k) == k = 1 \/ letters[k - 1].text # letters[k].text
EndsText(k) == k = Len(letters) \/ letters[k + 1].text # letters[k].text

\* Behind a line break every line starts at the position of the text itself.
LinesStart ==
    \A k \in DOMAIN letters :
        letters[k].line > (IF StartsText(k) THEN 0 ELSE letters[k - 1].line)
            => letters[k].x = 0

\* A text without a line break is centred on its position, if all of it was
\* drawn.
TextsCentred ==
    Len(letters) < MaxLetters =>
        \A j, k \in DOMAIN letters :
            /\ StartsText(j) /\ EndsText(k) /\ letters[j].text = letters[k].text
            /\ \A i \in DOMAIN texts[letters[j].text] : texts[letters[j].text][i] # Newline
            => letters[k].x + 2 * AdvanceOf(letters[k].char) = -letters[j].x

\* The atlas keeps the glyphs of a font apart and inside, whatever their sizes.
GlyphsPlaced == GlyphsApart /\ WithinRows

\* Every variable keeps its type, no letter is written beyond the instance buffer,
\* every character is drawn in its turn, and the letters of a text stand where its
\* line and its advances put them.
TextLaidOut ==
    /\ AtlasTypeOK /\ LettersOfTexts /\ EveryLetterDrawn
    /\ LettersFollow /\ LinesStart /\ TextsCentred
================================================================================
