-------------------------------- MODULE Editor --------------------------------
(***************************************************************************)
(* TextEditor: the request editor of the Proxy and Repeater tabs.          *)
(*                                                                         *)
(* The text is a vector of lines.  Rows and columns count from 0, as in    *)
(* the code, and a column counts bytes.  Events come from the terminal in  *)
(* any order; a frame (Render) is drawn after some of them.  box_ is the   *)
(* area of the frame before, which changes when the terminal is resized.   *)
(*                                                                         *)
(* A key reaches the editor only while it has the focus, and the focus is  *)
(* FTXUI's business: an event that the editor refuses is no step.          *)
(***************************************************************************)
EXTENDS Integers, SequencesExt

CONSTANTS
    Byte,           \* the bytes of a text
    NL, CR, SP,     \* line feed, carriage return, blank
    Word,           \* the bytes of a word (isWordChar)
    Glyph,          \* what one key press delivers: the bytes of one character
    Docs,           \* the texts the tabs load
    Heights,        \* the heights the editor's box may have
    PageRows, WheelRows, TabWidth,      \* 10, 3 and 4 in the code
    MaxBytes,       \* bound: bytes in the text
    Columns         \* bound: the columns, after the gutter, that are clicked at

VARIABLES
    lines,                  \* lines_
    row, col,               \* cursor_row_, cursor_col_
    scroll,                 \* scroll_y_
    height,                 \* rows of box_
    selecting, selected,    \* selecting_, hasSelection_
    from, to,               \* selStart and selEnd, as <<row, column>>
    copied                  \* what the last event put on the clipboard

selection == <<selecting, selected, from, to>>
vars == <<lines, row, col, scroll, height, selecting, selected, from, to, copied>>

Least(a, b)    == IF a < b THEN a ELSE b
Most(a, b)     == IF a > b THEN a ELSE b
Clamp(hi, x)   == Most(0, Least(hi, x))

Line(r)  == lines[r + 1]
Width(r) == Len(Line(r))
Bottom   == Len(lines) - 1

\* The rows that OnEvent reckons with, and those that Render draws.
EventRows == Most(2, height - 3)
FrameRows == Most(2, height - 2)

-----------------------------------------------------------------------------
\* A text and its lines
Join(ls, sep) ==
    LET upto[i \in 0 .. Len(ls)] ==
            IF i = 0 THEN <<>>
            ELSE IF i = 1 THEN ls[1] ELSE upto[i - 1] \o sep \o ls[i]
    IN  upto[Len(ls)]

GetText == Join(lines, <<CR, NL>>)

\* SetText drops the carriage returns and cuts at each line feed.
Clean(t) ==
    LET kept[i \in 0 .. Len(t)] ==
            IF i = 0 THEN <<>>
            ELSE kept[i - 1] \o (IF t[i] = CR THEN <<>> ELSE <<t[i]>>)
    IN  kept[Len(t)]

Grown(ls, b) ==
    IF b = NL THEN Append(ls, <<>>) ELSE [ls EXCEPT ![Len(ls)] = Append(@, b)]

SplitLines(t) ==
    LET cut[i \in 0 .. Len(t)] == IF i = 0 THEN <<<<>>>> ELSE Grown(cut[i - 1], t[i])
    IN  cut[Len(t)]

ASSUME EditorAssumption ==
    /\ {NL, CR, SP} \subseteq Byte /\ NL # CR /\ SP \notin {NL, CR}
    /\ Docs \subseteq Seq(Byte)
    /\ Glyph \subseteq {g \in Seq(Byte) : g = <<NL>> \/ g = <<CR>> \/ {NL, CR} \cap Range(g) = {}}
    /\ Heights \subseteq Nat /\ Columns \subseteq Nat
    /\ PageRows \in Nat /\ WheelRows \in Nat /\ TabWidth \in Nat /\ MaxBytes \in Nat

Room(n) == Len(Join(lines, <<NL>>)) + n <= MaxBytes

-----------------------------------------------------------------------------
\* ensureCursorVisible: the scroll position that shows row r of n lines.
Follow(s, r, n, rows) ==
    Clamp(Most(0, n - rows),
          IF r < s THEN r
          ELSE IF r >= s + rows THEN r - rows + 1
          ELSE s)

\* The selection in reading order.
Reversed == from[1] > to[1] \/ (from[1] = to[1] /\ from[2] > to[2])
First    == IF Reversed THEN to ELSE from
Final    == IF Reversed THEN from ELSE to

\* GetSelectedText: rows and columns are clamped to the text as it is now.
GetSelectedText ==
    LET top == Clamp(Bottom, First[1])
        end == Clamp(Bottom, Final[1])
        part(r) == SubSeq(Line(r),
                          1 + (IF r = top THEN Clamp(Width(r), First[2]) ELSE 0),
                          IF r = end THEN Clamp(Width(r), Final[2]) ELSE Width(r))
    IN  Join([i \in 1 .. end - top + 1 |-> part(top + i - 1)], <<CR, NL>>)

\* GetWordAt: the word around a position, if there is one.
GetWordAt(r, c) ==
    LET word(i) == Line(r)[i + 1] \in Word
        span(a, b) == \A i \in a .. b : word(i)
    IN  IF c >= Width(r) \/ (c < Width(r) /\ ~word(c)) THEN <<>>
        ELSE SubSeq(Line(r),
                    1 + CHOOSE a \in 0 .. c : span(a, c) /\ (a = 0 \/ ~word(a - 1)),
                    1 + CHOOSE b \in c .. Width(r) - 1 :
                            span(c, b) /\ (b = Width(r) - 1 \/ ~word(b + 1)))

-----------------------------------------------------------------------------
Init ==
    /\ lines = <<<<>>>> /\ row = 0 /\ col = 0 /\ scroll = 0
    /\ height = 1
    /\ selecting = FALSE /\ selected = FALSE
    /\ from = <<-1, -1>> /\ to = <<-1, -1>>
    /\ copied = <<>>

\* SetText and Clear
Restart(ls) ==
    /\ lines' = ls
    /\ row' = 0 /\ col' = 0 /\ scroll' = 0
    /\ selecting' = FALSE /\ selected' = FALSE
    /\ copied' = <<>>
    /\ UNCHANGED <<height, from, to>>

SetText == \E t \in Docs : Restart(SplitLines(Clean(t)))

Clear == Restart(<<<<>>>>)

CopyToClipboard ==
    /\ copied' = GetText
    /\ UNCHANGED <<lines, row, col, scroll, height, selection>>

\* The line and column under the mouse, at row y of the box and x columns
\* after the gutter.
TargetRow(y)    == Clamp(Bottom, scroll + Most(0, y - 1))
TargetCol(y, x) == Least(Width(TargetRow(y)), x)

CursorTo(r, c) ==
    /\ row' = r /\ col' = c
    /\ to' = <<r, c>>
    /\ copied' = <<>>
    /\ UNCHANGED <<lines, scroll, height>>

WheelUp ==
    /\ scroll' = Most(0, scroll - WheelRows)
    /\ copied' = <<>>
    /\ UNCHANGED <<lines, row, col, height, selection>>

WheelDown ==
    /\ scroll' = Least(Most(0, Len(lines) - EventRows), scroll + WheelRows)
    /\ copied' = <<>>
    /\ UNCHANGED <<lines, row, col, height, selection>>

LeftPress(y, x) ==
    /\ CursorTo(TargetRow(y), TargetCol(y, x))
    /\ from' = to'
    /\ selecting' = TRUE /\ selected' = TRUE

\* Every other event of the left button while selecting_ is set, its release
\* included: the branch for the release stands below this one, so what it does
\* when selecting_ is set is never done.
LeftDrag(y, x) ==
    /\ selecting
    /\ CursorTo(TargetRow(y), TargetCol(y, x))
    /\ UNCHANGED <<selecting, selected, from>>

RightPress(y, x) ==
    /\ copied' = IF selected THEN GetSelectedText
                 ELSE LET w == GetWordAt(TargetRow(y), TargetCol(y, x))
                      IN  IF w # <<>> THEN w ELSE GetText
    /\ UNCHANGED <<lines, row, col, scroll, height, selection>>

ReleaseOutside ==
    /\ selecting
    /\ selecting' = FALSE
    /\ copied' = <<>>
    /\ UNCHANGED <<lines, row, col, scroll, height, selected, from, to>>

-----------------------------------------------------------------------------
\* Every key leaves lines, a cursor and a scroll position, and ends the
\* display of the selection; selecting_ and the two ends of it stay.
Key(ls, r, c, s) ==
    /\ lines' = ls /\ row' = r /\ col' = c /\ scroll' = s
    /\ selected' = FALSE
    /\ copied' = <<>>
    /\ UNCHANGED <<height, selecting, from, to>>

\* A move within the line, and one to another line, which is scrolled to.
Within(c)    == Key(lines, row, c, scroll)
MoveTo(r, c) == Key(lines, r, c, Follow(scroll, r, Len(lines), EventRows))

\* An edit within the line, and one that changes the number of lines.
Retype(text, c) ==
    Key([lines EXCEPT ![row + 1] = text], row, c, scroll)
Rebuild(ls, r, c) ==
    Key(ls, r, c, Follow(scroll, r, Len(ls), EventRows))

Left  == SubSeq(Line(row), 1, col)
Right == SubSeq(Line(row), col + 1, Width(row))

\* Line r is cut in two; lines r and r + 1 become one.
Cut(r, a, b)    == SubSeq(lines, 1, r) \o <<a, b>> \o SubSeq(lines, r + 2, Len(lines))
Glued(r)        == SubSeq(lines, 1, r) \o <<Line(r) \o Line(r + 1)>>
                        \o SubSeq(lines, r + 3, Len(lines))

ArrowUp ==
    IF row > 0 THEN MoveTo(row - 1, Least(col, Width(row - 1))) ELSE Within(col)

\* Variant with a bug: the column is not shortened to the new line.
ArrowDownKeepsColumn ==
    IF row < Bottom THEN MoveTo(row + 1, col) ELSE Within(col)

ArrowDown ==
    IF row < Bottom THEN MoveTo(row + 1, Least(col, Width(row + 1))) ELSE Within(col)

ArrowLeft ==
    \/ col > 0 /\ Within(col - 1)
    \/ col = 0 /\ row > 0 /\ MoveTo(row - 1, Width(row - 1))
    \/ col = 0 /\ row = 0 /\ Within(0)

ArrowRight ==
    \/ col < Width(row) /\ Within(col + 1)
    \/ col = Width(row) /\ row < Bottom /\ MoveTo(row + 1, 0)
    \/ col = Width(row) /\ row = Bottom /\ Within(col)

Home == Within(0)
End  == Within(Width(row))

PageUp ==
    LET r == Most(0, row - PageRows) IN MoveTo(r, Least(col, Width(r)))

PageDown ==
    LET r == Least(Bottom, row + PageRows) IN MoveTo(r, Least(col, Width(r)))

\* Variant with a bug: what moves to the new line stays in the old one as well.
ReturnCopies == Room(1) /\ Rebuild(Cut(row, Line(row), Right), row + 1, 0)

Return == Room(1) /\ Rebuild(Cut(row, Left, Right), row + 1, 0)

\* Variant with a bug: the view stays where it was when two lines become one.
BackspaceUnfollowed ==
    \/ col > 0 /\ Retype(SubSeq(Left, 1, col - 1) \o Right, col - 1)
    \/ col = 0 /\ row > 0 /\ Key(Glued(row - 1), row - 1, Width(row - 1), scroll)
    \/ col = 0 /\ row = 0 /\ Within(0)

Backspace ==
    \/ col > 0 /\ Retype(SubSeq(Left, 1, col - 1) \o Right, col - 1)
    \/ col = 0 /\ row > 0 /\ Rebuild(Glued(row - 1), row - 1, Width(row - 1))
    \/ col = 0 /\ row = 0 /\ Within(0)

\* Variant with a bug: the selection goes on being displayed.
DeleteSelected ==
    /\ col = Width(row) /\ row < Bottom
    /\ lines' = Glued(row)
    /\ scroll' = Follow(scroll, row, Len(lines) - 1, EventRows)
    /\ copied' = <<>>
    /\ UNCHANGED <<row, col, height, selection>>

Delete ==
    \/ col < Width(row) /\ Retype(Left \o Tail(Right), col)
    \/ col = Width(row) /\ row < Bottom /\ Rebuild(Glued(row), row, col)
    \/ col = Width(row) /\ row = Bottom /\ Within(col)

TabKey ==
    /\ Room(TabWidth)
    /\ Retype(Left \o [i \in 1 .. TabWidth |-> SP] \o Right, col + TabWidth)

\* Variant with a bug: a carriage return is inserted like any other byte.
CharacterRaw(g) ==
    /\ Room(Len(g))
    /\ Rebuild([lines EXCEPT ![row + 1] = Left \o g \o Right], row, col + Len(g))

\* insertString, given the bytes of one character, then ensureCursorVisible.
Character(g) ==
    /\ Room(Len(g))
    /\ IF g = <<NL>> THEN Rebuild(Cut(row, Left, Right), row + 1, 0)
       ELSE LET s == Clean(g)
            IN  Rebuild([lines EXCEPT ![row + 1] = Left \o s \o Right], row, col + Len(s))

\* Render: box_ is measured, and the view goes to the cursor.
Render ==
    /\ scroll' = Follow(scroll, row, Len(lines), FrameRows)
    /\ height' \in Heights
    /\ copied' = <<>>
    /\ UNCHANGED <<lines, row, col, selection>>

Mouse ==
    \/ WheelUp \/ WheelDown \/ ReleaseOutside
    \/ \E y \in 0 .. height - 1, x \in Columns :
          LeftPress(y, x) \/ LeftDrag(y, x) \/ RightPress(y, x)

KeyPress ==
    \/ ArrowUp \/ ArrowDown \/ ArrowLeft \/ ArrowRight
    \/ Home \/ End \/ PageUp \/ PageDown
    \/ Return \/ Backspace \/ Delete \/ TabKey
    \/ \E g \in Glyph : Character(g)

Next == SetText \/ Clear \/ CopyToClipboard \/ Mouse \/ KeyPress \/ Render

Spec == Init /\ [][Next]_vars

-----------------------------------------------------------------------------
\* A line holds no byte that ends a line.
LineByte == Byte \ {NL, CR}

TypeOK ==
    /\ lines \in Seq(Seq(LineByte)) \ {<<>>}
    /\ row \in Nat /\ col \in Nat /\ scroll \in Nat
    /\ height \in Nat
    /\ selecting \in BOOLEAN /\ selected \in BOOLEAN
    /\ from \in Int \X Int /\ to \in Int \X Int
    /\ copied \in Seq(Byte)

\* The cursor is at a byte of the text or behind the last one of its line:
\* what every insert, erase and substr of OnEvent takes for granted.
CursorInText == row < Len(lines) /\ col <= Width(row)

\* The view does not begin below the last screenful by more than the one row
\* in which OnEvent and Render differ.
ViewInText == scroll < Len(lines)

InText(p) == p[1] \in 0 .. Bottom /\ p[2] \in 0 .. Width(p[1])

\* A selection that is displayed lies in the text, although text and selection
\* are kept apart and any key may come while the button is held.
SelectionInText == selected => InText(from) /\ InText(to)

IInv == TypeOK /\ CursorInText /\ ViewInText /\ SelectionInText

\* What Render paints as selected in row r.
Painted(r) ==
    SubSeq(Line(r),
           1 + (IF r = First[1] THEN Clamp(Width(r), First[2]) ELSE 0),
           IF r = Final[1] THEN Clamp(Width(r), Final[2]) ELSE Width(r))

\* A right click on a displayed selection copies what is painted, row by row:
\* GetSelectedText and Render clamp the two ends differently, which must not
\* show.
CopiesWhatIsShown ==
    LET top == Most(0, First[1])
        end == Least(Bottom, Final[1])
    IN  selected => GetSelectedText = Join([i \in 1 .. end - top + 1 |-> Painted(top + i - 1)],
                                           <<CR, NL>>)

\* The text that Forward and Send read from the editor comes back as the same
\* lines when it is loaded again: no byte in a line ends it.
RoundTrip == SplitLines(Clean(GetText)) = lines

\* The text without the two ways to write a line end, and the cursor in it.
Flat == INSTANCE FlatText WITH
    Loads   <- {Clean(t) : t \in Docs} \cup {<<>>},
    Inserts <- {<<NL>>, [i \in 1 .. TabWidth |-> SP]} \cup {Clean(g) : g \in Glyph},
    text    <- Join(lines, <<NL>>),
    pos     <- Len(Join(SubSeq(lines, 1, row) \o <<Left>>, <<NL>>))

\* Lines and cursor together are a flat text with a position: whichever branch
\* of OnEvent cuts or joins lines, it inserts or erases exactly one piece at
\* the cursor, and a move changes no byte.
ImplementsFlatText == Flat!Spec

CursorVisible == scroll <= row /\ row < scroll + FrameRows

\* A key leaves the cursor on a row the next frame draws, if it was on one
\* before: only some branches of OnEvent call ensureCursorVisible, and with a
\* height that is not the one of Render.
FollowsKeys   == CursorVisible /\ KeyPress => CursorVisible'
ViewFollows   == [][FollowsKeys]_vars
=============================================================================
