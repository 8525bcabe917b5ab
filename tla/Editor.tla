------------------------------- MODULE Editor -------------------------------
(***************************************************************************)
(* The text editor (src/ui/text_editor.c): a growing buffer with a cursor, *)
(* the line and column of the cursor, the lines in sight, and the file the *)
(* buffer was loaded from.  Characters are "nl" and members of EdChar; a   *)
(* position counts the characters before it, as in the code.  AMFS is seen *)
(* through what amfs_exists, amfs_read and amfs_write return; their model  *)
(* is Amfs.  The status line is left out: ed_draw overwrites each message  *)
(* before compositor_render shows it.                                      *)
(***************************************************************************)
EXTENDS Integers, Sequences, SequencesExt, FiniteSetsExt

CONSTANTS EdChar,     \* printable characters
          EdCapacity, \* the first buffer (1024)
          EdRead,     \* characters ed_load reads at most (4095)
          EdRows, EdCols,
          EdFiles,    \* contents a file may have; NoFile: there is none
          EdMax       \* bound: the length of the text

VARIABLES ed,         \* [data, cursor, capacity, scroll_y, cx, cy, dirty]
          edPc,       \* closed | editing | confirm | hung | overrun
          edFile,
          edKept,     \* history: the text as loaded or as last saved
          edNoMemory  \* history: a malloc failed

edVars == <<ed, edPc, edFile, edKept, edNoMemory>>

NoFile == <<"no file">>
Grows(ok) == edNoMemory' = (edNoMemory \/ ~ok)
-----------------------------------------------------------------------------
ed_line_start(d, pos) == Max({p \in 0..pos : p = 0 \/ d[p] = "nl"})
ed_line_end(d, pos) == Min({p \in pos..Len(d) : p = Len(d) \/ d[p + 1] = "nl"})
ed_prev_line_start(d, pos) ==
    LET start == ed_line_start(d, pos) IN IF start = 0 THEN 0 ELSE ed_line_start(d, start - 1)
ed_next_line_start(d, pos) ==
    LET end == ed_line_end(d, pos) IN IF end >= Len(d) THEN Len(d) ELSE end + 1

\* ed_update_cx_cy: the newlines before the start of the cursor's line.
ed_update_cx_cy(e) ==
    LET start == ed_line_start(e.data, e.cursor)
    IN  [e EXCEPT !.cx = e.cursor - start,
                  !.cy = Len(SelectSeq(SubSeq(e.data, 1, start), LAMBDA c : c = "nl"))]

\* The plausible slip: the last row counts as out of sight one line late.
ed_ensure_visible_Late(e) ==
    IF e.cy < e.scroll_y THEN [e EXCEPT !.scroll_y = e.cy]
    ELSE IF e.cy > e.scroll_y + EdRows THEN [e EXCEPT !.scroll_y = e.cy - EdRows + 1] ELSE e

ed_ensure_visible(e) ==
    IF e.cy < e.scroll_y THEN [e EXCEPT !.scroll_y = e.cy]
    ELSE IF e.cy >= e.scroll_y + EdRows THEN [e EXCEPT !.scroll_y = e.cy - EdRows + 1] ELSE e

At(e, pos) == ed_ensure_visible(ed_update_cx_cy([e EXCEPT !.cursor = pos]))

\* The new line's column, cut to the length of the line.
Column(e, line) ==
    LET offset == e.cursor - ed_line_start(e.data, e.cursor)
        length == ed_line_end(e.data, line) - line
    IN  line + (IF offset > length THEN length ELSE offset)
ed_cursor_up(e) ==
    LET prev == ed_prev_line_start(e.data, e.cursor)
    IN  IF prev = e.cursor THEN e ELSE At(e, Column(e, prev))
ed_cursor_down(e) ==
    LET next == ed_next_line_start(e.data, e.cursor)
    IN  IF next = Len(e.data) /\ e.cursor = Len(e.data) THEN e ELSE At(e, Column(e, next))
ed_cursor_left(e) == IF e.cursor > 0 THEN At(e, e.cursor - 1) ELSE e
ed_cursor_right(e) == IF e.cursor < Len(e.data) THEN At(e, e.cursor + 1) ELSE e
ed_cursor_home(e) == At(e, ed_line_start(e.data, e.cursor))
ed_cursor_end(e) == At(e, ed_line_end(e.data, e.cursor))
ed_delete(e) ==
    IF e.cursor = 0 THEN e
    ELSE At([e EXCEPT !.data = RemoveAt(@, e.cursor), !.dirty = TRUE], e.cursor - 1)

\* ed_grow doubles the capacity until it suffices; without memory it returns as
\* if it had, and a capacity of 0 is doubled for ever.
ed_grow(capacity, needed, ok) ==
    LET Doubled[n \in 0..needed] ==
            IF n = 0 THEN capacity ELSE IF Doubled[n - 1] >= needed THEN Doubled[n - 1] ELSE 2 * Doubled[n - 1]
    IN  IF ok THEN Doubled[needed] ELSE capacity
Hangs(capacity, needed) == capacity = 0 /\ needed > 0
-----------------------------------------------------------------------------
EdInit ==
    /\ ed = [data |-> <<>>, cursor |-> 0, capacity |-> 0, scroll_y |-> 0, cx |-> 0, cy |-> 0, dirty |-> FALSE]
    /\ edPc = "closed" /\ edFile \in EdFiles /\ edKept = <<>> /\ edNoMemory = FALSE

\* amity_run up to its loop: ed_init, then ed_load, which reads the beginning of
\* a file that exists; a file that cannot be read leaves the buffer empty.
amity_run(initOk, readOk, growOk) ==
    LET capacity == IF initOk THEN EdCapacity ELSE 0
        read == edFile # NoFile /\ readOk
        text == IF read THEN SubSeq(edFile, 1, Min({Len(edFile), EdRead})) ELSE <<>>
        grown == ed_grow(capacity, Len(text) + 1, growOk)
    IN  /\ edPc = "closed" /\ Grows(initOk /\ (growOk \/ ~read \/ Len(text) < capacity))
        /\ ed' = [data |-> text, cursor |-> 0, capacity |-> IF read THEN grown ELSE capacity,
                  scroll_y |-> 0, cx |-> 0, cy |-> 0, dirty |-> FALSE]
        /\ edPc' = IF read /\ Hangs(capacity, Len(text) + 1) THEN "hung"
                   ELSE IF read /\ grown < Len(text) + 1 THEN "overrun" ELSE "editing"
        /\ edKept' = text /\ UNCHANGED edFile

\* A key that moves the cursor or deletes.
Moves == {ed_cursor_up(ed), ed_cursor_down(ed), ed_cursor_left(ed), ed_cursor_right(ed),
          ed_cursor_home(ed), ed_cursor_end(ed), ed_delete(ed)}
MoveKey ==
    /\ edPc = "editing" /\ ed' \in Moves
    /\ UNCHANGED <<edPc, edFile, edKept, edNoMemory>>

\* ed_insert: the text and its terminator move up by one in a buffer that should
\* have grown to Len + 2.
ed_insert(c, ok) ==
    LET needed == Len(ed.data) + 2
        capacity == ed_grow(ed.capacity, needed, ok)
    IN  /\ edPc = "editing" /\ Len(ed.data) < EdMax /\ Grows(ok \/ needed <= ed.capacity)
        /\ edPc' = IF Hangs(ed.capacity, needed) THEN "hung"
                   ELSE IF capacity < needed THEN "overrun" ELSE "editing"
        /\ ed' = IF edPc' # "editing" THEN ed
                 ELSE At([ed EXCEPT !.data = InsertAt(@, ed.cursor + 1, c), !.capacity = capacity, !.dirty = TRUE],
                         ed.cursor + 1)
        /\ UNCHANGED <<edFile, edKept>>

\* ed_save: nothing without changes; amfs_write refuses an empty text and, when it
\* fails half way, has already cut the file to nothing.
ed_save(writeOk) ==
    /\ edPc = "editing" /\ ed.dirty
    /\ IF writeOk /\ ed.data # <<>>
       THEN edFile' = ed.data /\ edKept' = ed.data /\ ed' = [ed EXCEPT !.dirty = FALSE]
       ELSE edFile' \in {edFile, <<>>} /\ UNCHANGED <<ed, edKept>>
    /\ UNCHANGED <<edPc, edNoMemory>>

\* Ctrl+Q: with changes the next key decides; any other key is swallowed.
Quit ==
    /\ edPc = "editing" /\ edPc' = IF ed.dirty THEN "confirm" ELSE "closed"
    /\ UNCHANGED <<ed, edFile, edKept, edNoMemory>>
Confirm ==
    /\ edPc = "confirm" /\ edPc' \in {"closed", "editing"}
    /\ UNCHANGED <<ed, edFile, edKept, edNoMemory>>

EdNext ==
    \/ \E initOk, readOk, growOk \in BOOLEAN : amity_run(initOk, readOk, growOk)
    \/ MoveKey
    \/ \E c \in EdChar \union {"nl"}, ok \in BOOLEAN : ed_insert(c, ok)
    \/ \E ok \in BOOLEAN : ed_save(ok)
    \/ Quit \/ Confirm
-----------------------------------------------------------------------------
\* ed_draw: the loop over the text, one turn per line from the first; past the
\* end of the text it goes on with empty lines until the rows are full.
ed_draw ==
    LET d == ed.data
        Turn[n \in 0..(Len(d) + EdRows + 1)] ==
            IF n = 0 THEN [pos |-> 0, shown |-> <<>>, marks |-> <<>>]
            ELSE LET t == Turn[n - 1]
                     line == n - 1
                     end == ed_line_end(d, t.pos)
                 IN  IF Len(t.shown) = EdRows THEN t
                     ELSE [pos |-> IF end < Len(d) THEN end + 1 ELSE Len(d),
                           shown |-> IF line < ed.scroll_y THEN t.shown
                                     ELSE Append(t.shown, SubSeq(d, t.pos + 1, Min({end, t.pos + EdCols}))),
                           marks |-> IF line < ed.scroll_y \/ line # ed.cy THEN t.marks
                                     ELSE Append(t.marks, <<Len(t.shown), Min({ed.cx, EdCols - 1})>>)]
    IN  Turn[Len(d) + EdRows + 1]

\* The text cut at its newlines: what a user takes the text for.
Lines(d) ==
    LET Cut[n \in 0..Len(d)] ==
            IF n = 0 THEN <<<<>>>>
            ELSE IF d[n] = "nl" THEN Append(Cut[n - 1], <<>>)
            ELSE Append(Front(Cut[n - 1]), Append(Last(Cut[n - 1]), d[n]))
    IN  Cut[Len(d)]

\* However keys, failing allocations and failing writes follow each other
\* (src/ui/text_editor.c): cy and cx say in which line of the text the cursor is
\* and where; the editor draws the lines from scroll_y on, and the cursor's line is
\* among them, marked once; the text and its terminator fit in the buffer, which is
\* overrun or grown for ever only after a malloc failed; and a text not marked dirty,
\* which Ctrl+Q drops without asking, is the one loaded or last saved.
EditorSound ==
    /\ edPc \in {"hung", "overrun"} => edNoMemory
    /\ edPc \in {"editing", "confirm"} =>
          /\ ed.capacity # 0 => Len(ed.data) < ed.capacity
          /\ ~ed.dirty => ed.data = edKept
          /\ \A lines \in {Lines(ed.data)}, drawn \in {ed_draw} :
                /\ ed.cy + 1 \in DOMAIN lines /\ ed.cx \in 0..Len(lines[ed.cy + 1])
                /\ SubSeq(ed.data, 1, ed.cursor) =
                      FlattenSeq([i \in 1..ed.cy |-> Append(lines[i], "nl")]) \o SubSeq(lines[ed.cy + 1], 1, ed.cx)
                /\ Len(drawn.marks) = 1 /\ Len(drawn.shown) = EdRows
                /\ \A i \in 1..EdRows : drawn.shown[i] =
                      IF ed.scroll_y + i \in DOMAIN lines
                      THEN SubSeq(lines[ed.scroll_y + i], 1, Min({EdCols, Len(lines[ed.scroll_y + i])}))
                      ELSE <<>>
=============================================================================
