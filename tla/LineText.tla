------------------------------- MODULE LineText -------------------------------
(***************************************************************************)
(* Logical lines of a text, as the file tools count them                   *)
(* (pal_shell_worker/_file_core/file_state.py).  A text is a sequence of   *)
(* characters, an offset counts the characters in front of it, lines are   *)
(* numbered from 1 and keep their terminator.  Every line boundary of      *)
(* splitlines is represented by LF; CR is apart because CR LF is one       *)
(* boundary.                                                               *)
(*                                                                         *)
(* The tools keep line coverage as sorted, disjoint ranges that are never  *)
(* adjacent.  Such a list is determined by the set of lines it covers and  *)
(* a range is inside it exactly when its lines are in the set, so coverage *)
(* is modelled as a set of lines and merging ranges as their union.        *)
(***************************************************************************)
EXTENDS Integers, FiniteSets, FiniteSetsExt, Sequences, SequencesExt

LF == "\n"
CR == "\r"

(* splitlines(keepends=True): a line starts at offset 0 of a text that is  *)
(* not empty and behind every boundary that is not the end of the text.    *)
text_line_starts(c) ==
    {o \in 0 .. Len(c) - 1 :
        \/ o = 0
        \/ c[o] = LF
        \/ c[o] = CR /\ c[o + 1] # LF}

count_text_lines(c) == Cardinality(text_line_starts(c))

(* The line an insertion point is in; the end of the text belongs to the   *)
(* last line, and the empty text has the insertion point of line 1.        *)
line_number_at_offset(c, offset) ==
    Max({1, Cardinality({o \in text_line_starts(c) : o <= offset})})

(* The offset at which line k starts, and the text of the line.            *)
LineStart(c, k) ==
    CHOOSE o \in text_line_starts(c) : line_number_at_offset(c, o) = k

LineEnd(c, k) == IF k = count_text_lines(c) THEN Len(c) ELSE LineStart(c, k + 1)

LineOf(c, k) == SubSeq(c, LineStart(c, k) + 1, LineEnd(c, k))

(* Mutant: a match that swallows a terminator does not count the line it   *)
(* joins.                                                                  *)
RangeOfMatchOnly(c, start, end) ==
    line_number_at_offset(c, start) ..
        line_number_at_offset(c, IF end = start THEN start ELSE end - 1)

(* The lines an interval of characters can affect: the lines it meets and, *)
(* when it ends behind a line's terminator, the line that follows, which   *)
(* losing the terminator would join.                                       *)
line_range_for_offsets(c, start, end) ==
    LET last == CASE end = start                -> start
                  [] end \in text_line_starts(c) -> end
                  [] OTHER                      -> end - 1
    IN  line_number_at_offset(c, start) .. line_number_at_offset(c, last)

(* The coverage of a set of ranges <<first, last>>.                        *)
merge_ranges(ranges) == UNION {r[1] .. r[2] : r \in ranges}

(* The ranges of a coverage: its maximal runs of lines.                    *)
Runs(lines) ==
    {<<a, b>> \in lines \X lines :
        /\ a .. b \subseteq lines
        /\ a - 1 \notin lines
        /\ b + 1 \notin lines}

===============================================================================
