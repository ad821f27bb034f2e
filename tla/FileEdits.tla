------------------------------- MODULE FileEdits ------------------------------
(***************************************************************************)
(* Planning a batch of exact-text edits and the line authority its result  *)
(* carries (pal_shell_worker/_file_core/file_edit.py).                     *)
(*                                                                         *)
(* An edit is [old, new, all]: replace old by new, at every match when all *)
(* is set and at the only match otherwise.  A batch is a sequence of edits *)
(* planned against one pre-image; edits that cannot be applied fail by     *)
(* themselves and the others are applied together.  A replacement is       *)
(* [from, to, text, edit] with offsets into the pre-image.                 *)
(***************************************************************************)
EXTENDS LineText

(* The edits of a batch the tool accepts at all.                           *)
validate_edit(e) == e.old # << >> /\ e.old # e.new

(* Every occurrence, overlapping ones included.                            *)
match_offsets(c, old) ==
    {o \in 0 .. Len(c) - Len(old) : SubSeq(c, o + 1, o + Len(old)) = old}

(* An edit is planned when it has a match, has one only or replaces all,   *)
(* and every line a match can affect is covered.                           *)
plan_exact_edit(c, covered, e) ==
    LET matches == match_offsets(c, e.old)
    IN  /\ matches # {}
        /\ Cardinality(matches) > 1 => e.all
        /\ \A o \in matches : line_range_for_offsets(c, o, o + Len(e.old)) \subseteq covered

Planned(c, covered, batch) ==
    LET edits == {k \in DOMAIN batch :
                    validate_edit(batch[k]) /\ plan_exact_edit(c, covered, batch[k])}
    IN  UNION {{[from |-> o, to |-> o + Len(batch[k].old), text |-> batch[k].new, edit |-> k] :
                   o \in match_offsets(c, batch[k].old)} : k \in edits}

Overlap(x, y) == x # y /\ x.from < y.to /\ y.from < x.to

(* Mutant: an edit may overlap itself.                                     *)
OverlapOfOthers(planned) ==
    {x.edit : x \in {y \in planned : \E z \in planned : Overlap(y, z) /\ y.edit # z.edit}}

(* The edits one of whose replacements overlaps another replacement, of    *)
(* the same edit or of another, all of which fail.                         *)
overlapping_edits(planned) ==
    {x.edit : x \in {y \in planned : \E z \in planned : Overlap(y, z)}}

Replacements(c, covered, batch) ==
    LET planned == Planned(c, covered, batch)
        failed  == overlapping_edits(planned)
    IN  {x \in planned : x.edit \notin failed}

Sorted(replacements) == SetToSortSeq(replacements, LAMBDA x, y : x.from < y.from)

(* The post-image: the gaps between the matches with the replacement texts *)
(* between them.                                                           *)
Compose(c, replacements) ==
    LET step(acc, x) == [text |-> acc.text \o SubSeq(c, acc.cursor + 1, x.from) \o x.text,
                         cursor |-> x.to]
        all == FoldLeft(step, [text |-> << >>, cursor |-> 0], Sorted(replacements))
    IN  all.text \o SubSeq(c, all.cursor + 1, Len(c))

(* How far the replacements in front of an offset shift it.                *)
ShiftAt(replacements, offset) ==
    LET before == {x \in replacements : x.to <= offset}
    IN  FoldSet(LAMBDA x, sum : sum + Len(x.text) - (x.to - x.from), 0, before)

(* Mutant: a run of unchanged lines keeps its line numbers.                *)
AuthorityUnshifted(old, new, replacements, covered) ==
    LET affected == UNION {line_range_for_offsets(old, x.from, x.to) : x \in replacements}
        NewRange(x) == LET start == x.from + ShiftAt(replacements, x.from)
                       IN  line_range_for_offsets(new, start, start + Len(x.text))
    IN  [standalone |-> UNION {NewRange(x) : x \in replacements},
         inherited  |-> (covered \ affected) \cap 1 .. count_text_lines(new)]

(* The lines of the post-image the result vouches for by itself (the ones  *)
(* its replacements touch) and the covered lines they leave alone, moved   *)
(* to where they are now: a run of lines moves as a block, by the offset   *)
(* of its first line.                                                      *)
post_edit_authority(old, new, replacements, covered) ==
    LET affected == UNION {line_range_for_offsets(old, x.from, x.to) : x \in replacements}
        NewRange(x) == LET start == x.from + ShiftAt(replacements, x.from)
                       IN  line_range_for_offsets(new, start, start + Len(x.text))
        Moved(run) == LET at    == LineStart(old, run[1])
                          first == line_number_at_offset(new, at + ShiftAt(replacements, at))
                      IN  <<first, first + run[2] - run[1]>>
    IN  [standalone |-> UNION {NewRange(x) : x \in replacements},
         inherited  |-> merge_ranges({Moved(run) : run \in Runs(covered \ affected)})]

-------------------------------------------------------------------------------
(* Reference definitions, by characters: where each character of the       *)
(* post-image comes from, 0 for inserted text and otherwise its position   *)
(* in the pre-image.                                                       *)

Provenance(c, replacements) ==
    LET Inserted(o) == LET here == {x \in replacements : x.from = o}
                       IN  IF here = {} THEN << >>
                           ELSE [i \in 1 .. Len((CHOOSE x \in here : TRUE).text) |-> 0]
        Kept(o) == IF o < Len(c) /\ ~\E x \in replacements : x.from <= o /\ o < x.to
                   THEN <<o + 1>> ELSE << >>
    IN  FlattenSeq([o \in 1 .. Len(c) + 1 |-> Inserted(o - 1) \o Kept(o - 1)])

(* Line l of the post-image is line k of the pre-image, character by       *)
(* character.                                                              *)
CopyOf(old, new, replacements, l, k) ==
    SubSeq(Provenance(old, replacements), LineStart(new, l) + 1, LineEnd(new, l))
        = [i \in 1 .. LineEnd(old, k) - LineStart(old, k) |-> LineStart(old, k) + i]

Copies(old, new, replacements) ==
    {<<l, k>> \in (1 .. count_text_lines(new)) \X (1 .. count_text_lines(old)) :
        CopyOf(old, new, replacements, l, k)}

(* The lines a patch must show: those that are not copies, those at a      *)
(* place where text was cut out, and the line behind each.                 *)
Displayed(old, new, replacements) ==
    LET lines   == 1 .. count_text_lines(new)
        copied  == {p[1] : p \in Copies(old, new, replacements)}
        cuts    == {line_number_at_offset(new, x.from + ShiftAt(replacements, x.from)) :
                       x \in {y \in replacements : y.text = << >>}}
        changed == (lines \ copied) \cup (lines \cap cuts)
    IN  {l \in lines : l \in changed \/ l - 1 \in changed}

===============================================================================
