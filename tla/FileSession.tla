------------------------------ MODULE FileSession -----------------------------
(***************************************************************************)
(* The worker's file tools over one file of one scope: read_file,          *)
(* edit_file and write_file, the proof of visibility their results carry,  *)
(* the leases that delivered results give, and the compare-and-swap that   *)
(* commits a mutation (pal_shell_worker/_file_core).                       *)
(*                                                                         *)
(* A digest names exactly one text, so a text stands for its digest.  A    *)
(* result is named by the operation that made it.  The registry lock is    *)
(* held for a whole operation and for a whole synchronisation; a foreign   *)
(* writer honours no lock and may write between any two steps of a tool.   *)
(* The revisions and tombstones of a synchronisation are the subject of    *)
(* FileAuthority; here the host's list changes by one result at a time.    *)
(***************************************************************************)
EXTENDS FileEdits

CONSTANTS
    Ops,          \* operation identifiers, 1 .. N in the order they are used
    InitialTexts, \* what the file may hold at first
    ForeignTexts, \* what another program may write
    Blocks,       \* block lists a read may ask for: sequences of <<first, last>>
    Batches,      \* edit batches
    WriteTexts,   \* what write_file may be given
    Windows,      \* pieces <<start, end>> of a rendered result that may be shown
    MaxForeign,   \* bound on foreign writes
    NoFile, None

(* Rendered lengths: of a line, of a patch and of the report before it.    *)
LineUnits == 2
PatchUnits == 3
ReportUnits == 1

VARIABLES
    disk,     \* the text on disk, or NoFile
    tool,     \* the operation that holds the registry lock, or None
    staged,   \* operation |-> manifest, results not yet retired
    live,     \* results in the host's context, in the order they came
    visible,  \* results the projected context shows
    leases,   \* the file leases of the scope's backend
    snapshot, \* the backend's file snapshot: [digest, source] or None
    used,     \* operations the worker's journal has admitted
    foreign,  \* number of foreign writes
    raced,    \* a foreign write fell behind the last check of the running swap
    history   \* the mutations that were applied (read by the properties only)

vars == <<disk, tool, staged, live, visible, leases, snapshot, used, foreign, raced, history>>
registry == <<staged, live, visible, leases, snapshot>>

-------------------------------------------------------------------------------
(* Manifests.                                                              *)

(* A piece of rendered text that shows lines first .. last: it lies at     *)
(* offset at and holds the units from .. to - 1 of length.                 *)
Span(first, last, at, length) ==
    [first |-> first, last |-> last, at |-> at, from |-> 0, to |-> length, length |-> length]

Manifest(digest, operation, spans) ==
    [digest |-> digest, operation |-> operation, spans |-> spans,
     empty |-> digest = << >>, complete |-> FALSE,
     before |-> None, inherited |-> {}, parents |-> {}]

(* The proof left when only the rendered text in [start, end) is shown:    *)
(* spans are clipped, and what rests on the whole result needs all of it.  *)
slice(m, start, end) ==
    LET Begin(s) == Max({s.at, start})
        End(s)   == Min({s.at + s.to - s.from, end})
        kept     == {s \in m.spans : Begin(s) < End(s)}
        full     == start = 0 /\ \A s \in m.spans : s.at + s.to - s.from <= end
    IN  [m EXCEPT
            !.spans = {[s EXCEPT !.at = Begin(s) - start,
                                 !.from = s.from + Begin(s) - s.at,
                                 !.to = s.from + End(s) - s.at] : s \in kept},
            !.empty = @ /\ full,
            !.complete = @ /\ full,
            !.inherited = IF full THEN @ ELSE {},
            !.parents = IF full /\ m.inherited # {} THEN @ ELSE {}]

Shows(m) == m.spans # {} \/ m.empty \/ m.complete \/ m.inherited # {}

(* Delivery can remove proof but cannot add it.                            *)
validate_proof(original, delivered) ==
    /\ delivered.digest = original.digest
    /\ delivered.operation = original.operation
    /\ delivered.before = original.before
    /\ delivered.empty => original.empty
    /\ delivered.complete => original.complete
    /\ delivered.inherited \in {{}, original.inherited}
    /\ delivered.parents \in {{}, original.parents}
    /\ \A s \in delivered.spans : \E t \in original.spans :
          /\ <<s.first, s.last, s.length>> = <<t.first, t.last, t.length>>
          /\ t.from <= s.from /\ s.from <= s.to /\ s.to <= t.to

-------------------------------------------------------------------------------
(* Leases and grants.                                                      *)

(* Single lines shown in part: <<line, length, unit>>.                     *)
Fragments(spans) ==
    UNION {{<<s.first, s.length, u>> : u \in s.from .. s.to - 1} :
              s \in {t \in spans : t.first = t.last /\ t.length > 0}}

(* The lines whose fragments add up to the whole line.                     *)
merge_line_fragments(fragments) ==
    {f[1] : f \in {g \in fragments :
        \A u \in 0 .. g[2] - 1 : <<g[1], g[2], u>> \in fragments}}

(* The lease a delivered manifest gives its result.                        *)
apply_delivery(rid, m) ==
    LET whole == {s \in m.spans : s.from <= 0 /\ s.to >= s.length}
        total == count_text_lines(m.digest)
    IN  [rid |-> rid, digest |-> m.digest, operation |-> m.operation, before |-> m.before,
         standalone |-> merge_ranges({<<s.first, s.last>> : s \in whole})
                          \cup merge_line_fragments(Fragments(m.spans))
                          \cup (IF m.complete THEN 1 .. total ELSE {}),
         fragments |-> Fragments(m.spans),
         inherited |-> m.inherited, parents |-> m.parents,
         empty |-> m.empty, complete |-> m.complete]

(* The snapshot a delivery leaves: a read of another text does not         *)
(* overwrite what a mutation wrote.                                        *)
DeliverySnapshot(snap, m) ==
    IF snap # None /\ snap.source = "mutation" /\ snap.digest # m.digest /\ m.operation = "read"
    THEN snap
    ELSE [digest |-> m.digest, source |-> IF m.operation = "read" THEN "delivery" ELSE "mutation"]

(* The lines of a text the seen leases cover together.  Inherited lines    *)
(* count only while every parent is held and seen, one of them for the     *)
(* text the edit started from.                                             *)
file_grant(held, seen, digest) ==
    LET active    == {l \in held : l.rid \in seen}
        selected  == {l \in active : l.digest = digest}
        Of(rid)   == {l \in active : l.rid = rid}
        inherits  == {l \in selected :
                        /\ l.parents # {}
                        /\ \A p \in l.parents : Of(p) # {}
                        /\ \E p \in l.parents : \E k \in Of(p) : k.digest = l.before}
        fragments == UNION {l.fragments : l \in selected}
    IN  [covered |-> UNION {l.standalone : l \in selected}
                       \cup UNION {l.inherited : l \in inherits}
                       \cup merge_line_fragments(fragments),
         empty |-> \E l \in selected : l.empty,
         fragments |-> fragments,
         results |-> {l.rid : l \in selected} \cup UNION {l.parents : l \in inherits}]

Granted(grant) == grant.covered # {} \/ grant.empty \/ grant.fragments # {}

Complete(grant, digest) ==
    IF count_text_lines(digest) = 0 THEN grant.empty
    ELSE 1 .. count_text_lines(digest) \subseteq grant.covered

Current == file_grant(leases, visible, disk)

(* The backend forgets what it holds of the file.                          *)
invalidate_file(when) ==
    /\ leases' = IF when THEN {} ELSE leases
    /\ snapshot' = IF when THEN None ELSE snapshot

set_file_snapshot(c) == snapshot' = [digest |-> c, source |-> "mutation"]

(* The registry starts an operation whose name is new to it.               *)
Execute(op) ==
    /\ tool = None
    /\ op = Cardinality(used) + 1
    /\ used' = used \cup {op}

(* The result of an operation is staged when it proves anything.           *)
Stage(op, m) == staged' = IF m = None THEN staged ELSE staged @@ (op :> m)

-------------------------------------------------------------------------------
Init ==
    /\ disk \in InitialTexts \cup {NoFile}
    /\ tool = None
    /\ staged = << >>
    /\ live = << >>
    /\ visible = Ops
    /\ leases = {}
    /\ snapshot = None
    /\ used = {}
    /\ foreign = 0
    /\ raced = FALSE
    /\ history = {}

(* Another program writes the file.                                        *)
ForeignWrite(c) ==
    /\ foreign < MaxForeign
    /\ c # disk
    /\ disk' = c
    /\ foreign' = foreign + 1
    /\ raced' = (raced \/ (tool # None /\ tool.pc = "checked"))
    /\ UNCHANGED <<tool, registry, used, history>>

-------------------------------------------------------------------------------
(* read_file.  The text is loaded once for rendering and once more to      *)
(* validate the leases.                                                    *)

ReadLoad(op, blocks) ==
    /\ Execute(op)
    /\ disk # NoFile
    /\ tool' = [pc |-> "loaded", op |-> op, raw |-> disk, blocks |-> blocks]
    /\ UNCHANGED <<disk, registry, foreign, raced, history>>

(* Blocks that start behind the end are skipped, ends are clamped.         *)
Normalized(c, blocks) ==
    LET total == count_text_lines(c)
    IN  [k \in DOMAIN SelectSeq(blocks, LAMBDA b : b[1] <= total) |->
            LET b == SelectSeq(blocks, LAMBDA x : x[1] <= total)[k]
            IN  <<b[1], Min({b[2], total})>>]

(* A block of a text is in view when the leases held cover its lines.      *)
covers(held, c, b) ==
    LET grant == file_grant(held, visible, c)
    IN  Granted(grant) /\ b[1] .. b[2] \subseteq grant.covered

(* Every block is in view already: the answer is the unchanged stub.       *)
Unchanged(held, c, blocks) ==
    LET wanted == Normalized(c, blocks)
    IN  /\ wanted # << >> /\ Len(wanted) = Len(blocks)
        /\ \A k \in DOMAIN wanted : covers(held, c, wanted[k])

(* The rendered text, one span per line, without the blocks in view when   *)
(* the caller asked for several.                                           *)
Rendered(held, c, blocks) ==
    LET wanted == Normalized(c, blocks)
        shown  == IF Len(blocks) > 1 THEN SelectSeq(wanted, LAMBDA b : ~covers(held, c, b)) ELSE wanted
        lines  == FlattenSeq([k \in DOMAIN shown |->
                      [i \in 1 .. shown[k][2] - shown[k][1] + 1 |-> shown[k][1] + i - 1]])
    IN  {Span(lines[i], lines[i], LineUnits * (i - 1), LineUnits) : i \in DOMAIN lines}

(* What an observation proves: nothing when the text was not rendered.     *)
ReadManifest(held, c, blocks) ==
    IF Unchanged(held, c, blocks) \/ (c # << >> /\ Normalized(c, blocks) = << >>) THEN None
    ELSE Manifest(c, "read", Rendered(held, c, blocks))

(* An observation of a text without a grant retires the backend's state    *)
(* when the snapshot or the lease with the greatest name is of another.    *)
(* Names are arbitrary, so any lease may have the greatest.                *)
retire_if_observed_digest_changed(c, last) ==
    LET named == {l.digest : l \in {k \in last : Granted(file_grant(leases, Ops, k.digest))}}
        known == named \cup (IF snapshot = None THEN {} ELSE {snapshot.digest})
    IN  known \notin {{}, {c}}

ReadAnswer ==
    /\ tool # None
    /\ tool.pc = "loaded"
    /\ \E last \in IF leases = {} THEN {{}} ELSE {{l} : l \in leases} :
       LET stale == /\ disk = NoFile \/ ~Granted(Current)
                    /\ retire_if_observed_digest_changed(tool.raw, last)
       IN  invalidate_file(stale)
    /\ Stage(tool.op, ReadManifest(leases', tool.raw, tool.blocks))
    /\ tool' = None
    /\ UNCHANGED <<disk, live, visible, used, foreign, raced, history>>

-------------------------------------------------------------------------------
(* edit_file and write_file plan against the text on disk under a current  *)
(* grant; a refused plan changes nothing.                                  *)

EditPlan(op, batch) ==
    /\ Execute(op)
    /\ disk # NoFile
    /\ Granted(Current)
    /\ LET reps == Replacements(disk, Current.covered, batch)
           new  == Compose(disk, reps)
       IN  /\ reps # {}
           /\ new # disk
           /\ tool' = [pc |-> "planned", op |-> op, kind |-> "edit", old |-> disk, new |-> new,
                       reps |-> reps, covered |-> Current.covered, parents |-> Current.results,
                       batch |-> batch]
    /\ raced' = FALSE
    /\ UNCHANGED <<disk, registry, foreign, history>>

(* Overwriting needs the whole current text in view; creating needs no     *)
(* file.                                                                   *)
require_current_snapshot == Granted(Current) /\ Complete(Current, disk)

WritePlan(op, c) ==
    /\ Execute(op)
    /\ disk # NoFile => require_current_snapshot
    /\ tool' = [pc |-> "planned", op |-> op, kind |-> "write", old |-> disk, new |-> c,
                reps |-> {}, covered |-> {}, parents |-> IF disk = NoFile THEN {} ELSE Current.results,
                batch |-> << >>]
    /\ raced' = FALSE
    /\ UNCHANGED <<disk, registry, foreign, history>>

(* What a failed commit gives up: an edit all it holds of the file, an     *)
(* overwrite only when the file turned out to have changed.                *)
EditForgets == tool.kind = "edit"
OverwriteForgets(changed) == tool.kind = "write" /\ tool.old # NoFile /\ changed

(* The temporary file cannot be written or renamed.                        *)
SwapFails ==
    /\ tool # None
    /\ tool.pc \in {"planned", "checked"}
    /\ invalidate_file(EditForgets \/ OverwriteForgets(FALSE))
    /\ tool' = None
    /\ UNCHANGED <<disk, staged, live, visible, used, foreign, raced, history>>

(* The last look at the pre-image, with the temporary file written.        *)
SwapChecks ==
    /\ tool # None
    /\ tool.pc = "planned"
    /\ \/ /\ disk = tool.old
          /\ tool' = [tool EXCEPT !.pc = "checked"]
          /\ UNCHANGED <<leases, snapshot>>
       \/ /\ disk # tool.old
          /\ tool' = None
          /\ invalidate_file(EditForgets \/ OverwriteForgets(TRUE))
    /\ UNCHANGED <<disk, staged, live, visible, used, foreign, raced, history>>

(* The manifest of an applied mutation.                                    *)
WriteManifest ==
    [Manifest(tool.new, "write",
        IF count_text_lines(tool.new) = 0 THEN {}
        ELSE {Span(1, count_text_lines(tool.new), 0, PatchUnits)})
       EXCEPT !.complete = TRUE, !.before = tool.old, !.parents = tool.parents]

EditManifest ==
    LET a == post_edit_authority(tool.old, tool.new, tool.reps, tool.covered)
    IN  [Manifest(tool.new, "edit",
            {Span(r[1], r[2], ReportUnits, PatchUnits) : r \in Runs(a.standalone)})
           EXCEPT !.before = tool.old, !.inherited = a.inherited, !.parents = tool.parents]

MutationManifest == IF tool.kind = "write" THEN WriteManifest ELSE EditManifest

(* The rename.  If the directory cannot be made durable behind it the tool *)
(* reports an error although the text is in place; an edit then gives up   *)
(* its leases.                                                             *)
SwapReplaces ==
    /\ tool # None
    /\ tool.pc = "checked"
    /\ disk' = tool.new
    /\ history' = history \cup {[op |-> tool.op, kind |-> tool.kind, old |-> tool.old,
                                 new |-> tool.new, reps |-> tool.reps]}
    /\ \/ /\ Stage(tool.op, MutationManifest)
          /\ set_file_snapshot(tool.new)
          /\ UNCHANGED leases
       \/ /\ invalidate_file(EditForgets \/ OverwriteForgets(FALSE))
          /\ UNCHANGED staged
    /\ tool' = None
    /\ UNCHANGED <<live, visible, used, foreign, raced>>

-------------------------------------------------------------------------------
(* A synchronisation builds the leases anew from the results in context.   *)
(* What leaves it, result or staged operation, never returns.              *)
sync(results, pending, seen) ==
    /\ live' = results
    /\ visible' = seen
    /\ leases' = {apply_delivery(e.rid, e.manifest) : e \in ToSet(results)}
    /\ snapshot' = FoldLeft(LAMBDA snap, e : DeliverySnapshot(snap, e.manifest), None, results)
    /\ LET keep == pending \cup {e.rid : e \in ToSet(results)}
       IN  staged' = [o \in DOMAIN staged \cap keep |-> staged[o]]
    /\ UNCHANGED <<disk, tool, used, foreign, raced, history>>

Pending == DOMAIN staged \ {e.rid : e \in ToSet(live)}

(* A result enters the context, whole or cut to a window.                  *)
Deliver(op, window) ==
    /\ tool = None
    /\ op \in Pending
    /\ LET m == slice(staged[op], window[1], window[2])
       IN  /\ Shows(m)
           /\ validate_proof(staged[op], m)
           /\ sync(Append(live, [rid |-> op, manifest |-> m]), Pending \ {op}, visible)

(* A result leaves the context, or never reached it.                       *)
Retire(rid) ==
    /\ tool = None
    /\ rid \in DOMAIN staged
    /\ sync(SelectSeq(live, LAMBDA e : e.rid # rid), Pending \ {rid}, visible)

(* The projection shows other results.                                     *)
Project(seen) ==
    /\ tool = None
    /\ live # << >>
    /\ seen # visible
    /\ sync(live, Pending, seen)

Next ==
    \/ \E c \in ForeignTexts : ForeignWrite(c)
    \/ \E op \in Ops : \/ \E blocks \in Blocks : ReadLoad(op, blocks)
                       \/ \E batch \in Batches : EditPlan(op, batch)
                       \/ \E c \in WriteTexts : WritePlan(op, c)
                       \/ Retire(op)
    \/ ReadAnswer
    \/ SwapFails \/ SwapChecks \/ SwapReplaces
    \/ \E op \in Pending, window \in Windows : Deliver(op, window)
    \/ Project(Ops)
    \/ \E e \in ToSet(live) : Project(Ops \ {e.rid})

Spec == Init /\ [][Next]_vars

-------------------------------------------------------------------------------
(* What the model really knows of a text, by what was put in front of it:  *)
(* a line is known when the results in view showed every part of it, when  *)
(* a patch in view shows it, when a write in view supplied it, or when it  *)
(* is an unchanged copy, under an edit in view, of a line known of the     *)
(* text before.  The definition uses neither leases nor grants.            *)

InView == {e \in ToSet(live) : e.rid \in visible}

(* The applied mutations whose report is in view, in one piece or in       *)
(* several.                                                                *)
Whole ==
    LET Units(h) == UNION {UNION {s.from .. s.to - 1 : s \in e.manifest.spans} :
                        e \in {x \in InView : /\ x.manifest.operation = h.kind
                                              /\ x.manifest.before = h.old
                                              /\ x.manifest.digest = h.new}}
    IN  {h \in history : \/ 0 .. PatchUnits - 1 \subseteq Units(h)
                         \/ \E e \in InView : e.rid = h.op /\ e.manifest.complete}

Texts == {e.manifest.digest : e \in ToSet(live)}
            \cup {h.new : h \in history}
            \cup {h.old : h \in {g \in history : g.old # NoFile}}

ShownWhole(c) ==
    LET reads == {e \in InView : e.manifest.operation = "read" /\ e.manifest.digest = c}
        units == UNION {Fragments(e.manifest.spans) : e \in reads}
    IN  {l \in 1 .. count_text_lines(c) : \A u \in 0 .. LineUnits - 1 : <<l, LineUnits, u>> \in units}

Known ==
    LET Direct(c) == ShownWhole(c)
            \cup UNION {IF h.kind = "write" THEN 1 .. count_text_lines(c)
                        ELSE Displayed(h.old, h.new, h.reps) : h \in {g \in Whole : g.new = c}}
        K[n \in 0 .. Cardinality(Whole)] ==
            IF n = 0 THEN [c \in Texts |-> Direct(c)]
            ELSE [c \in Texts |-> K[n - 1][c] \cup
                    UNION {{p[1] : p \in {q \in Copies(h.old, h.new, h.reps) : q[2] \in K[n - 1][h.old]}} :
                              h \in {g \in Whole : g.kind = "edit" /\ g.new = c}}]
    IN  K[Cardinality(Whole)]

(* Authority is never more than what was shown: whatever was read, edited, *)
(* cut, retired or hidden, and wherever edits moved the lines, the lines a *)
(* grant covers are lines the results in view show (file_grant,            *)
(* _apply_delivery, slice and _post_edit_authority together).              *)
GrantIsShown ==
    \A c \in Texts :
        file_grant(leases, visible, c).covered \cap 1 .. count_text_lines(c) \subseteq Known[c]

SameLine(x, y) == x = y \/ (x # << >> /\ Last(x) = CR /\ y = Append(x, LF))

Survive(old, lines, new) ==
    LET kept == SelectSeq([k \in 1 .. count_text_lines(old) |-> k], LAMBDA k : k \in lines)
        step(i, l) == IF i <= Len(kept) /\ SameLine(LineOf(old, kept[i]), LineOf(new, l))
                      THEN i + 1 ELSE i
    IN  FoldLeft(step, 1, [l \in 1 .. count_text_lines(new) |-> l]) = Len(kept) + 1

(* A tool never destroys text nobody showed: when a mutation is committed, *)
(* every line of the text then on disk that is not known survives, in      *)
(* order, unless another program wrote behind the last check, the gap the  *)
(* compare-and-swap documents.  (A lone CR may become CR LF: an edit at    *)
(* the start of the next line can supply the LF.)                          *)
UnreadSurvives ==
    [][history' # history /\ ~raced /\ disk # NoFile
       => LET known == IF disk \in Texts THEN Known[disk] ELSE {}
          IN  Survive(disk, (1 .. count_text_lines(disk)) \ known, disk')]_vars

Spliced(c, replacements) ==
    LET Inserted(o) == LET here == {x \in replacements : x.from = o}
                       IN  IF here = {} THEN << >> ELSE (CHOOSE x \in here : TRUE).text
        Kept(o) == IF o < Len(c) /\ ~\E x \in replacements : x.from <= o /\ o < x.to
                   THEN <<c[o + 1]>> ELSE << >>
    IN  FlattenSeq([o \in 1 .. Len(c) + 1 |-> Inserted(o - 1) \o Kept(o - 1)])

(* A planned batch is the batch that was asked for: the matches it         *)
(* replaces do not overlap, an edit it applies is applied at every match   *)
(* it has, the text between is untouched.                                  *)
EditIsExact ==
    tool # None /\ tool.pc # "loaded" /\ tool.kind = "edit" =>
        /\ \A x, y \in tool.reps : x # y => x.to <= y.from \/ y.to <= x.from
        /\ \A x \in tool.reps : match_offsets(tool.old, tool.batch[x.edit].old)
                                  = {y.from : y \in {z \in tool.reps : z.edit = x.edit}}
        /\ tool.new = Spliced(tool.old, tool.reps)

===============================================================================
