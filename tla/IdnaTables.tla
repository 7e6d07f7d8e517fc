----------------------------- MODULE IdnaTables -----------------------------
(***************************************************************************)
(* How build.rs makes the tables of code points that the IDNA checks look  *)
(* up: rows of the vendored Unicode files are sorted into sections and     *)
(* merged, an overlay adds and removes ranges section by section, and the  *)
(* result is validated and written.  A failed assertion ends the build.    *)
(***************************************************************************)
EXTENDS Naturals, Sequences, FiniteSets
LOCAL INSTANCE SequencesExt
LOCAL INSTANCE FiniteSetsExt

CONSTANTS
  Point,        \* the code points, 0..n
  Section,      \* the sections every build must have (SECTIONS)
  Status,       \* the statuses and properties the rows have
  OverlayName,  \* the section names an overlay file may use
  MaxRows, MaxNamed, MaxOps

VARIABLES
  phase,   \* "ucd", "overlay", "validate", "written" or "panic"
  rows,    \* the rows read so far: [lo, hi, status]
  named,   \* the sections the overlay has opened, the current one last
  ops,     \* the overlay lines read so far: [section, remove, lo, hi]
  tables   \* the ranges of each section

vars == <<phase, rows, named, ops, tables>>

Ranges == {r \in [lo : Point, hi : Point] : r.lo <= r.hi}

-----------------------------------------------------------------------------
(* Lists of inclusive ranges, as build.rs merges and subtracts them and    *)
(* unicode_ranges.rs searches them.                                        *)

Span(lo, hi) == [lo |-> lo, hi |-> hi]

(* The code points a list of ranges stands for.                            *)
Covered(ranges) == UNION {r.lo..r.hi : r \in ToSet(ranges)}

SortedByLow(ranges) == SortSeq(ranges, LAMBDA a, b : a.lo < b.lo)

(* One round of the loop of merge_ranges; the last range of `merged` is    *)
(* `cur`.                                                                  *)
Coalesced(merged, r) ==
  IF merged # <<>> /\ r.lo <= Last(merged).hi + 1
  THEN [merged EXCEPT ![Len(merged)].hi = Max({@, r.hi})]
  ELSE Append(merged, r)

(* merge_ranges                                                            *)
MergeRanges(ranges) == FoldLeft(Coalesced, <<>>, SortedByLow(ranges))

(* is_strictly_sorted_disjoint                                             *)
IsStrictlySortedDisjoint(ranges) ==
  \A i \in 1..Len(ranges) - 1 :
    ranges[i].lo <= ranges[i].hi /\ ranges[i].hi + 1 < ranges[i + 1].lo

CutOneShort(piece, r, hi) ==   \* mutant: the gap keeps the first removed point
  [out |-> IF r.lo > piece.cursor THEN Append(piece.out, Span(piece.cursor, Min({r.lo, hi})))
           ELSE piece.out,
   cursor |-> IF r.hi >= hi THEN hi + 1 ELSE r.hi + 1]

(* One round of the inner loop of subtract_ranges: what lies between the   *)
(* cursor and the removed range r is kept, and the cursor moves behind r.  *)
Cut(piece, r, hi) ==
  [out |-> IF r.lo > piece.cursor
           THEN Append(piece.out, Span(piece.cursor, Min({r.lo - 1, hi}))) ELSE piece.out,
   cursor |-> IF r.hi >= hi THEN hi + 1 ELSE r.hi + 1]

(* The rest of the range `base` once the ranges that reach into it are cut *)
(* out; `remove` is sorted, so the others lie before or behind it.         *)
Remainder(base, remove) ==
  LET reach == SelectSeq(remove, LAMBDA r : r.hi >= base.lo /\ r.lo <= base.hi)
      cut   == FoldLeft(LAMBDA piece, r : IF piece.cursor > base.hi THEN piece
                                          ELSE Cut(piece, r, base.hi),
                        [out |-> <<>>, cursor |-> base.lo], reach)
  IN IF cut.cursor <= base.hi THEN Append(cut.out, Span(cut.cursor, base.hi)) ELSE cut.out

(* subtract_ranges                                                         *)
SubtractRanges(base, remove) ==
  IF base = <<>> \/ remove = <<>> THEN base
  ELSE MergeRanges(FlattenSeq([i \in DOMAIN base |-> Remainder(base[i], remove)]))

(* in_range_table: the binary search finds the last range that starts at   *)
(* or before the code point.                                               *)
InRangeTable(cp, table) ==
  LET i == Cardinality({k \in DOMAIN table : table[k].lo <= cp})
  IN i > 0 /\ cp <= table[i].hi
-----------------------------------------------------------------------------
(* The sections a row goes to: the statuses of IdnaMappingTable.txt, and   *)
(* the values of the other three files that derive_from_ucd collects.      *)
Feeds(status) ==
  CASE status = "disallowed"           -> {"disallowed"}
    [] status = "ignored"              -> {"uts46_ignored", "uts46_needs_map"}
    [] status = "mapped"               -> {"uts46_needs_map"}
    [] status = "mapped to a space"    -> {"uts46_needs_map", "nfkc_via_space"}
    [] status \in {"EN", "AN"}         -> {"bidi_numbers"}
    [] status = "joining"              -> {"joining_letters"}
    [] status = "RTL script"           -> {"rtl_alphabetic"}
    [] status = "LTR script"           -> {"ltr_letters"}
    [] OTHER                           -> {}

Plain(r) == Span(r.lo, r.hi)

Pushed(section) ==
  LET fed == SelectSeq(rows, LAMBDA r : section \in Feeds(r.status))
  IN [i \in DOMAIN fed |-> Plain(fed[i])]

OpsOf(section, remove) ==
  LET own == SelectSeq(ops, LAMBDA o : o.section = section /\ o.remove = remove)
  IN [i \in DOMAIN own |-> Plain(own[i])]

(* merge_overlay for one section: all its additions, then all its removals, *)
(* whatever their order in the file.                                       *)
Overlaid(section, ranges) ==
  LET adds    == OpsOf(section, FALSE)
      removes == OpsOf(section, TRUE)
      added   == IF adds = <<>> THEN ranges ELSE MergeRanges(ranges \o adds)
  IN IF removes = <<>> THEN added ELSE SubtractRanges(added, MergeRanges(removes))
-----------------------------------------------------------------------------
Init == phase = "ucd" /\ rows = <<>> /\ named = <<>> /\ ops = <<>> /\ tables = [s \in {} |-> <<>>]

ReadRow == /\ phase = "ucd" /\ Len(rows) < MaxRows
           /\ \E r \in Ranges, status \in Status :
                rows' = Append(rows, [lo |-> r.lo, hi |-> r.hi, status |-> status])
           /\ UNCHANGED <<phase, named, ops, tables>>

(* derive_from_ucd: sections that no row feeds start empty.                *)
Derive == /\ phase = "ucd"
          /\ phase' = "overlay"
          /\ tables' = [s \in Section |-> MergeRanges(Pushed(s))]
          /\ UNCHANGED <<rows, named, ops>>

OpenSection == /\ phase = "overlay" /\ Len(named) < MaxNamed
               /\ \E name \in OverlayName : named' = Append(named, name)
               /\ UNCHANGED <<phase, rows, ops, tables>>

(* A line of the overlay; an inverted range, or a range before the first   *)
(* section, is a panic.                                                    *)
ReadRange ==
  /\ phase = "overlay" /\ Len(ops) < MaxOps
  /\ \E remove \in BOOLEAN, lo, hi \in Point :
       IF named = <<>> \/ lo > hi THEN phase' = "panic" /\ UNCHANGED ops
       ELSE /\ ops' = Append(ops, [section |-> named[Len(named)], remove |-> remove,
                                   lo |-> lo, hi |-> hi])
            /\ UNCHANGED phase
  /\ UNCHANGED <<rows, named, tables>>

MergeOverlay ==
  LET opened == {named[i] : i \in DOMAIN named}
  IN /\ phase = "overlay"
     /\ phase' = "validate"
     /\ tables' = [s \in DOMAIN tables \cup opened |->
                     Overlaid(s, IF s \in DOMAIN tables THEN tables[s] ELSE <<>>)]
     /\ UNCHANGED <<rows, named, ops>>

(* validate_required_sections, then write_static_table.                    *)
Write == /\ phase = "validate"
         /\ phase' = IF DOMAIN tables = Section /\ \A s \in Section : tables[s] # <<>>
                     THEN "written" ELSE "panic"
         /\ UNCHANGED <<rows, named, ops, tables>>

Next == ReadRow \/ Derive \/ OpenSection \/ ReadRange \/ MergeOverlay \/ Write

Spec == Init /\ [][Next]_vars
-----------------------------------------------------------------------------
(* What the input files say a section holds.                               *)
Meant(section) ==
  (UNION {rows[i].lo..rows[i].hi : i \in {j \in DOMAIN rows : section \in Feeds(rows[j].status)}}
     \cup Covered(OpsOf(section, FALSE)))
  \ Covered(OpsOf(section, TRUE))

(* A lookup in a written table answers what the files say of the code      *)
(* point: nothing is lost or gained by sorting, merging, cutting and the   *)
(* binary search.  And a code point that is ignored is also in the table   *)
(* that makes to_ascii run the mapping at all, unless the overlay says     *)
(* otherwise: the fast path would keep it in the host.                     *)
LookupsAreMeant == phase = "written" =>
  /\ \A s \in Section, cp \in Point : InRangeTable(cp, tables[s]) <=> cp \in Meant(s)
  /\ ops = <<>> => \A cp \in Point : InRangeTable(cp, tables["uts46_ignored"])
                                        => InRangeTable(cp, tables["uts46_needs_map"])
=============================================================================
