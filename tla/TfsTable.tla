------------------------------ MODULE TfsTable -------------------------------
(***************************************************************************)
(* The sector table of a TFS4 control header (src/tfs.c): lists of sectors *)
(* linked by number, one of them the free list, and what tfs4_patch does   *)
(* to the free list when it cleans blocks or takes one for control.        *)
(*                                                                         *)
(* A header is [free, last, fctrl, type, next]: the first and last free    *)
(* sector, the next control sector, and sect_tbl by column.                *)
(***************************************************************************)
EXTENDS Integers, Sequences, FiniteSets, SequencesExt

CONSTANTS BlockSize,     \* sectors per erase block; 256
          NumBlocks,     \* blocks of the TFS area; 120
          Nil            \* 0xfffc, the end of a list of sectors

ASSUME TableAssumption ==
  /\ BlockSize \in Nat \ {0} /\ NumBlocks \in Nat /\ NumBlocks >= 3
  /\ Nil \notin 0 .. BlockSize * NumBlocks

NumSects == BlockSize * NumBlocks
Sectors == 0 .. NumSects - 1
BlockOf(s) == s \div BlockSize
SectorsOf(b) == b * BlockSize .. (b + 1) * BlockSize - 1
FirstOf(b) == b * BlockSize
LastOf(b) == (b + 1) * BlockSize - 1

LeastOf(S) == CHOOSE x \in S : \A y \in S : x <= y
GreatestOf(S) == CHOOSE x \in S : \A y \in S : x >= y
\* The numbers in S, the least first (SetToSortSeq ends in SortSeq of module TLC,
\* which TLAPS has no facts about).
Ascending(S) == [k \in 1 .. Cardinality(S) |->
                   CHOOSE s \in S : Cardinality({t \in S : t < s}) = k - 1]

\* The sectors from s on, in order, for as many steps as there are sectors.
Walk(next, s) ==
  LET to[k \in 0 .. NumSects] ==
        IF k = 0 THEN s
        ELSE LET t == to[k - 1] IN IF t \in Sectors THEN next[t] ELSE t
  IN to
Reach(next, s) ==
  LET to == Walk(next, s) IN {to[k] : k \in 0 .. NumSects} \cap Sectors
Ends(next, s) == Walk(next, s)[NumSects] = Nil

Firsts(h) == {s \in Sectors : h.type[s] = "first"}
FreeSectors(h) == {s \in Sectors : h.type[s] = "free"}

\* init_ctrl_header: block 0 is not used, the control chain starts in block 1.
FreshHeader ==
  [free |-> FirstOf(2), last |-> NumSects - 1, fctrl |-> FirstOf(1),
   type |-> [s \in Sectors |-> IF s >= FirstOf(2) THEN "free" ELSE "unused"],
   next |-> [s \in Sectors |-> IF s = NumSects - 1 THEN Nil
                               ELSE IF s >= FirstOf(2) THEN s + 1 ELSE 0]]

\* update_last_free_sect
WithLast(h) ==
  LET ends == {s \in FreeSectors(h) : h.next[s] = Nil}
  IN IF ends = {} THEN h ELSE [h EXCEPT !.last = LeastOf(ends)]

(* flash_clean, once for each block find_dirty_block finds.                 *)
Dirty(m) == {b \in 0 .. NumBlocks - 1 : \E s \in SectorsOf(b) : m[s] = 0}
CleanMarks(m) == [s \in Sectors |-> IF BlockOf(s) \in Dirty(m) THEN 255 ELSE m[s]]
Cleaned(h, m) ==
  LET D == Dirty(m)
      final == GreatestOf(D)
      link(s) == IF s # LastOf(BlockOf(s)) THEN s + 1
                 ELSE IF BlockOf(s) = final THEN Nil
                 ELSE FirstOf(LeastOf({b \in D : b > BlockOf(s)}))
  IN [h EXCEPT !.type = [s \in Sectors |-> IF BlockOf(s) \in D THEN "free" ELSE h.type[s]],
               !.next = [s \in Sectors |-> IF BlockOf(s) \in D THEN link(s)
                                           ELSE IF s = h.last THEN FirstOf(LeastOf(D))
                                           ELSE h.next[s]],
               !.free = FirstOf(final), !.last = LastOf(final)]

(* find_free_block and occupy_free_block.                                   *)
FreeBlocks(h) == {b \in 0 .. NumBlocks - 1 : \A s \in SectorsOf(b) : h.type[s] = "free"}
\* Mutant: the block is taken, the list is left as it was.
OccupiedUnlinked(h, b) ==
  [h EXCEPT !.type = [s \in Sectors |-> IF s \in SectorsOf(b) THEN "unused" ELSE h.type[s]],
            !.fctrl = FirstOf(b)]
Occupied(h, b) ==
  LET before == {p \in Reach(h.next, h.free) : h.next[p] = FirstOf(b)}
  IN [h EXCEPT !.type = [s \in Sectors |-> IF s \in SectorsOf(b) THEN "unused" ELSE h.type[s]],
               !.next = [s \in Sectors |-> IF s \in before /\ h.free # FirstOf(b)
                                           THEN h.next[LastOf(b)] ELSE h.next[s]],
               !.fctrl = FirstOf(b)]
=============================================================================
