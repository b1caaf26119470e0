---------------------------- MODULE TfsPointers ------------------------------
(***************************************************************************)
(* How a control header names an entry (convert_from_ptr, convert_to_ptr,  *)
(* src/tfs.c): entries lie twenty to a page, the page counted from 1 in    *)
(* the low half of the word, the entry's place in the page in the high.    *)
(***************************************************************************)
EXTENDS Integers

CONSTANT NoEnt     \* 0xffffffff, which is no entry's word: its place would be 65535

ASSUME PointerAssumption == NoEnt \notin Int

PerPage == 20
Half == 65536

\* Mutant: the page is counted from 0 when it is written.
convert_from_ptr_0(ptr) ==
  IF ptr = NoEnt THEN NoEnt ELSE (ptr % PerPage) * Half + (ptr \div PerPage)
convert_from_ptr(ptr) ==
  IF ptr = NoEnt THEN NoEnt ELSE (ptr % PerPage) * Half + (ptr \div PerPage) + 1
convert_to_ptr(word) ==
  IF word = NoEnt THEN NoEnt ELSE ((word % Half) - 1) * PerPage + word \div Half
=============================================================================
