------------------------------- MODULE NorChip -------------------------------
(***************************************************************************)
(* The phone's NOR flash as the preloader's driver (preloader/src/flash.c) *)
(* uses it.  The chip itself is not in the repository: what it does with   *)
(* a command sequence is modelled from how the driver and its callers rely *)
(* on it.                                                                  *)
(*                                                                         *)
(* A block holds pages.  In the TFS area a page is one 512-byte sector:    *)
(* 511 bytes of data and the mark byte at its end.  The data is a member   *)
(* of a small set; the mark keeps its value, because the program compares  *)
(* it and the chip ANDs it.                                                *)
(***************************************************************************)
EXTENDS Integers

CONSTANTS LastBlock,    \* index of the last erase block; 258 in the program
          Slots,        \* the pages of a block
          Data,         \* contents the host may want to store
          Erased,       \* a page whose data bytes all read 0xff
          Mixed         \* a page whose bits are the AND of two contents

ASSUME ChipAssumption ==
  /\ LastBlock \in Nat
  /\ Erased \notin Data /\ Mixed \notin Data /\ Erased # Mixed

Blocks == 0 .. LastBlock

Marks == {0, 240, 255}              \* 0x00 used, 0xf0 control, 0xff free
PageVal == [data : Data \cup {Erased, Mixed}, mark : Marks]
Blank == [data |-> Erased, mark |-> 255]
BlankBlock == [s \in Slots |-> Blank]

MemVal == [Blocks -> [Slots -> PageVal]]
ProtVal == [Blocks -> BOOLEAN]

\* Mutant: the bits are cleared by subtracting them.
AndMarkSubtracts(m, n) == m - (255 - n)

\* Programming only clears bits, so an 0xff byte leaves the cell as it is.
AndMark(m, n) == IF 0 \in {m, n} THEN 0 ELSE IF 240 \in {m, n} THEN 240 ELSE 255

AndData(d, e) == IF e = Erased THEN d ELSE IF d \in {Erased, e} THEN e ELSE Mixed

BurnPage(old, new) == [data |-> AndData(old.data, new.data),
                       mark |-> AndMark(old.mark, new.mark)]

\* A block that is still protected takes the command and stays as it was.
ProgramPages(mem, prot, b, put) ==
  IF prot[b] THEN mem
  ELSE [mem EXCEPT ![b] = [s \in Slots |-> IF s \in DOMAIN put
                                           THEN BurnPage(mem[b][s], put[s])
                                           ELSE mem[b][s]]]

EraseBlk(mem, prot, b) == IF prot[b] THEN mem ELSE [mem EXCEPT ![b] = BlankBlock]

EraseAll(mem, prot) == [b \in Blocks |-> IF prot[b] THEN mem[b] ELSE BlankBlock]
=============================================================================
