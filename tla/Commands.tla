------------------------------ MODULE Commands -------------------------------
(***************************************************************************)
(* The preloader's command set (preloader.h) and what each command does to *)
(* the flash, phase by phase (preloader_start and flash.c).  NOOP, which   *)
(* the host never sends, and BAUD are left out.                            *)
(***************************************************************************)
EXTENDS NorChip, Sequences

Ops == {"JUMP", "GET_INFO", "BLK_LOCK", "BLK_UNLOCK", "BLK_READ", "BLK_PROGRAM",
        "BLK_ERASE", "CHIP_ERASE", "OTP_READ", "READ_SECT_MARKS", "MARK_SECT",
        "SECT_READ", "SECT_WRITE"}

\* blk and put are the operands: the pages of blk to burn, by slot; erase is
\* SECT_WRITE's flag.  Commands without an operand leave them empty.
Puts == UNION {[S -> PageVal] : S \in SUBSET Slots}
Cmd == [op : Ops, blk : Blocks, put : Puts, erase : BOOLEAN]

(* What a command does to a flash [mem, prot], in the order the handler     *)
(* does it.  BLK_PROGRAM and SECT_WRITE go through all three phases.        *)

\* BLK_PROGRAM's memcmp: does the block already hold the image?
SameAs(f, c) == \A s \in DOMAIN c.put : f.mem[c.blk][s] = c.put[s]

BlankCheck(f, b) == f.mem[b] = BlankBlock

FlashErase(f, b) == [f EXCEPT !.mem = EraseBlk(f.mem, f.prot, b)]

Wipe(f, c) ==
  CASE c.op = "BLK_ERASE"   -> IF BlankCheck(f, c.blk) THEN f ELSE FlashErase(f, c.blk)
    [] c.op = "CHIP_ERASE"  -> [f EXCEPT !.mem = EraseAll(f.mem, f.prot)]
    [] c.op = "BLK_PROGRAM" -> IF SameAs(f, c) \/ BlankCheck(f, c.blk) THEN f
                               ELSE FlashErase(f, c.blk)
    [] c.op = "SECT_WRITE"  -> IF c.erase THEN FlashErase(f, c.blk) ELSE f
    [] c.op = "BLK_LOCK"    -> [f EXCEPT !.prot[c.blk] = TRUE]
    [] c.op = "BLK_UNLOCK"  -> [f EXCEPT !.prot[c.blk] = FALSE]
    [] OTHER                -> f

\* Mutant: the mark byte goes out with the first buffer.
DataOfMarkFirst(put) == [s \in DOMAIN put |-> [put[s] EXCEPT !.data = Erased]]

\* The bytes a sector write's first seven buffers hold: all data, no mark.
DataOf(put) == [s \in DOMAIN put |-> [put[s] EXCEPT !.mark = 255]]

Burn(f, c) ==
  CASE c.op = "BLK_PROGRAM" ->
         IF SameAs(f, c) THEN f
         ELSE [f EXCEPT !.mem = ProgramPages(f.mem, f.prot, c.blk, c.put)]
    [] c.op = "SECT_WRITE" ->       \* unprotect, then buffers 0 to 6
         LET open == [f.prot EXCEPT ![c.blk] = FALSE]
         IN [mem |-> ProgramPages(f.mem, open, c.blk, DataOf(c.put)), prot |-> open]
    [] OTHER -> f

\* Mutant: the last step relies on the block being unlocked already.
StampNoUnprotect(f, c) ==
  IF c.op \in {"SECT_WRITE", "MARK_SECT"}
  THEN [mem  |-> ProgramPages(f.mem, f.prot, c.blk, c.put),
        prot |-> [f.prot EXCEPT ![c.blk] = TRUE]]
  ELSE f

\* Buffer 7 carries the mark byte; MARK_SECT is this last step alone, in a
\* block it unprotects for the time of the write.
Stamp(f, c) ==
  IF c.op \in {"SECT_WRITE", "MARK_SECT"}
  THEN LET open == [f.prot EXCEPT ![c.blk] = FALSE]
       IN [mem  |-> ProgramPages(f.mem, open, c.blk, c.put),
           prot |-> [open EXCEPT ![c.blk] = TRUE]]
  ELSE f

\* The whole command, as one step.
Apply(f, c) == Stamp(Burn(Wipe(f, c), c), c)
=============================================================================
