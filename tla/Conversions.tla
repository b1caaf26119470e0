---------------------------- MODULE Conversions ------------------------------
(***************************************************************************)
(* What the two programs do to data on its way between file and chip, in   *)
(* full: the jobs that FlashSession knows as commands with small payloads, *)
(* and the image that LinkSession knows as one message.  The program does  *)
(* one at a time, and none leaves anything to another.                     *)
(***************************************************************************)
EXTENDS IntelHex, BinBlocks, MarksCodec

CONSTANTS Starts, MaxLen,      \* the images of the preloader
          Sizes                \* the binaries, in bytes

ASSUME SizesAssumption == Starts \subseteq Nat /\ MaxLen \in Nat /\ Sizes \subseteq Nat

VARIABLES job

vars == <<job, hexVars, binVars, marksVars>>

Init == /\ job \in {"download", "bin", "csc"}
        /\ IF job = "download" THEN \E s \in Starts, n \in 1 .. MaxLen : HexInit(s, n)
           ELSE HexInit(0, 1)
        /\ BinInit /\ MarksInit

DownloadJob == job = "download" /\ HexStep /\ UNCHANGED <<job, binVars, marksVars>>
BinJob == /\ job = "bin" /\ UNCHANGED <<job, hexVars, marksVars>>
          /\ \/ BinStep
             \/ \E name \in {"a", "b"}, size \in Sizes, b \in 0 .. NumBlks - 1 :
                  StartBin(name, size, b)
CscJob == /\ job = "csc" /\ UNCHANGED <<job, hexVars, binVars>>
          /\ UnpackMarks \/ \E m \in MarkBytes : PackMark(m)

Next == DownloadJob \/ BinJob \/ CscJob

Spec == Init /\ [][Next]_vars

-----------------------------------------------------------------------------
\* What the boot ROM has in its memory when the last record is through is the
\* image, all of it, once and in its place, also where the upper half of the
\* address changes; and it is started at its first byte.
ImageLoaded ==
  hex.next = "end" => /\ rom.entry = start
                      /\ rom.ram = [a \in start .. start + len - 1 |-> a - start]

\* A flashed file lies in one piece from its first block on, over the seam
\* between large and small blocks, whatever was there and in the buffer before.
\* This is for files of less than 2 GiB: of a longer one, "successfully
\* reflashed" as well, no block is sent, or as many as its size modulo 4 GiB has.
FileBurned ==
  bin.at = "done" /\ bin.size < IntRange \div 2 =>
    \A k \in 0 .. WordCount(bin.size) - 1 :
      nor[flash_blk_addr(bin.blk_first) + k] = FileWord(bin.name, bin.size, k)

\* Only the blocks that the file reaches into are touched: the words of the
\* buffer that are more than the file's never leave its last block.
OthersKept ==
  bin.at \in {"flash", "done"} =>
    \A a \in ChipWords :
      nor[a] # before[a] => \E b \in bin.blk_first .. bin.blk_last - 1 : a \in WordsOf(b)

\* A file is refused only if it is longer than the chip from its first block on;
\* and one that is so is refused, up to 2 GiB.  From there on the int that the
\* blocks are counted with is negative or too small, and the file goes through.
RefusedRight ==
  LET room == 2 * (flash_blk_addr(NumBlks) - flash_blk_addr(bin.blk_first))
  IN /\ bin.at = "refused" => bin.size > room
     /\ bin.at \in {"flash", "done"} => bin.size <= room \/ bin.size >= IntRange \div 2

\* The host gets every mark the phone has, in its place; one that is none of
\* the three counts as used.
MarksArrive ==
  sect_marks # <<>> =>
    \A i \in 1 .. NumMarks : sect_marks[i] = IF read[i] \in {240, 255} THEN read[i] ELSE 0
=============================================================================
