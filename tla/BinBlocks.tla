------------------------------ MODULE BinBlocks ------------------------------
(***************************************************************************)
(* What BIN flashing (src/main.c) and BLK_PROGRAM (preloader/src/main.c)   *)
(* do to the words of the chip: FlashSession knows whole pages only.  The  *)
(* blocks, the last few of which are smaller, the buffer of 32 words, and  *)
(* an odd byte at the end of a file.                                       *)
(***************************************************************************)
EXTENDS Integers

CONSTANTS BigWords, SmallWords,   \* 65536 and 16384
          FirstSmall, NumBlks,    \* 255 and 259
          BufferWords,            \* 32
          IntRange,               \* 2^32, the values of an int
          MaxFlashings            \* bound of the model

ASSUME BlocksAssumption ==
  /\ {BigWords, SmallWords, BufferWords, NumBlks} \subseteq Nat \ {0}
  /\ BigWords % BufferWords = 0 /\ SmallWords % BufferWords = 0 /\ FirstSmall \in 0 .. NumBlks
  /\ SmallWords <= BigWords
  /\ IntRange \in Nat \ {0} /\ IntRange % 2 = 0

VARIABLES nor,         \* the words of the chip, by address
          block_buf,   \* the preloader's buffer of a block
          bin,         \* the host: [at, name, size, pos, blk_first, blk_last, i, left]
          before,      \* history: the chip before this flashing
          flashings    \* how many there have been

binVars == <<nor, block_buf, bin, before, flashings>>

\* flash_blk_addr, in words.
flash_blk_addr(b) == IF b < FirstSmall THEN b * BigWords
                     ELSE FirstSmall * BigWords + (b - FirstSmall) * SmallWords
ChipWords == 0 .. flash_blk_addr(NumBlks) - 1
WordsOf(b) == flash_blk_addr(b) .. flash_blk_addr(b + 1) - 1

\* Mutant: all blocks are taken to be large.
FLASH_BLK_SIZE_large(b) == 2 * BigWords
\* In bytes, on the host.
FLASH_BLK_SIZE(b) == 2 * (IF b < FirstSmall THEN BigWords ELSE SmallWords)

\* A word is <<name of the file, index, bytes of it in the file>>.
BlankWord == <<"blank", 0, 0>>
OldWord == <<"old", 0, 2>>
FileWord(name, size, k) == <<name, k, IF 2 * k + 1 < size THEN 2 ELSE 1>>
WordCount(n) == (n + 1) \div 2

BinInit == /\ nor \in {[a \in ChipWords |-> w] : w \in {BlankWord, OldWord}}
           /\ block_buf = [w \in 0 .. BigWords - 1 |-> <<"zero", 0, 2>>]
           /\ bin = [at |-> "menu", name |-> "", size |-> 0, pos |-> 0,
                     blk_first |-> 0, blk_last |-> 0, i |-> 0, left |-> 0]
           /\ before = nor /\ flashings = 0

\* ftell's long goes into the uint32_t bin_size, and that into the int the
\* counting loop runs down.
ToInt(n) == LET u == n % IntRange IN IF u < IntRange \div 2 THEN u ELSE u - IntRange

StartBin(name, size, b) ==
  /\ bin.at \in {"menu", "done", "refused"} /\ flashings < MaxFlashings
  /\ bin' = [at |-> "count", name |-> name, size |-> size, pos |-> 0,
             blk_first |-> b, blk_last |-> b, i |-> b, left |-> ToInt(size)]
  /\ before' = nor /\ flashings' = flashings + 1 /\ UNCHANGED <<nor, block_buf>>

\* The empty loop that counts the blocks.
CountBlock == /\ bin.at = "count" /\ bin.left > 0
              /\ bin' = [bin EXCEPT !.left = @ - FLASH_BLK_SIZE(bin.blk_last),
                                    !.blk_last = @ + 1]
              /\ UNCHANGED <<nor, block_buf, before, flashings>>

\* Mutant: a binary that ends with the last block is refused.
DoesNotFitAtEnd == bin.blk_last >= NumBlks
DoesNotFit == bin.blk_last > NumBlks
Counted == /\ bin.at = "count" /\ bin.left <= 0
           /\ bin' = [bin EXCEPT !.at = IF DoesNotFit THEN "refused" ELSE "flash"]
           /\ UNCHANGED <<nor, block_buf, before, flashings>>

\* Programming clears bits; a word not erased before ends up as neither.
BurnWord(old, new) == IF old = BlankWord \/ old = new THEN new ELSE <<"mixed", 0, 2>>

\* Mutant: a buffer that is not full is not sent.
BufferedFull(words) == (words \div BufferWords) * BufferWords
\* What the programming loop sends, in buffers of 32 words: more than it has.
Buffered(words) == ((words + BufferWords - 1) \div BufferWords) * BufferWords

\* One turn of the host's loop, and the preloader's BLK_PROGRAM.
ProgramBlock ==
  /\ bin.at = "flash" /\ bin.i < bin.blk_last
  /\ LET length == FLASH_BLK_SIZE(bin.i)
         n_read == IF bin.size - bin.pos < length THEN bin.size - bin.pos ELSE length
         words == WordCount(n_read)
         buf == [w \in DOMAIN block_buf |->
                   IF w < words THEN FileWord(bin.name, bin.size, bin.pos \div 2 + w)
                   ELSE block_buf[w]]
         base == flash_blk_addr(bin.i)
         same == \A w \in 0 .. words - 1 : nor[base + w] = buf[w]
         Wiped(a) == IF a \in WordsOf(bin.i) THEN BlankWord ELSE nor[a]
     IN /\ block_buf' = buf
        /\ nor' = IF same THEN nor
                  ELSE [a \in ChipWords |->
                          IF a - base \in 0 .. Buffered(words) - 1
                          THEN BurnWord(Wiped(a), buf[a - base]) ELSE Wiped(a)]
        /\ bin' = [bin EXCEPT !.i = @ + 1, !.pos = @ + n_read]
  /\ UNCHANGED <<before, flashings>>

Flashed == /\ bin.at = "flash" /\ bin.i = bin.blk_last
           /\ bin' = [bin EXCEPT !.at = "done"]
           /\ UNCHANGED <<nor, block_buf, before, flashings>>

BinStep == CountBlock \/ Counted \/ ProgramBlock \/ Flashed
=============================================================================
