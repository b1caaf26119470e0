-------------------------- MODULE ConversionsProofs --------------------------
(***************************************************************************)
(* The conversions are right for images and marks of every length, for     *)
(* files of less than half the range of an int and for every layout of the *)
(* chip: the preloader arrives whole, a binary lies in one piece, and      *)
(* nothing beside it is touched.                                           *)
(***************************************************************************)
EXTENDS Conversions, TLAPS

-----------------------------------------------------------------------------
(* The image as Intel HEX.                                                 *)

\* How much of the image the records so far have put in the ROM's memory.
Through == IF hex.offset < start + len THEN hex.offset - start ELSE len

\* The first n bytes of an image at address s.
Image(s, n) == [a \in s .. s + n - 1 |-> a - s]

HexInv ==
  /\ start \in Nat /\ len \in Nat \ {0}
  /\ hex = [offset |-> hex.offset, length |-> hex.length, high |-> hex.high, next |-> hex.next]
  /\ rom = [upper |-> rom.upper, ram |-> rom.ram, entry |-> rom.entry]
  /\ hex.offset \in Nat /\ hex.offset >= start
  /\ hex.length = len - (hex.offset - start)
  /\ hex.high # None => rom.upper = hex.high
  /\ rom.ram = Image(start, Through)
  /\ hex.next = "end" => rom.entry = start /\ Through = len

\* An address is its upper half and its place in the segment.
LEMMA AddressSplits ==
  ASSUME NEW a \in Nat
  PROVE  ((a \div Segment) * Segment) + (a % Segment) = a /\ a \div Segment \in Nat
BY HexAssumption

\* A record that starts where the image has come to continues it.
LEMMA LoadContinues ==
  ASSUME HexInv, InData, ~NewUpper, NEW n \in Nat, n <= hex.length
  PROVE  LET r == Load(hex.offset % Segment, len - hex.length, n)
         IN /\ r.ram = [a \in start .. hex.offset + n - 1 |-> a - start]
            /\ r = [upper |-> rom.upper, ram |-> r.ram, entry |-> rom.entry]
<1> DEFINE at == (rom.upper * Segment) + (hex.offset % Segment)
           k == len - hex.length
<1>1. /\ start \in Nat /\ len \in Nat \ {0} /\ hex.offset \in Nat /\ hex.offset >= start
      /\ hex.length = len - (hex.offset - start) /\ hex.offset < start + len
      /\ rom.ram = [a \in start .. hex.offset - 1 |-> a - start]
      /\ rom = [upper |-> rom.upper, ram |-> rom.ram, entry |-> rom.entry]
  <2>1. Through = hex.offset - start
    BY DEF InData, Through
  <2>2. start + Through - 1 = hex.offset - 1
    BY <2>1 DEF HexInv
  <2> QED BY <2>2 DEF HexInv, InData, Image
<1>2. at = hex.offset
  <2>1. rom.upper = hex.offset \div Segment
    <3>1. hex.high = hex.offset \div Segment
      BY DEF NewUpper, Upper
    <3>2. hex.offset \div Segment # None
      BY <1>1, AddressSplits DEF None
    <3> QED BY <3>1, <3>2 DEF HexInv
  <2> QED BY <1>1, <2>1, AddressSplits
<1>3. k = hex.offset - start
  BY <1>1
<1> HIDE DEF at, k
<1> DEFINE ram == [a \in start .. hex.offset - 1 |-> a - start]
           new == [a \in DOMAIN ram \cup hex.offset .. hex.offset + n - 1 |->
                     IF a \in hex.offset .. hex.offset + n - 1 THEN k + a - hex.offset ELSE ram[a]]
<1>4. new = [a \in start .. hex.offset + n - 1 |-> a - start]
  <2>1. DOMAIN ram \cup hex.offset .. hex.offset + n - 1 = start .. hex.offset + n - 1
    BY <1>1
  <2>2. \A a \in start .. hex.offset + n - 1 :
          (IF a \in hex.offset .. hex.offset + n - 1 THEN k + a - hex.offset ELSE ram[a]) = a - start
    BY <1>1, <1>3
  <2> QED BY <2>1, <2>2
<1>5. Load(hex.offset % Segment, len - hex.length, n) = [rom EXCEPT !.ram = new]
  BY <1>1, <1>2 DEF Load, at, k
<1> HIDE DEF new
<1> QED BY <1>1, <1>4, <1>5

\* Each record keeps what is in the ROM's memory the image as far as it is
\* through.
LEMMA HexKeeps ==
  ASSUME HexInv, HexStep
  PROVE  HexInv'
<1>1. CASE HighRecord
  <2>1. Upper \in Nat
    BY AddressSplits DEF Upper, HexInv
  <2>2. /\ hex' = [offset |-> hex.offset, length |-> hex.length, high |-> Upper, next |-> hex.next]
        /\ rom' = [upper |-> Upper, ram |-> rom.ram, entry |-> rom.entry]
        /\ start' = start /\ len' = len
    BY <1>1 DEF HighRecord, HexInv
  <2>3. hex.next = "data"
    BY <1>1 DEF HighRecord, InData
  <2>4. Through' = Through
    BY <2>2 DEF Through
  <2> HIDE DEF Upper, Through
  <2> QED BY <2>2, <2>3, <2>4 DEF HexInv
<1>2. CASE DataRecord
  <2> DEFINE n == IF hex.length < RecordBytes THEN hex.length ELSE RecordBytes
  <2>1. /\ start \in Nat /\ len \in Nat \ {0} /\ hex.offset \in Nat /\ hex.offset >= start
        /\ hex.length = len - (hex.offset - start) /\ hex.offset < start + len
        /\ RecordBytes \in Nat \ {0}
    BY <1>2, HexAssumption DEF HexInv, DataRecord, InData
  <2>2. n \in Nat /\ n <= hex.length
    BY <2>1
  <2>3. /\ rom' = Load(hex.offset % Segment, len - hex.length, n)
        /\ hex' = [offset |-> hex.offset + RecordBytes, length |-> hex.length - RecordBytes,
                   high |-> hex.high, next |-> "data"]
        /\ start' = start /\ len' = len
    BY <1>2 DEF DataRecord, HexInv, InData
  <2>4. /\ rom'.ram = [a \in start .. hex.offset + n - 1 |-> a - start]
        /\ rom' = [upper |-> rom.upper, ram |-> rom'.ram, entry |-> rom.entry]
    BY <1>2, <2>2, <2>3, LoadContinues DEF DataRecord
  <2>5. start + Through' - 1 = hex.offset + n - 1
    BY <2>1, <2>3 DEF Through
  <2> HIDE DEF n
  <2>6. rom'.ram = Image(start, Through)'
    <3> HIDE DEF Through
    <3> QED BY <2>3, <2>4, <2>5 DEF Image
  <2>7. hex.offset + RecordBytes \in Nat /\ hex.offset + RecordBytes >= start
        /\ hex.length - RecordBytes = len - ((hex.offset + RecordBytes) - start)
    BY <2>1
  <2>8. hex.high # None => rom.upper = hex.high
    BY DEF HexInv
  <2> HIDE DEF Through
  <2> QED BY <2>1, <2>3, <2>4, <2>6, <2>7, <2>8 DEF HexInv
<1>3. CASE StartRecord
  BY <1>3 DEF StartRecord, HexInv, InData, Through
<1> QED BY <1>1, <1>2, <1>3 DEF HexStep

-----------------------------------------------------------------------------
(* A binary in blocks.                                                     *)

\* The words of block b.
Words(b) == IF b < FirstSmall THEN BigWords ELSE SmallWords

\* The next block begins where block b ends (flash_blk_addr).
LEMMA AddressNext ==
  ASSUME NEW b \in Nat
  PROVE  /\ flash_blk_addr(b) \in Nat /\ Words(b) \in Nat \ {0} /\ Words(b) <= BigWords
         /\ flash_blk_addr(b + 1) = flash_blk_addr(b) + Words(b)
         /\ FLASH_BLK_SIZE(b) = 2 * Words(b)
         /\ Words(b) % BufferWords = 0
<1>1. /\ BigWords \in Nat \ {0} /\ SmallWords \in Nat \ {0} /\ BufferWords \in Nat \ {0}
      /\ FirstSmall \in Nat /\ SmallWords <= BigWords
      /\ BigWords % BufferWords = 0 /\ SmallWords % BufferWords = 0
  BY BlocksAssumption
<1>2. Words(b) \in Nat \ {0} /\ Words(b) <= BigWords /\ Words(b) % BufferWords = 0
      /\ FLASH_BLK_SIZE(b) = 2 * Words(b)
  BY <1>1 DEF Words, FLASH_BLK_SIZE
<1>3. CASE b < FirstSmall
  <2>1. flash_blk_addr(b) = b * BigWords /\ b * BigWords \in Nat
    BY <1>1, <1>3 DEF flash_blk_addr
  <2>2. flash_blk_addr(b + 1) = (b + 1) * BigWords
    BY <1>1, <1>3 DEF flash_blk_addr
  <2> QED BY <1>1, <1>2, <1>3, <2>1, <2>2 DEF Words
<1>4. CASE b >= FirstSmall
  <2>1. /\ flash_blk_addr(b) = FirstSmall * BigWords + (b - FirstSmall) * SmallWords
        /\ FirstSmall * BigWords \in Nat /\ (b - FirstSmall) * SmallWords \in Nat
    BY <1>1, <1>4 DEF flash_blk_addr
  <2>2. flash_blk_addr(b + 1) = FirstSmall * BigWords + ((b + 1) - FirstSmall) * SmallWords
    BY <1>1, <1>4 DEF flash_blk_addr
  <2>3. ((b + 1) - FirstSmall) * SmallWords = (b - FirstSmall) * SmallWords + SmallWords
    BY <1>1, <1>4
  <2> QED BY <1>1, <1>2, <1>4, <2>1, <2>2, <2>3 DEF Words
<1> QED BY <1>1, <1>3, <1>4

\* Later blocks lie higher.
LEMMA AddressGrows ==
  ASSUME NEW b \in Nat, NEW c \in Nat, b <= c
  PROVE  flash_blk_addr(b) <= flash_blk_addr(c)
<1>1. /\ BigWords \in Nat \ {0} /\ SmallWords \in Nat \ {0} /\ FirstSmall \in Nat
  BY BlocksAssumption
<1>2. CASE c < FirstSmall
  <2>1. b * BigWords <= c * BigWords
    BY <1>1
  <2> QED BY <1>1, <1>2, <2>1 DEF flash_blk_addr
<1>3. CASE b < FirstSmall /\ c >= FirstSmall
  <2>1. b * BigWords <= FirstSmall * BigWords /\ (c - FirstSmall) * SmallWords >= 0
    BY <1>1, <1>3
  <2> QED BY <1>1, <1>3, <2>1 DEF flash_blk_addr
<1>4. CASE b >= FirstSmall
  <2>1. (b - FirstSmall) * SmallWords <= (c - FirstSmall) * SmallWords
    BY <1>1, <1>4
  <2> QED BY <1>1, <1>4, <2>1 DEF flash_blk_addr
<1> QED BY <1>1, <1>2, <1>3, <1>4

\* What the programming loop sends stays in the block.
LEMMA BufferedFits ==
  ASSUME NEW w \in Nat, NEW n \in Nat, w <= n, n % BufferWords = 0
  PROVE  Buffered(w) \in Nat /\ w <= Buffered(w) /\ Buffered(w) <= n
<1> DEFINE B == BufferWords
           q == (w + B - 1) \div B
           r == n \div B
<1>1. B \in Nat \ {0}
  BY BlocksAssumption
<1>2. /\ q \in Nat /\ q * B <= w + B - 1 /\ w + B - 1 < q * B + B
  BY <1>1
<1>3. r \in Nat /\ r * B = n
  BY <1>1
<1>4. q <= r
  <2> HIDE DEF q, r, B
  <2>1. SUFFICES ASSUME q >= r + 1 PROVE FALSE
    BY <1>2, <1>3
  <2>2. q * B >= (r + 1) * B
    BY <1>1, <1>2, <1>3, <2>1
  <2>3. (r + 1) * B = r * B + B
    BY <1>1, <1>3
  <2> QED BY <1>1, <1>2, <1>3, <2>2, <2>3
<1>5. q * B <= r * B /\ q * B \in Nat
  <2> HIDE DEF q, r
  <2> QED BY <1>1, <1>2, <1>3, <1>4
<1>6. Buffered(w) = q * B
  BY DEF Buffered
<1> HIDE DEF q, r
<1> QED BY <1>1, <1>2, <1>3, <1>5, <1>6

\* Where the host is with a file of which it has counted or sent some blocks.
BinType ==
  [at : {"menu", "count", "refused", "flash", "done"}, name : {"", "a", "b"}, size : Nat, pos : Nat,
   blk_first : Nat, blk_last : Nat, i : Nat, left : Int]

\* The bytes up to the beginning of block b.
Bytes(b) == 2 * (flash_blk_addr(b) - flash_blk_addr(bin.blk_first))

\* The size as the count takes it: that of the file, up to half the range of int,
\* and never more.
Seen == ToInt(bin.size)

\* It ends in the block before the last, and in no earlier one.
Enough == /\ Seen <= Bytes(bin.blk_last)
          /\ bin.blk_last > bin.blk_first => Seen > Bytes(bin.blk_last - 1)

\* The bytes sent with the blocks before block i; with all, the file, or what of
\* it goes into them.
All == IF bin.size <= Bytes(bin.blk_last) THEN bin.size ELSE Bytes(bin.blk_last)
Sent == IF bin.i < bin.blk_last THEN Bytes(bin.i) ELSE All

\* The file as far as it has been sent lies in one piece,
Burned == \A k \in 0 .. WordCount(bin.pos) - 1 :
            nor[flash_blk_addr(bin.blk_first) + k] = FileWord(bin.name, bin.size, k)
\* and what is not as before lies in the blocks done.
Kept == \A a \in ChipWords :
          nor[a] # before[a] => \E b \in bin.blk_first .. bin.i - 1 : a \in WordsOf(b)

BinInv ==
  /\ bin \in BinType
  /\ nor = [a \in ChipWords |-> nor[a]]
  /\ block_buf = [w \in 0 .. BigWords - 1 |-> block_buf[w]]
  /\ bin.blk_first \in 0 .. NumBlks - 1 /\ bin.blk_first <= bin.blk_last
  /\ bin.at = "count" =>
       /\ bin.i = bin.blk_first /\ bin.pos = 0 /\ nor = before
       /\ bin.left = Seen - Bytes(bin.blk_last)
       /\ bin.blk_last > bin.blk_first => Seen > Bytes(bin.blk_last - 1)
  /\ bin.at \in {"refused", "flash", "done"} => Enough
  /\ bin.at = "refused" => bin.blk_last > NumBlks
  /\ bin.at \in {"flash", "done"} =>
       /\ bin.blk_last <= NumBlks /\ bin.i \in bin.blk_first .. bin.blk_last
       /\ bin.pos = Sent /\ Burned /\ Kept
  /\ bin.at = "done" => bin.i = bin.blk_last

\* What an int makes of a size.
LEMMA IntOf ==
  ASSUME NEW n \in Nat
  PROVE  ToInt(n) \in Int /\ ToInt(n) <= n /\ (n < IntRange \div 2 => ToInt(n) = n)
<1> DEFINE R == IntRange
           u == n % R
<1>1. R \in Nat /\ R > 0
  BY BlocksAssumption
<1>2. u \in Nat /\ u <= n /\ (n < R => u = n)
  BY <1>1
<1>3. R \div 2 \in Nat /\ R \div 2 <= R
  BY <1>1
<1>4. ToInt(n) = IF u < R \div 2 THEN u ELSE u - R
  BY DEF ToInt
<1> HIDE DEF u, R
<1> QED BY <1>1, <1>2, <1>3, <1>4 DEF R

\* What of the file goes into the next block: it fills it, or ends in it.
LEMMA NextPiece ==
  ASSUME BinInv, bin.at = "flash", bin.i < bin.blk_last, NEW n,
         n = IF bin.size - bin.pos < FLASH_BLK_SIZE(bin.i) THEN bin.size - bin.pos
             ELSE FLASH_BLK_SIZE(bin.i)
  PROVE  LET d == flash_blk_addr(bin.i) - flash_blk_addr(bin.blk_first)
         IN /\ d \in Nat /\ bin.pos = 2 * d /\ bin.pos \div 2 = d /\ WordCount(bin.pos) = d
            /\ n \in Nat /\ WordCount(n) \in Nat /\ WordCount(n) <= Words(bin.i)
            /\ WordCount(bin.pos + n) = d + WordCount(n)
            /\ bin.pos + n = IF bin.i + 1 < bin.blk_last THEN Bytes(bin.i + 1) ELSE All
<1> DEFINE A == flash_blk_addr(bin.i)
           F == flash_blk_addr(bin.blk_first)
           L == flash_blk_addr(bin.blk_last)
           K == flash_blk_addr(bin.blk_last - 1)
           W == Words(bin.i)
           d == A - F
<1>1. /\ bin.size \in Nat /\ bin.pos \in Nat /\ bin.blk_first \in Nat /\ bin.blk_last \in Nat /\ bin.i \in Nat
      /\ bin.blk_first <= bin.i /\ bin.i < bin.blk_last
      /\ bin.pos = Bytes(bin.i) /\ Enough
  <2>1. bin.size \in Nat /\ bin.pos \in Nat /\ bin.blk_last \in Nat /\ bin.i \in Nat
    BY DEF BinInv, BinType
  <2>2. bin.blk_first \in Nat
    BY BlocksAssumption DEF BinInv
  <2>3. bin.i \in bin.blk_first .. bin.blk_last
    BY DEF BinInv
  <2>4. bin.pos = Bytes(bin.i) /\ Enough
    BY DEF BinInv, Sent
  <2> QED BY <2>1, <2>2, <2>3, <2>4
<1>2. /\ A \in Nat /\ F \in Nat /\ L \in Nat /\ K \in Nat /\ W \in Nat \ {0}
      /\ flash_blk_addr(bin.i + 1) = A + W /\ FLASH_BLK_SIZE(bin.i) = 2 * W
  <2>1. bin.blk_last - 1 \in Nat
    BY <1>1
  <2> QED BY <1>1, <2>1, AddressNext
<1>3. F <= A /\ A <= K /\ (bin.i + 1 < bin.blk_last => A + W <= K) /\ (bin.i + 1 >= bin.blk_last => L = A + W /\ K = A)
  <2>1. bin.blk_last - 1 \in Nat /\ bin.i <= bin.blk_last - 1 /\ bin.i + 1 \in Nat
    BY <1>1
  <2>2. F <= A /\ A <= K
    BY <1>1, <2>1, AddressGrows
  <2>3. CASE bin.i + 1 < bin.blk_last
    <3>1. bin.i + 1 <= bin.blk_last - 1
      BY <1>1, <2>3
    <3>2. flash_blk_addr(bin.i + 1) <= K
      BY <2>1, <3>1, AddressGrows
    <3> HIDE DEF A, F, L, K, W
    <3> QED BY <1>1, <1>2, <2>2, <2>3, <3>2
  <2>4. CASE bin.i + 1 >= bin.blk_last
    <3>1. bin.i + 1 = bin.blk_last /\ bin.blk_last - 1 = bin.i
      BY <1>1, <2>4
    <3>2. K = A /\ L = A + W
      BY <1>2, <3>1
    <3> HIDE DEF A, F, L, K, W
    <3> QED BY <1>1, <2>2, <2>4, <3>2
  <2> QED BY <1>1, <2>3, <2>4
<1>4. bin.pos = 2 * d /\ bin.size > 2 * (K - F)
  <2>1. Seen \in Int /\ Seen <= bin.size
    BY <1>1, IntOf DEF Seen
  <2>2. Seen > 2 * (K - F)
    BY <1>1 DEF Bytes, Enough
  <2>3. bin.pos = 2 * d
    BY <1>1 DEF Bytes
  <2> HIDE DEF A, F, L, K, W, d
  <2> QED BY <1>1, <1>2, <2>1, <2>2, <2>3
<1>5. n = IF bin.size - bin.pos < 2 * W THEN bin.size - bin.pos ELSE 2 * W
  BY <1>2
<1>6. /\ Bytes(bin.i + 1) = 2 * (A + W - F)
      /\ All = IF bin.size <= 2 * (L - F) THEN bin.size ELSE 2 * (L - F)
  BY <1>2 DEF Bytes, All
<1> HIDE DEF A, F, L, K, W
<1>7. d \in Nat /\ n \in Nat /\ n <= 2 * W
  BY <1>1, <1>2, <1>3, <1>4, <1>5
<1>8. bin.pos + n = IF bin.i + 1 < bin.blk_last THEN 2 * (A + W - F)
                    ELSE IF bin.size <= 2 * (L - F) THEN bin.size ELSE 2 * (L - F)
  BY <1>1, <1>2, <1>3, <1>4, <1>5
<1> HIDE DEF d
<1>9. /\ bin.pos \div 2 = d /\ (bin.pos + 1) \div 2 = d
      /\ (n + 1) \div 2 \in Nat /\ (n + 1) \div 2 <= W /\ (bin.pos + n + 1) \div 2 = d + (n + 1) \div 2
  BY <1>1, <1>2, <1>4, <1>7
<1> QED BY <1>4, <1>6, <1>7, <1>8, <1>9 DEF WordCount, A, F, W, d

\* Sending a block keeps it so.
LEMMA ProgramKeeps ==
  ASSUME BinInv, ProgramBlock
  PROVE  BinInv'
<1> DEFINE A == flash_blk_addr(bin.i)
           F == flash_blk_addr(bin.blk_first)
           W == Words(bin.i)
           d == A - F
           n == IF bin.size - bin.pos < FLASH_BLK_SIZE(bin.i) THEN bin.size - bin.pos
                ELSE FLASH_BLK_SIZE(bin.i)
           words == WordCount(n)
           buf == [w \in DOMAIN block_buf |->
                     IF w < words THEN FileWord(bin.name, bin.size, bin.pos \div 2 + w) ELSE block_buf[w]]
           same == \A w \in 0 .. words - 1 : nor[A + w] = buf[w]
           Wiped(a) == IF a \in WordsOf(bin.i) THEN BlankWord ELSE nor[a]
<1>1. /\ bin.at = "flash" /\ bin.i < bin.blk_last /\ before' = before /\ flashings' = flashings
      /\ block_buf' = buf
      /\ nor' = IF same THEN nor
                ELSE [a \in ChipWords |->
                        IF a - A \in 0 .. Buffered(words) - 1 THEN BurnWord(Wiped(a), buf[a - A]) ELSE Wiped(a)]
      /\ bin' = [bin EXCEPT !.i = @ + 1, !.pos = @ + n]
  BY DEF ProgramBlock
<1>2. /\ bin \in BinType /\ bin.size \in Nat /\ bin.pos \in Nat /\ bin.i \in Nat /\ bin.blk_first \in Nat
      /\ bin.blk_last \in Nat /\ bin.blk_first <= bin.i /\ bin.blk_last <= NumBlks /\ NumBlks \in Nat
      /\ Burned /\ Kept /\ Enough /\ bin.blk_first \in 0 .. NumBlks - 1
      /\ nor = [a \in ChipWords |-> nor[a]] /\ DOMAIN block_buf = 0 .. BigWords - 1
  <2> HIDE DEF buf, same, Wiped, n, words, A, F, W, d
  <2>1. bin \in BinType /\ bin.blk_first \in 0 .. NumBlks - 1
    BY DEF BinInv
  <2>2. bin.size \in Nat /\ bin.pos \in Nat /\ bin.i \in Nat /\ bin.blk_first \in Nat /\ bin.blk_last \in Nat
    BY <2>1 DEF BinType
  <2>3. /\ bin.blk_last <= NumBlks /\ bin.i \in bin.blk_first .. bin.blk_last /\ Burned /\ Kept /\ Enough
    BY <1>1 DEF BinInv
  <2>4. nor = [a \in ChipWords |-> nor[a]]
    BY DEF BinInv
  <2>5. DOMAIN block_buf = 0 .. BigWords - 1
    BY DEF BinInv
  <2>6. NumBlks \in Nat
    BY BlocksAssumption
  <2> QED BY <2>1, <2>2, <2>3, <2>4, <2>5, <2>6
<1>3. /\ d \in Nat /\ bin.pos = 2 * d /\ bin.pos \div 2 = d /\ WordCount(bin.pos) = d
      /\ n \in Nat /\ words \in Nat /\ words <= W
      /\ WordCount(bin.pos + n) = d + words
      /\ bin.pos + n = IF bin.i + 1 < bin.blk_last THEN Bytes(bin.i + 1) ELSE All
  <2> HIDE DEF n
  <2> QED BY <1>1, NextPiece DEF n
<1>4. /\ A \in Nat /\ F \in Nat /\ W \in Nat \ {0} /\ W <= BigWords /\ BigWords \in Nat
      /\ WordsOf(bin.i) = A .. A + W - 1 /\ W % BufferWords = 0
  BY <1>2, AddressNext, BlocksAssumption DEF WordsOf
<1>5. A + W <= flash_blk_addr(NumBlks) /\ flash_blk_addr(NumBlks) \in Nat
  <2>1. bin.i + 1 \in Nat /\ bin.i + 1 <= NumBlks
    BY <1>1, <1>2
  <2>2. flash_blk_addr(bin.i + 1) = A + W /\ flash_blk_addr(NumBlks) \in Nat
    BY <1>2, AddressNext
  <2> QED BY <1>2, <2>1, <2>2, AddressGrows
<1>6. Buffered(words) \in Nat /\ words <= Buffered(words) /\ Buffered(words) <= W
  <2> HIDE DEF words, W
  <2> QED BY <1>3, <1>4, BufferedFits
<1> HIDE DEF A, F, W, n, words
<1>7. ASSUME NEW w \in 0 .. words - 1
      PROVE  buf[w] = FileWord(bin.name, bin.size, d + w)
  <2>1. w \in 0 .. BigWords - 1 /\ w < words
    <3> HIDE DEF d, buf
    <3> QED BY <1>3, <1>4
  <2>2. w \in DOMAIN block_buf
    BY <1>2, <2>1
  <2>3. buf[w] = FileWord(bin.name, bin.size, bin.pos \div 2 + w)
    BY <2>1, <2>2
  <2> HIDE DEF d, buf
  <2> QED BY <1>3, <2>3
<1>8. ASSUME NEW a \in ChipWords, a \notin A .. A + W - 1
      PROVE  nor'[a] = nor[a]
  <2>1. a \in Nat /\ a - A \notin 0 .. Buffered(words) - 1
    BY <1>4, <1>5, <1>6, <1>8 DEF ChipWords
  <2>2. Wiped(a) = nor[a]
    BY <1>4, <1>8
  <2> HIDE DEF Wiped, buf, same
  <2> QED BY <1>1, <1>2, <2>1, <2>2
<1>9. ASSUME NEW w \in 0 .. words - 1
      PROVE  nor'[A + w] = FileWord(bin.name, bin.size, d + w)
  <2>1. CASE same
    BY <1>1, <1>7, <2>1
  <2>2. CASE ~same
    <3>1. /\ A + w \in ChipWords /\ A + w \in A .. A + W - 1 /\ (A + w) - A = w
          /\ w \in 0 .. Buffered(words) - 1
      BY <1>3, <1>4, <1>5, <1>6 DEF ChipWords
    <3>2. Wiped(A + w) = BlankWord
      BY <1>4, <3>1
    <3>3. nor'[A + w] = BurnWord(Wiped(A + w), buf[w])
      <4> HIDE DEF Wiped, buf, same
      <4> QED BY <1>1, <2>2, <3>1
    <3> HIDE DEF Wiped, buf
    <3> QED BY <1>7, <3>2, <3>3 DEF BurnWord
  <2> QED BY <2>1, <2>2
<1>10. /\ bin' \in BinType /\ bin'.at = "flash" /\ bin'.name = bin.name /\ bin'.size = bin.size
       /\ bin'.blk_first = bin.blk_first /\ bin'.blk_last = bin.blk_last
       /\ bin'.i = bin.i + 1 /\ bin'.pos = bin.pos + n
  <2>1. bin = [at |-> bin.at, name |-> bin.name, size |-> bin.size, pos |-> bin.pos, blk_first |-> bin.blk_first,
               blk_last |-> bin.blk_last, i |-> bin.i, left |-> bin.left]
        /\ bin.name \in {"", "a", "b"} /\ bin.left \in Int
    BY <1>2 DEF BinType
  <2>2. bin' = [at |-> bin.at, name |-> bin.name, size |-> bin.size, pos |-> bin.pos + n,
                blk_first |-> bin.blk_first, blk_last |-> bin.blk_last, i |-> bin.i + 1, left |-> bin.left]
    <3>1. bin' = [bin EXCEPT !.i = @ + 1, !.pos = @ + n]
      BY <1>1
    <3> QED BY <2>1, <3>1
  <2>3. bin.pos + n \in Nat /\ bin.i + 1 \in Nat /\ bin.at = "flash"
    <3>1. bin.pos \in Nat /\ bin.i \in Nat /\ n \in Nat
      BY <1>2, <1>3
    <3> QED BY <1>1, <3>1
  <2>4. bin' \in BinType
    BY <1>2, <2>1, <2>2, <2>3 DEF BinType
  <2> QED BY <2>2, <2>3, <2>4
<1>11. Burned'
  <2> SUFFICES ASSUME NEW k \in 0 .. d + words - 1
               PROVE  nor'[F + k] = FileWord(bin.name, bin.size, k)
    BY <1>3, <1>10 DEF Burned, F
  <2>1. CASE k < d
    <3>1. F + k \in ChipWords /\ F + k \notin A .. A + W - 1 /\ k \in 0 .. d - 1
      BY <1>3, <1>4, <1>5, <2>1 DEF ChipWords
    <3>2. nor[F + k] = FileWord(bin.name, bin.size, k)
      BY <1>2, <1>3, <3>1 DEF Burned, F
    <3> QED BY <1>8, <3>1, <3>2
  <2>2. CASE k >= d
    <3> DEFINE w == k - d
    <3>1. w \in 0 .. words - 1 /\ d + w = k /\ F + k = A + w
      BY <1>3, <1>4, <2>2
    <3> HIDE DEF w, d
    <3> QED BY <1>9, <3>1
  <2> QED BY <1>3, <2>1, <2>2
<1>12. Kept'
  <2> SUFFICES ASSUME NEW a \in ChipWords, nor'[a] # before[a]
               PROVE  \E b \in bin.blk_first .. bin.i : a \in WordsOf(b)
    <3>1. (bin.i + 1) - 1 = bin.i
      BY <1>2
    <3> QED BY <1>1, <1>10, <3>1 DEF Kept
  <2>1. CASE a \in A .. A + W - 1
    <3>1. bin.i \in bin.blk_first .. bin.i
      BY <1>2
    <3> QED BY <1>4, <2>1, <3>1
  <2>2. CASE a \notin A .. A + W - 1
    <3>1. PICK b \in bin.blk_first .. bin.i - 1 : a \in WordsOf(b)
      BY <1>2, <1>8, <2>2 DEF Kept
    <3>2. b \in bin.blk_first .. bin.i
      BY <1>2
    <3> QED BY <3>1, <3>2
  <2> QED BY <2>1, <2>2
<1>13. nor' = [a \in ChipWords |-> nor'[a]] /\ block_buf' = [w \in 0 .. BigWords - 1 |-> block_buf'[w]]
  <2>1. nor' = [a \in ChipWords |-> nor'[a]]
    <3>1. CASE same
      <4>1. nor' = nor
        BY <1>1, <3>1
      <4> QED BY <1>2, <4>1
    <3>2. CASE ~same
      <4> DEFINE New(a) == IF a - A \in 0 .. Buffered(words) - 1 THEN BurnWord(Wiped(a), buf[a - A]) ELSE Wiped(a)
      <4>1. nor' = [a \in ChipWords |-> New(a)]
        BY <1>1, <3>2
      <4> HIDE DEF New
      <4> QED BY <4>1
    <3> QED BY <3>1, <3>2
  <2>2. block_buf' = [w \in 0 .. BigWords - 1 |-> block_buf'[w]]
    <3> DEFINE New(w) == IF w < words THEN FileWord(bin.name, bin.size, bin.pos \div 2 + w) ELSE block_buf[w]
    <3>1. block_buf' = [w \in 0 .. BigWords - 1 |-> New(w)]
      BY <1>1, <1>2
    <3> HIDE DEF New
    <3> QED BY <3>1
  <2> QED BY <2>1, <2>2
<1>14. Enough' /\ bin'.pos = Sent'
  <2> HIDE DEF d, buf, same, Wiped
  <2>1. Enough'
    BY <1>2, <1>10 DEF Enough, Bytes, Seen
  <2>2. Sent' = IF bin.i + 1 < bin.blk_last THEN Bytes(bin.i + 1) ELSE All
    BY <1>10 DEF Sent, All, Bytes
  <2> QED BY <1>3, <1>10, <2>1, <2>2
<1>15. bin'.i \in bin'.blk_first .. bin'.blk_last
  BY <1>1, <1>2, <1>10
<1> HIDE DEF d, buf, same, Wiped
<1>16. bin'.blk_first \in 0 .. NumBlks - 1 /\ bin'.blk_first <= bin'.blk_last /\ bin'.blk_last <= NumBlks
  BY <1>1, <1>2, <1>10
<1>17. bin'.at = "flash"
  BY <1>10
<1> QED BY <1>10, <1>11, <1>12, <1>13, <1>14, <1>15, <1>16, <1>17, Z3 DEF BinInv

\* The file in its record, field by field.
LEMMA BinFields ==
  ASSUME BinInv
  PROVE  /\ bin = [at |-> bin.at, name |-> bin.name, size |-> bin.size, pos |-> bin.pos,
                   blk_first |-> bin.blk_first, blk_last |-> bin.blk_last, i |-> bin.i, left |-> bin.left]
         /\ bin.size \in Nat /\ bin.pos \in Nat /\ bin.i \in Nat /\ bin.left \in Int
         /\ bin.blk_first \in Nat /\ bin.blk_last \in Nat /\ NumBlks \in Nat
<1>1. NumBlks \in Nat
  BY BlocksAssumption
<1>2. bin \in BinType
  BY DEF BinInv
<1> QED BY <1>1, <1>2 DEF BinType

\* Counting a block: the file was longer than the blocks counted so far.
LEMMA CountKeeps ==
  ASSUME BinInv, CountBlock
  PROVE  BinInv'
<1> DEFINE L == flash_blk_addr(bin.blk_last)
           W == Words(bin.blk_last)
<1>1. /\ bin.at = "count" /\ bin.left > 0 /\ nor' = nor /\ block_buf' = block_buf /\ before' = before
      /\ bin' = [bin EXCEPT !.left = @ - FLASH_BLK_SIZE(bin.blk_last), !.blk_last = @ + 1]
  BY DEF CountBlock
<1>2. /\ bin.size \in Nat /\ bin.pos \in Nat /\ bin.i \in Nat /\ bin.left \in Int
      /\ bin.blk_first \in Nat /\ bin.blk_last \in Nat /\ NumBlks \in Nat /\ bin \in BinType
  BY BinFields DEF BinInv
<1>3. /\ bin.i = bin.blk_first /\ bin.pos = 0 /\ nor = before /\ bin.left = Seen - Bytes(bin.blk_last)
      /\ bin.blk_first \in 0 .. NumBlks - 1 /\ bin.blk_first <= bin.blk_last
      /\ nor = [a \in ChipWords |-> nor[a]] /\ block_buf = [w \in 0 .. BigWords - 1 |-> block_buf[w]]
  BY <1>1 DEF BinInv
<1>4. /\ L \in Nat /\ W \in Nat \ {0} /\ flash_blk_addr(bin.blk_last + 1) = L + W
      /\ FLASH_BLK_SIZE(bin.blk_last) = 2 * W /\ flash_blk_addr(bin.blk_first) \in Nat
  BY <1>2, AddressNext
<1>5. bin' = [at |-> "count", name |-> bin.name, size |-> bin.size, pos |-> bin.pos,
              blk_first |-> bin.blk_first, blk_last |-> bin.blk_last + 1, i |-> bin.i, left |-> bin.left - 2 * W]
  <2>1. bin' = [bin EXCEPT !.left = @ - 2 * W, !.blk_last = @ + 1]
    BY <1>1, <1>4
  <2> HIDE DEF W
  <2> QED BY <1>1, <2>1, BinFields
<1>6. Bytes(bin.blk_last + 1) = Bytes(bin.blk_last) + 2 * W /\ Bytes(bin.blk_last) \in Int
  BY <1>4 DEF Bytes
<1> HIDE DEF L, W
<1>7. bin.left - 2 * W = Seen - Bytes(bin.blk_last + 1) /\ Seen > Bytes(bin.blk_last)
  <2> DEFINE s == Bytes(bin.blk_last)
  <2>1. bin.left \in Int /\ Seen \in Int /\ bin.left > 0 /\ bin.left = Seen - s
    BY <1>1, <1>2, <1>3, IntOf DEF Seen
  <2>2. Bytes(bin.blk_last + 1) = s + 2 * W /\ s \in Int /\ W \in Nat
    BY <1>4, <1>6
  <2> HIDE DEF s
  <2>3. bin.left - 2 * W = Seen - (s + 2 * W) /\ Seen > s
    BY <2>1, <2>2
  <2> QED BY <2>2, <2>3 DEF s
<1>8. bin.blk_last + 1 \in Nat /\ bin.left - 2 * W \in Int /\ bin.name \in {"", "a", "b"}
  <2>1. bin.name \in {"", "a", "b"}
    BY <1>2 DEF BinType
  <2>2. bin.blk_last + 1 \in Nat
    BY <1>2
  <2>3. bin.left - 2 * W \in Int
    BY <1>2, <1>4
  <2> QED BY <2>1, <2>2, <2>3, Zenon
<1>9. bin' \in BinType
  BY <1>2, <1>5, <1>8 DEF BinType
<1>10. /\ bin'.at = "count" /\ bin'.i = bin.blk_first /\ bin'.pos = 0 /\ bin'.size = bin.size
       /\ bin'.blk_first = bin.blk_first /\ bin'.blk_last = bin.blk_last + 1 /\ bin'.left = bin.left - 2 * W
  BY <1>3, <1>5
<1>11. bin'.left = Seen' - Bytes(bin.blk_last)' /\ Seen' > Bytes(bin.blk_last - 1)'
  <2>1. Bytes(bin.blk_last)' = Bytes(bin.blk_last + 1)
    BY <1>10 DEF Bytes
  <2>2. (bin.blk_last - 1)' = bin.blk_last
    BY <1>2, <1>10
  <2>3. Bytes(bin.blk_last - 1)' = Bytes(bin.blk_last)
    BY <1>10, <2>2 DEF Bytes
  <2>4. Seen' = Seen
    BY <1>10 DEF Seen
  <2> QED BY <1>7, <1>10, <2>1, <2>3, <2>4
<1>12. bin'.blk_first \in 0 .. NumBlks - 1 /\ bin'.blk_first <= bin'.blk_last
  BY <1>2, <1>3, <1>10
<1>13. nor' = before' /\ nor' = [a \in ChipWords |-> nor'[a]] /\ block_buf' = [w \in 0 .. BigWords - 1 |-> block_buf'[w]]
  BY <1>1, <1>3
<1> QED BY <1>9, <1>10, <1>11, <1>12, <1>13 DEF BinInv

\* The end of the count: nothing is sent yet.
LEMMA CountedKeeps ==
  ASSUME BinInv, Counted
  PROVE  BinInv'
<1>1. /\ bin.at = "count" /\ bin.left <= 0 /\ nor' = nor /\ block_buf' = block_buf /\ before' = before
      /\ bin' = [bin EXCEPT !.at = IF DoesNotFit THEN "refused" ELSE "flash"]
  BY DEF Counted
<1>2. /\ bin.size \in Nat /\ bin.pos \in Nat /\ bin.i \in Nat /\ bin.left \in Int
      /\ bin.blk_first \in Nat /\ bin.blk_last \in Nat /\ NumBlks \in Nat /\ bin \in BinType
  BY BinFields DEF BinInv
<1>3. /\ bin.i = bin.blk_first /\ bin.pos = 0 /\ nor = before /\ bin.left = Seen - Bytes(bin.blk_last)
      /\ bin.blk_last > bin.blk_first => Seen > Bytes(bin.blk_last - 1)
      /\ bin.blk_first \in 0 .. NumBlks - 1 /\ bin.blk_first <= bin.blk_last
      /\ nor = [a \in ChipWords |-> nor[a]] /\ block_buf = [w \in 0 .. BigWords - 1 |-> block_buf[w]]
  BY <1>1 DEF BinInv
<1>4. flash_blk_addr(bin.blk_first) \in Nat /\ flash_blk_addr(bin.blk_last) \in Nat
  BY <1>2, AddressNext
<1>5. Bytes(bin.blk_last) \in Int /\ Bytes(bin.blk_first) = 0
  BY <1>4 DEF Bytes
<1>6. Seen <= Bytes(bin.blk_last)
  <2>1. Seen \in Int
    BY <1>2, IntOf DEF Seen
  <2> QED BY <1>1, <1>2, <1>3, <1>5, <2>1
<1>7. Enough
  BY <1>3, <1>6 DEF Enough
<1>8. /\ bin' \in BinType /\ bin'.name = bin.name /\ bin'.size = bin.size /\ bin'.pos = 0
      /\ bin'.blk_first = bin.blk_first /\ bin'.blk_last = bin.blk_last /\ bin'.i = bin.blk_first
      /\ bin'.at = IF DoesNotFit THEN "refused" ELSE "flash"
  <2> DEFINE to == IF DoesNotFit THEN "refused" ELSE "flash"
  <2>1. to \in {"refused", "flash"}
    OBVIOUS
  <2>2. bin' = [bin EXCEPT !.at = to]
    BY <1>1
  <2> HIDE DEF to
  <2>3. bin' = [at |-> to, name |-> bin.name, size |-> bin.size, pos |-> bin.pos, blk_first |-> bin.blk_first,
                blk_last |-> bin.blk_last, i |-> bin.i, left |-> bin.left]
    BY <2>2, BinFields
  <2>4. bin.name \in {"", "a", "b"}
    BY <1>2 DEF BinType
  <2>5. bin' \in BinType
    BY <1>2, <2>1, <2>3, <2>4 DEF BinType
  <2>6. bin'.at = IF DoesNotFit THEN "refused" ELSE "flash"
    BY <2>3 DEF to
  <2> QED BY <1>3, <2>3, <2>5, <2>6
<1>9. Enough'
  BY <1>7, <1>8 DEF Enough, Bytes, Seen
<1>10. bin'.at = "refused" => bin'.blk_last > NumBlks
  BY <1>8 DEF DoesNotFit
<1>11. bin'.at = "flash" => bin'.blk_last <= NumBlks
  BY <1>2, <1>8 DEF DoesNotFit
<1>12. bin'.i \in bin'.blk_first .. bin'.blk_last
  BY <1>2, <1>3, <1>8
<1>13. bin'.pos = Sent'
  <2>1. Bytes(bin.i)' = 0
    BY <1>5, <1>8 DEF Bytes
  <2>2. ~(bin'.i < bin'.blk_last) => All' = 0
    <3>1. bin.blk_first >= bin.blk_last => bin.blk_last = bin.blk_first
      BY <1>2, <1>3
    <3>2. bin.blk_first >= bin.blk_last => Bytes(bin.blk_last)' = 0
      BY <1>5, <1>8, <3>1 DEF Bytes
    <3> QED BY <1>2, <1>8, <3>2 DEF All
  <2> QED BY <1>8, <2>1, <2>2 DEF Sent
<1>14. Burned'
  BY <1>8 DEF Burned, WordCount
<1>15. Kept'
  BY <1>1, <1>3 DEF Kept
<1>16. bin'.blk_first \in 0 .. NumBlks - 1 /\ bin'.blk_first <= bin'.blk_last
  BY <1>3, <1>8
<1>17. nor' = [a \in ChipWords |-> nor'[a]] /\ block_buf' = [w \in 0 .. BigWords - 1 |-> block_buf'[w]]
  BY <1>1, <1>3
<1>18. bin'.at \in {"refused", "flash"}
  BY <1>8
<1> QED BY <1>8, <1>9, <1>10, <1>11, <1>12, <1>13, <1>14, <1>15, <1>16, <1>17, <1>18 DEF BinInv

\* The end of the loop.
LEMMA FlashedKeeps ==
  ASSUME BinInv, Flashed
  PROVE  BinInv'
<1>1. /\ bin.at = "flash" /\ bin.i = bin.blk_last /\ nor' = nor /\ block_buf' = block_buf /\ before' = before
      /\ bin' = [bin EXCEPT !.at = "done"]
  BY DEF Flashed
<1>2. /\ bin \in BinType /\ Enough /\ bin.blk_last <= NumBlks /\ bin.i \in bin.blk_first .. bin.blk_last
      /\ bin.pos = Sent /\ Burned /\ Kept /\ bin.blk_first \in 0 .. NumBlks - 1 /\ bin.blk_first <= bin.blk_last
      /\ nor = [a \in ChipWords |-> nor[a]] /\ block_buf = [w \in 0 .. BigWords - 1 |-> block_buf[w]]
  BY <1>1 DEF BinInv
<1>3. /\ bin' \in BinType /\ bin'.name = bin.name /\ bin'.size = bin.size /\ bin'.pos = bin.pos
      /\ bin'.blk_first = bin.blk_first /\ bin'.blk_last = bin.blk_last /\ bin'.i = bin.i /\ bin'.at = "done"
  BY <1>1, <1>2 DEF BinType
<1>4. Enough' /\ bin'.pos = Sent' /\ Burned' /\ Kept'
  <2>1. Enough'
    BY <1>2, <1>3 DEF Enough, Bytes, Seen
  <2>2. Sent' = Sent
    BY <1>3 DEF Sent, All, Bytes
  <2>3. Burned'
    BY <1>1, <1>2, <1>3 DEF Burned
  <2>4. Kept'
    BY <1>1, <1>2, <1>3 DEF Kept
  <2> QED BY <1>2, <1>3, <2>1, <2>2, <2>3, <2>4
<1>5. bin'.i = bin'.blk_last /\ bin'.i \in bin'.blk_first .. bin'.blk_last /\ bin'.blk_last <= NumBlks
  BY <1>1, <1>2, <1>3
<1>6. bin'.blk_first \in 0 .. NumBlks - 1 /\ bin'.blk_first <= bin'.blk_last
  BY <1>2, <1>3
<1>7. nor' = [a \in ChipWords |-> nor'[a]] /\ block_buf' = [w \in 0 .. BigWords - 1 |-> block_buf'[w]]
  BY <1>1, <1>2
<1> QED BY <1>3, <1>4, <1>5, <1>6, <1>7 DEF BinInv

\* Another file begins from what the chip is then.
LEMMA StartKeeps ==
  ASSUME BinInv, NEW name \in {"a", "b"}, NEW size \in Nat, NEW b \in 0 .. NumBlks - 1, StartBin(name, size, b)
  PROVE  BinInv'
<1>1. /\ bin' = [at |-> "count", name |-> name, size |-> size, pos |-> 0,
                 blk_first |-> b, blk_last |-> b, i |-> b, left |-> ToInt(size)]
      /\ before' = nor /\ nor' = nor /\ block_buf' = block_buf
  BY DEF StartBin
<1>2. b \in Nat /\ b <= b
  BY BlocksAssumption
<1>3. bin' \in BinType
  <2>1. ToInt(size) \in Int /\ 0 \in Nat /\ b \in Nat
    BY <1>2, IntOf, SMT
  <2>2. name \in {"", "a", "b"}
    BY Zenon
  <2> DEFINE r == [at |-> "count", name |-> name, size |-> size, pos |-> 0,
                   blk_first |-> b, blk_last |-> b, i |-> b, left |-> ToInt(size)]
  <2>3. r \in BinType
    BY <2>1, <2>2, Zenon DEF BinType
  <2> QED BY <1>1, <2>3
<1>4. /\ bin'.at = "count" /\ bin'.i = b /\ bin'.pos = 0 /\ bin'.size = size /\ bin'.left = ToInt(size)
      /\ bin'.blk_first = b /\ bin'.blk_last = b
  BY <1>1
<1>5. Bytes(bin.blk_last)' = 0
  <2>1. flash_blk_addr(b) \in Nat
    BY <1>2, AddressNext
  <2> QED BY <1>4, <2>1 DEF Bytes
<1>6. nor' = [a \in ChipWords |-> nor'[a]] /\ block_buf' = [w \in 0 .. BigWords - 1 |-> block_buf'[w]]
  BY <1>1 DEF BinInv
<1>7. bin'.left = Seen' - Bytes(bin.blk_last)' /\ ~(bin'.blk_last > bin'.blk_first)
  <2>1. Seen' = ToInt(size) /\ ToInt(size) \in Int
    BY <1>4, IntOf DEF Seen
  <2> QED BY <1>2, <1>4, <1>5, <2>1
<1> QED BY <1>1, <1>2, <1>3, <1>4, <1>6, <1>7 DEF BinInv

-----------------------------------------------------------------------------
(* The marks on the line.                                                  *)

\* The bits that stand for a mark, the byte they make, and those in its place r.
Two == {0, 2, 3}
Byte(b, c, d, e) == b * 64 + c * 16 + d * 4 + e
Place(r, b, c, d, e) == IF r = 0 THEN b ELSE IF r = 1 THEN c ELSE IF r = 2 THEN d ELSE e

\* The byte that mark q of s and the three after it make.
Quad(s, q) == Byte(BitsOf(s[q]), BitsOf(s[q + 1]), BitsOf(s[q + 2]), BitsOf(s[q + 3]))

\* What is packed of the byte that is not full: the marks of s from q on, r.
Part(s, q, r) == (IF r > 0 THEN BitsOf(s[q]) * 64 ELSE 0) + (IF r > 1 THEN BitsOf(s[q + 1]) * 16 ELSE 0)
                 + (IF r > 2 THEN BitsOf(s[q + 2]) * 4 ELSE 0)

MarksInv ==
  /\ read \in Seq(MarkBytes) /\ Len(read) <= NumMarks
  /\ sent \in Seq(Nat) /\ Len(sent) = Len(read) \div 4
  /\ packed_ind = 8 - 2 * (Len(read) % 4)
  /\ packed = Part(read, (4 * Len(sent)) + 1, Len(read) % 4)
  /\ \A k \in 1 .. Len(sent) : sent[k] = Quad(read, (4 * k) - 3)
  /\ sect_marks # <<>> => Len(read) = NumMarks /\ MarksArrive

\* Two bits a mark, and only those of a used or a blank sector are not zero.
LEMMA BitsType ==
  ASSUME NEW m
  PROVE  BitsOf(m) \in Two
BY DEF BitsOf, Two

\* A byte shifted left by two bits a mark begins with that mark's bits.
LEMMA ShiftTakes ==
  ASSUME NEW b \in Two, NEW c \in Two, NEW d \in Two, NEW e \in Two
  PROVE  /\ (Byte(b, c, d, e) * 1) % 256 = b * 64 + c * 16 + d * 4 + e
         /\ (Byte(b, c, d, e) * 4) % 256 = c * 64 + d * 16 + e * 4
         /\ (Byte(b, c, d, e) * 16) % 256 = d * 64 + e * 16
         /\ (Byte(b, c, d, e) * 64) % 256 = e * 64
<1> DEFINE byte == Byte(b, c, d, e)
<1>1. b \in 0 .. 3 /\ c \in 0 .. 3 /\ d \in 0 .. 3 /\ e \in 0 .. 3
  BY DEF Two
<1>2. byte \in Nat /\ byte < 256 /\ byte = b * 64 + c * 16 + d * 4 + e
  BY <1>1 DEF Byte
<1>3. /\ byte * 4 = 256 * b + (c * 64 + d * 16 + e * 4) /\ c * 64 + d * 16 + e * 4 \in 0 .. 255
      /\ byte * 16 = 256 * (b * 4 + c) + (d * 64 + e * 16) /\ d * 64 + e * 16 \in 0 .. 255
      /\ byte * 64 = 256 * (b * 16 + c * 4 + d) + e * 64 /\ e * 64 \in 0 .. 255
  BY <1>1, <1>2
<1>4. ASSUME NEW q \in Int, NEW r \in 0 .. 255
      PROVE  (256 * q + r) % 256 = r
  OBVIOUS
<1> HIDE DEF byte
<1> QED BY <1>1, <1>2, <1>3, <1>4 DEF byte

\* What the host takes from the shifted byte is the mark, or zero.
Taken(t) == IF t >= 192 THEN 255 ELSE IF t >= 128 THEN 240 ELSE 0
Meant(m) == IF m \in {240, 255} THEN m ELSE 0

\* The bits m are the first of the byte t.
Tops(m, t) == \E rest \in 0 .. 63 : t = (m * 64) + rest

\* What the preloader takes from the two top bits is the mark that was sent.
LEMMA TakenRight ==
  ASSUME NEW m \in MarkBytes, NEW t \in Nat, NEW rest \in 0 .. 63, t = (BitsOf(m) * 64) + rest
  PROVE  Taken(t) = Meant(m)
<1>1. CASE m = 255
  <2>1. t >= 192
    BY <1>1 DEF BitsOf
  <2> QED BY <1>1, <2>1 DEF Taken, Meant
<1>2. CASE m = 240
  <2>1. t >= 128 /\ ~(t >= 192)
    BY <1>2 DEF BitsOf
  <2> QED BY <1>2, <2>1 DEF Taken, Meant
<1>3. CASE m \notin {240, 255}
  <2>1. ~(t >= 128) /\ ~(t >= 192)
    BY <1>3 DEF BitsOf
  <2> QED BY <1>3, <2>1 DEF Taken, Meant
<1> QED BY <1>1, <1>2, <1>3

\* The mark in place r of a byte comes to the top, whatever follows it.
LEMMA OnTop ==
  ASSUME NEW b \in Two, NEW c \in Two, NEW d \in Two, NEW e \in Two, NEW r \in 0 .. 3
  PROVE  Tops(Place(r, b, c, d, e), (Byte(b, c, d, e) * Bit(2 * r)) % 256)
<1> DEFINE byte == Byte(b, c, d, e)
           m == Place(r, b, c, d, e)
<1>1. /\ (byte * 1) % 256 = b * 64 + c * 16 + d * 4 + e /\ (byte * 4) % 256 = c * 64 + d * 16 + e * 4
      /\ (byte * 16) % 256 = d * 64 + e * 16 /\ (byte * 64) % 256 = e * 64
  BY ShiftTakes
<1>2. /\ c * 16 + d * 4 + e \in 0 .. 63 /\ d * 16 + e * 4 \in 0 .. 63 /\ e * 16 \in 0 .. 63 /\ 0 \in 0 .. 63
      /\ b \in Nat /\ c \in Nat /\ d \in Nat /\ e \in Nat
  BY DEF Two
<1> HIDE DEF byte
<1>3. CASE r = 0
  <2>1. Bit(2 * r) = 1 /\ m = b
    BY <1>3 DEF Bit, Place
  <2>2. (byte * Bit(2 * r)) % 256 = (m * 64) + (c * 16 + d * 4 + e)
    <3> HIDE DEF m
    <3> QED BY <1>1, <1>2, <2>1
  <2> DEFINE t == (byte * Bit(2 * r)) % 256
  <2>3. Tops(m, t)
    <3> HIDE DEF m, t
    <3> QED BY <1>2, <2>2 DEF Tops, t
  <2> QED BY <2>3 DEF byte
<1>4. CASE r = 1
  <2>1. Bit(2 * r) = 4 /\ m = c
    BY <1>4 DEF Bit, Place
  <2>2. (byte * Bit(2 * r)) % 256 = (m * 64) + (d * 16 + e * 4)
    <3> HIDE DEF m
    <3> QED BY <1>1, <1>2, <2>1
  <2> DEFINE t == (byte * Bit(2 * r)) % 256
  <2>3. Tops(m, t)
    <3> HIDE DEF m, t
    <3> QED BY <1>2, <2>2 DEF Tops, t
  <2> QED BY <2>3 DEF byte
<1>5. CASE r = 2
  <2>1. Bit(2 * r) = 16 /\ m = d
    BY <1>5 DEF Bit, Place
  <2>2. (byte * Bit(2 * r)) % 256 = (m * 64) + (e * 16)
    <3> HIDE DEF m
    <3> QED BY <1>1, <1>2, <2>1
  <2> DEFINE t == (byte * Bit(2 * r)) % 256
  <2>3. Tops(m, t)
    <3> HIDE DEF m, t
    <3> QED BY <1>2, <2>2 DEF Tops, t
  <2> QED BY <2>3 DEF byte
<1>6. CASE r = 3
  <2>1. Bit(2 * r) = 64 /\ m = e
    BY <1>6 DEF Bit, Place
  <2>2. (byte * Bit(2 * r)) % 256 = (m * 64) + 0
    <3> HIDE DEF m
    <3> QED BY <1>1, <1>2, <2>1
  <2> DEFINE t == (byte * Bit(2 * r)) % 256
  <2>3. Tops(m, t)
    <3> HIDE DEF m, t
    <3> QED BY <1>2, <2>2 DEF Tops, t
  <2> QED BY <2>3 DEF byte
<1>7. r \in {0, 1, 2, 3}
  OBVIOUS
<1> QED BY <1>3, <1>4, <1>5, <1>6, <1>7

\* Unpacking returns every mark the phone has read.
LEMMA Unpacks ==
  ASSUME MarksInv, Len(read) = NumMarks, NEW j \in 1 .. NumMarks
  PROVE  Taken(tmp_mark(j - 1)) = Meant(read[j])
<1> DEFINE i == j - 1
           k == i \div 4
           r == i % 4
           q == (4 * k) + 1
           byte == sent[k + 1]
           m == BitsOf(read[j])
<1>1. NumMarks \in Nat /\ NumMarks % 4 = 0 /\ Len(sent) = NumMarks \div 4
  BY MarksAssumption DEF MarksInv
<1>2. /\ i \in Nat /\ i < NumMarks /\ k \in Nat /\ r \in 0 .. 3 /\ i = (4 * k) + r /\ k + 1 \in 1 .. Len(sent)
      /\ (4 * (k + 1)) - 3 = q /\ q + r = j /\ q \in Nat
  BY <1>1
<1>3. byte = Byte(BitsOf(read[q]), BitsOf(read[q + 1]), BitsOf(read[q + 2]), BitsOf(read[q + 3]))
  BY <1>2 DEF MarksInv, Quad
<1>4. tmp_mark(j - 1) = (byte * Bit(2 * r)) % 256
  BY DEF tmp_mark
<1>5. read[j] \in MarkBytes
  <2>1. j \in 1 .. Len(read) /\ read \in Seq(MarkBytes)
    BY <1>1 DEF MarksInv
  <2> QED BY <2>1
<1> HIDE DEF i, k, r, q, byte
<1>6. m = Place(r, BitsOf(read[q]), BitsOf(read[q + 1]), BitsOf(read[q + 2]), BitsOf(read[q + 3]))
  <2>1. r = 0 => q = j
    BY <1>2
  <2>2. r = 1 => q + 1 = j
    BY <1>2
  <2>3. r = 2 => q + 2 = j
    BY <1>2
  <2>4. ~(r = 0 \/ r = 1 \/ r = 2) => q + 3 = j
    BY <1>2
  <2> QED BY <2>1, <2>2, <2>3, <2>4, Zenon DEF Place
<1>7. Tops(m, (byte * Bit(2 * r)) % 256)
  <2> HIDE DEF m
  <2>1. /\ BitsOf(read[q]) \in Two /\ BitsOf(read[q + 1]) \in Two
        /\ BitsOf(read[q + 2]) \in Two /\ BitsOf(read[q + 3]) \in Two
    BY BitsType, Zenon
  <2> DEFINE b == BitsOf(read[q])
             c == BitsOf(read[q + 1])
             d == BitsOf(read[q + 2])
             e == BitsOf(read[q + 3])
  <2>2. byte = Byte(b, c, d, e) /\ m = Place(r, b, c, d, e) /\ r \in 0 .. 3
    BY <1>2, <1>3, <1>6
  <2> HIDE DEF b, c, d, e
  <2>3. Tops(Place(r, b, c, d, e), (Byte(b, c, d, e) * Bit(2 * r)) % 256)
    BY <2>1, <2>2, OnTop DEF b, c, d, e
  <2> QED BY <2>2, <2>3
<1>8. m \in Nat
  BY BitsType DEF Two
<1>9. PICK rest \in 0 .. 63 : tmp_mark(j - 1) = (m * 64) + rest
  BY <1>4, <1>7 DEF Tops
<1>10. (m * 64) + rest \in Nat
  <2> HIDE DEF m
  <2> QED BY <1>8
<1>11. Taken((m * 64) + rest) = Meant(read[j])
  BY <1>5, <1>10, TakenRight
<1> QED BY <1>9, <1>11, Zenon

\* Packing: the bytes sent are the marks read so far, four to a byte, and
\* packed holds the rest.
LEMMA PackKeeps ==
  ASSUME MarksInv, NEW m \in MarkBytes, PackMark(m)
  PROVE  MarksInv'
<1> DEFINE L == Len(read)
           S == Len(sent)
           r == L % 4
           q == (4 * S) + 1
           ind == 6 - (2 * r)
           byte == packed + (BitsOf(m) * Bit(ind))
<1>1. /\ read \in Seq(MarkBytes) /\ sent \in Seq(Nat) /\ L < NumMarks /\ NumMarks \in Nat
      /\ read' = Append(read, m) /\ sect_marks' = sect_marks /\ S = L \div 4
      /\ packed_ind = 8 - (2 * r) /\ packed = Part(read, q, r)
      /\ \A k \in 1 .. S : sent[k] = Quad(read, (4 * k) - 3)
  BY MarksAssumption DEF MarksInv, PackMark
<1>2. /\ L \in Nat /\ S \in Nat /\ r \in 0 .. 3 /\ L = (4 * S) + r /\ q + r = L + 1 /\ q \in Nat
      /\ (L + 1) \div 4 = S + (IF r = 3 THEN 1 ELSE 0) /\ (L + 1) % 4 = (IF r = 3 THEN 0 ELSE r + 1)
      /\ packed_ind - 2 = ind /\ (ind = 0 <=> r = 3)
  <2>1. L \in Nat /\ S = L \div 4 /\ r = L % 4 /\ packed_ind = 8 - (2 * r)
    BY <1>1
  <2> HIDE DEF L, S, r
  <2>2. S \in Nat /\ r \in 0 .. 3 /\ L = (4 * S) + r
    BY <2>1
  <2>3. (L + 1) \div 4 = S + (IF r = 3 THEN 1 ELSE 0) /\ (L + 1) % 4 = (IF r = 3 THEN 0 ELSE r + 1)
    BY <2>1, <2>2
  <2>4. packed_ind - 2 = ind /\ (ind = 0 <=> r = 3)
    BY <2>1, <2>2
  <2> QED BY <2>1, <2>2, <2>3, <2>4
<1>3. IF r = 3 THEN sent' = Append(sent, byte) /\ packed' = 0 /\ packed_ind' = 8
      ELSE packed' = byte /\ packed_ind' = ind /\ sent' = sent
  BY <1>2 DEF PackMark
<1>4. sect_marks = <<>>
  BY <1>1 DEF MarksInv
<1>5. /\ read' \in Seq(MarkBytes) /\ Len(read') = L + 1 /\ Len(read') <= NumMarks
      /\ \A k \in 1 .. L : read'[k] = read[k]
      /\ read'[L + 1] = m
  BY <1>1, <1>2
<1> HIDE DEF L, S, r, q, ind, byte
<1>6. ASSUME NEW k \in 1 .. S
      PROVE  Quad(read', (4 * k) - 3) = Quad(read, (4 * k) - 3)
  <2> DEFINE p == (4 * k) - 3
  <2>1. p \in 1 .. L /\ p + 1 \in 1 .. L /\ p + 2 \in 1 .. L /\ p + 3 \in 1 .. L
    BY <1>2
  <2>2. /\ read'[p] = read[p] /\ read'[p + 1] = read[p + 1] /\ read'[p + 2] = read[p + 2]
        /\ read'[p + 3] = read[p + 3]
    BY <1>5, <2>1
  <2> HIDE DEF p
  <2>3. Quad(read', p) = Quad(read, p)
    BY <2>2 DEF Quad
  <2> QED BY <2>3 DEF p
<1>7. /\ r > 0 => read'[q] = read[q]
      /\ r > 1 => read'[q + 1] = read[q + 1]
      /\ r > 2 => read'[q + 2] = read[q + 2]
      /\ r = 0 => read'[q] = m
      /\ r = 1 => read'[q + 1] = m
      /\ r = 2 => read'[q + 2] = m
      /\ r = 3 => read'[q + 3] = m
  <2>1. (r > 0 => q \in 1 .. L) /\ (r > 1 => q + 1 \in 1 .. L) /\ (r > 2 => q + 2 \in 1 .. L)
    BY <1>2
  <2>2. (r = 0 => q = L + 1) /\ (r = 1 => q + 1 = L + 1) /\ (r = 2 => q + 2 = L + 1) /\ (r = 3 => q + 3 = L + 1)
    BY <1>2
  <2> QED BY <1>5, <2>1, <2>2
<1>8. byte \in Nat /\ byte = packed + (BitsOf(m) * Bit(ind)) /\ packed = Part(read, q, r)
  <2>1. packed \in Nat
    <3>1. BitsOf(read[q]) \in Nat /\ BitsOf(read[q + 1]) \in Nat /\ BitsOf(read[q + 2]) \in Nat
      BY BitsType DEF Two
    <3>2. Part(read, q, r) \in Nat
      BY <3>1 DEF Part
    <3> QED BY <1>1, <3>2 DEF q, r, S, L
  <2>2. BitsOf(m) \in Nat /\ Bit(ind) \in Nat
    BY BitsType DEF Two, Bit
  <2>3. byte = packed + (BitsOf(m) * Bit(ind))
    BY DEF byte
  <2>4. byte \in Nat
    BY <2>1, <2>2, <2>3
  <2> QED BY <1>1, <2>3, <2>4 DEF q, r, S, L
<1>9. CASE r = 3
  <2>1. byte = Quad(read', q)
    <3>1. ind = 0 /\ Bit(ind) = 1
      BY <1>2, <1>9 DEF Bit
    <3>2. BitsOf(m) \in Nat
      BY BitsType DEF Two
    <3>3. byte = BitsOf(read'[q]) * 64 + BitsOf(read'[q + 1]) * 16 + BitsOf(read'[q + 2]) * 4 + BitsOf(m)
      <4>1. Part(read, q, r) = BitsOf(read'[q]) * 64 + BitsOf(read'[q + 1]) * 16 + BitsOf(read'[q + 2]) * 4
        BY <1>7, <1>9 DEF Part
      <4> QED BY <1>8, <3>1, <3>2, <4>1
    <3> QED BY <1>7, <1>9, <3>3 DEF Quad, Byte
  <2>2. sent' = Append(sent, byte) /\ packed' = 0 /\ packed_ind' = 8
    BY <1>3, <1>9
  <2>3. sent' \in Seq(Nat) /\ Len(sent') = S + 1 /\ sent'[S + 1] = byte /\ \A k \in 1 .. S : sent'[k] = sent[k]
    BY <1>1, <1>8, <2>2 DEF S
  <2>4. (4 * (S + 1)) - 3 = q /\ q = (4 * S) + 1
    BY <1>2 DEF q
  <2>5. \A k \in 1 .. S + 1 : sent'[k] = Quad(read', (4 * k) - 3)
    <3> SUFFICES ASSUME NEW k \in 1 .. S + 1 PROVE sent'[k] = Quad(read', (4 * k) - 3)
      OBVIOUS
    <3>1. CASE k = S + 1
      <4>1. (4 * k) - 3 = q
        BY <2>4, <3>1
      <4>2. sent'[k] = byte
        BY <2>3, <3>1
      <4> QED BY <2>1, <4>1, <4>2
    <3>2. CASE k # S + 1
      <4>1. k \in 1 .. S
        BY <1>2, <3>2
      <4> QED BY <1>1, <1>6, <2>3, <4>1 DEF S
    <3> QED BY <3>1, <3>2
  <2>6. Len(read') % 4 = 0 /\ Len(read') \div 4 = S + 1
    BY <1>2, <1>5, <1>9
  <2>7. packed' = Part(read', (4 * Len(sent')) + 1, Len(read') % 4)
    BY <2>2, <2>6 DEF Part
  <2>8. packed_ind' = 8 - 2 * (Len(read') % 4)
    BY <2>2, <2>6
  <2> QED BY <1>1, <1>4, <1>5, <2>3, <2>5, <2>6, <2>7, <2>8 DEF MarksInv
<1>10. CASE r # 3
  <2>1. packed' = byte /\ packed_ind' = ind /\ sent' = sent
    BY <1>3, <1>10
  <2>2. Len(read') % 4 = r + 1 /\ Len(read') \div 4 = S
    BY <1>2, <1>5, <1>10
  <2>3. byte = Part(read', q, r + 1)
    <3>1. BitsOf(m) \in Nat
      BY BitsType DEF Two
    <3>2. CASE r = 0
      <4>1. Bit(ind) = 64
        BY <3>2 DEF Bit, ind
      <4>2. Part(read, q, r) = 0 /\ Part(read', q, r + 1) = BitsOf(m) * 64
        BY <1>7, <3>1, <3>2 DEF Part
      <4> QED BY <1>8, <3>1, <4>1, <4>2
    <3>3. CASE r = 1
      <4>1. Bit(ind) = 16 /\ Part(read, q, r) = BitsOf(read[q]) * 64 /\ BitsOf(read[q]) \in Nat
        BY <3>3, BitsType DEF Bit, Part, ind, Two
      <4>2. Part(read', q, r + 1) = BitsOf(read[q]) * 64 + BitsOf(m) * 16
        BY <1>7, <3>1, <3>3, <4>1 DEF Part
      <4> QED BY <1>8, <3>1, <4>1, <4>2
    <3>4. CASE r = 2
      <4>1. /\ Bit(ind) = 4 /\ Part(read, q, r) = BitsOf(read[q]) * 64 + BitsOf(read[q + 1]) * 16
            /\ BitsOf(read[q]) \in Nat /\ BitsOf(read[q + 1]) \in Nat
        BY <3>4, BitsType DEF Bit, Part, ind, Two
      <4>2. Part(read', q, r + 1) = BitsOf(read[q]) * 64 + BitsOf(read[q + 1]) * 16 + BitsOf(m) * 4
        BY <1>7, <3>1, <3>4, <4>1 DEF Part
      <4> QED BY <1>8, <3>1, <4>1, <4>2
    <3> QED BY <1>2, <1>10, <3>2, <3>3, <3>4
  <2>4. packed' = Part(read', (4 * Len(sent')) + 1, Len(read') % 4)
    <3>1. (4 * Len(sent')) + 1 = q
      BY <2>1 DEF q, S
    <3> QED BY <2>1, <2>2, <2>3, <3>1
  <2>5. packed_ind' = 8 - 2 * (Len(read') % 4)
    BY <1>2, <2>1, <2>2 DEF ind
  <2>6. sent' \in Seq(Nat) /\ Len(sent') = S
    BY <1>1, <2>1 DEF S
  <2>7. \A k \in 1 .. S : sent'[k] = Quad(read', (4 * k) - 3)
    BY <1>1, <1>6, <2>1 DEF S
  <2> QED BY <1>1, <1>4, <1>5, <2>2, <2>4, <2>5, <2>6, <2>7 DEF MarksInv
<1> QED BY <1>9, <1>10

\* Unpacking them.
LEMMA UnpackKeeps ==
  ASSUME MarksInv, UnpackMarks
  PROVE  MarksInv'
<1>1. /\ Len(read) = NumMarks /\ read' = read /\ packed' = packed /\ packed_ind' = packed_ind /\ sent' = sent
      /\ sect_marks' = [i \in 1 .. NumMarks |-> Taken(tmp_mark(i - 1))]
  BY DEF UnpackMarks, Taken
<1>2. \A i \in 1 .. NumMarks : sect_marks'[i] = Meant(read[i])
  BY <1>1, Unpacks
<1>3. MarksArrive'
  BY <1>1, <1>2 DEF MarksArrive, Meant
<1> QED BY <1>1, <1>3 DEF MarksInv

-----------------------------------------------------------------------------
(* The three along every run.                                              *)

Inv == HexInv /\ BinInv /\ MarksInv

\* The three jobs begin in their invariants;
LEMMA InvInit == Init => Inv
<1> SUFFICES ASSUME Init PROVE Inv
  OBVIOUS
<1>1. PICK s \in Nat, n \in Nat \ {0} : HexInit(s, n)
  <2>1. CASE job = "download"
    <3>1. PICK s \in Starts, n \in 1 .. MaxLen : HexInit(s, n)
      BY <2>1 DEF Init
    <3>2. s \in Nat /\ n \in Nat \ {0}
      BY SizesAssumption
    <3> QED BY <3>1, <3>2
  <2>2. CASE job # "download"
    BY <2>2 DEF Init
  <2> QED BY <2>1, <2>2
<1>2. HexInv
  <2>1. /\ start = s /\ len = n /\ hex = [offset |-> s, length |-> n, high |-> None, next |-> "data"]
        /\ rom = [upper |-> 0, ram |-> <<>>, entry |-> None]
    BY <1>1 DEF HexInit
  <2>2. Through = 0
    BY <2>1 DEF Through
  <2>3. Image(s, 0) = <<>>
    <3>1. s .. s + 0 - 1 = {} /\ 1 .. 0 = {}
      OBVIOUS
    <3>2. Image(s, 0) = [a \in {} |-> a - s]
      BY <3>1 DEF Image
    <3> QED BY <3>2
  <2> QED BY <2>1, <2>2, <2>3 DEF HexInv
<1>3. BinInv
  <2>1. PICK w : nor = [a \in ChipWords |-> w]
    BY DEF Init, BinInit
  <2>2. /\ bin = [at |-> "menu", name |-> "", size |-> 0, pos |-> 0, blk_first |-> 0, blk_last |-> 0,
                  i |-> 0, left |-> 0]
        /\ block_buf = [v \in 0 .. BigWords - 1 |-> <<"zero", 0, 2>>]
    BY DEF Init, BinInit
  <2>3. 0 \in Nat /\ 0 \in Int /\ 0 \in 0 .. NumBlks - 1 /\ ~(0 > 0) /\ 0 <= 0
    BY BlocksAssumption
  <2>4. bin \in BinType
    BY <2>2, <2>3, Zenon DEF BinType
  <2>5. bin.at = "menu" /\ bin.blk_first = 0 /\ bin.blk_last = 0
    BY <2>2
  <2>6. nor = [a \in ChipWords |-> nor[a]] /\ block_buf = [v \in 0 .. BigWords - 1 |-> block_buf[v]]
    BY <2>1, <2>2
  <2> QED BY <2>3, <2>4, <2>5, <2>6 DEF BinInv
<1>4. MarksInv
  <2>1. read = <<>> /\ packed = 0 /\ packed_ind = 8 /\ sent = <<>> /\ sect_marks = <<>>
    BY DEF Init, MarksInit
  <2>2. NumMarks \in Nat /\ 0 \div 4 = 0 /\ 0 % 4 = 0
    BY MarksAssumption
  <2>3. Len(read) = 0 /\ Len(sent) = 0 /\ read \in Seq(MarkBytes) /\ sent \in Seq(Nat)
    BY <2>1
  <2> QED BY <2>1, <2>2, <2>3 DEF MarksInv, Part
<1> QED BY <1>2, <1>3, <1>4 DEF Inv

\* What a job does not use stays as it is.
LEMMA HexUntouched ==
  ASSUME HexInv, UNCHANGED hexVars
  PROVE  HexInv'
<1>1. start' = start /\ len' = len /\ hex' = hex /\ rom' = rom
  BY DEF hexVars
<1> QED BY <1>1 DEF HexInv, Through

\* a step of another job does not touch the one;
LEMMA BinUntouched ==
  ASSUME BinInv, UNCHANGED binVars
  PROVE  BinInv'
<1>1. nor' = nor /\ block_buf' = block_buf /\ bin' = bin /\ before' = before
  BY DEF binVars
<1> QED BY <1>1 DEF BinInv, Enough, Burned, Kept, Sent, All, Seen, Bytes

\* likewise the marks;
LEMMA MarksUntouched ==
  ASSUME MarksInv, UNCHANGED marksVars
  PROVE  MarksInv'
<1>1. read' = read /\ packed' = packed /\ packed_ind' = packed_ind /\ sent' = sent /\ sect_marks' = sect_marks
  BY DEF marksVars
<1> QED BY <1>1 DEF MarksInv, MarksArrive

\* and every step keeps all three.
LEMMA InvNext == Inv /\ [Next]_vars => Inv'
<1> SUFFICES ASSUME HexInv, BinInv, MarksInv, [Next]_vars PROVE HexInv' /\ BinInv' /\ MarksInv'
  BY DEF Inv
<1>1. CASE DownloadJob
  BY <1>1, HexKeeps, BinUntouched, MarksUntouched DEF DownloadJob
<1>2. CASE BinJob
  <2>1. HexInv' /\ MarksInv'
    BY <1>2, HexUntouched, MarksUntouched DEF BinJob
  <2>2. CASE BinStep
    BY <2>1, <2>2, CountKeeps, CountedKeeps, ProgramKeeps, FlashedKeeps DEF BinStep
  <2>3. CASE \E name \in {"a", "b"}, size \in Sizes, b \in 0 .. NumBlks - 1 : StartBin(name, size, b)
    <3>1. PICK name \in {"a", "b"}, size \in Sizes, b \in 0 .. NumBlks - 1 : StartBin(name, size, b)
      BY <2>3
    <3>2. size \in Nat
      BY SizesAssumption
    <3> QED BY <2>1, <3>1, <3>2, StartKeeps
  <2> QED BY <1>2, <2>2, <2>3 DEF BinJob
<1>3. CASE CscJob
  <2>1. HexInv' /\ BinInv'
    BY <1>3, HexUntouched, BinUntouched DEF CscJob
  <2>2. MarksInv'
    BY <1>3, PackKeeps, UnpackKeeps DEF CscJob
  <2> QED BY <2>1, <2>2
<1>4. CASE UNCHANGED vars
  BY <1>4, HexUntouched, BinUntouched, MarksUntouched DEF vars
<1> QED BY <1>1, <1>2, <1>3, <1>4 DEF Next

\* create_ihex and the boot ROM: the image arrives whole, in its place, and is
\* started, wherever it begins and however long it is.
THEOREM DownloadLoads == Spec => []ImageLoaded
<1>1. Inv => ImageLoaded
  BY DEF Inv, HexInv, ImageLoaded, Image
<1> QED BY <1>1, InvInit, InvNext, PTL DEF Spec

\* flash_job of a .bin and BLK_PROGRAM: a file of less than half the range of an
\* int, 2 GiB, lies in one piece from its first block on, whatever was on the chip
\* and whatever the buffer held.
THEOREM FileInOnePiece == Spec => []FileBurned
<1>1. Inv => FileBurned
  <2> SUFFICES ASSUME BinInv, bin.at = "done", bin.size < IntRange \div 2 PROVE FileBurned
    BY DEF Inv, FileBurned
  <2>1. Burned /\ bin.pos = Sent /\ bin.i = bin.blk_last /\ Enough
    BY DEF BinInv
  <2>2. bin.size <= Bytes(bin.blk_last)
    BY <2>1, BinFields, IntOf DEF Enough, Seen
  <2>3. bin.pos = bin.size
    BY <2>1, <2>2, BinFields DEF Sent, All
  <2> QED BY <2>1, <2>3 DEF Burned, FileBurned
<1> QED BY <1>1, InvInit, InvNext, PTL DEF Spec

\* BLK_PROGRAM: no word outside the blocks of the file is touched.
THEOREM NothingBeside == Spec => []OthersKept
<1>1. Inv => OthersKept
  <2> SUFFICES ASSUME BinInv, bin.at \in {"flash", "done"}, NEW a \in ChipWords, nor[a] # before[a]
               PROVE  \E b \in bin.blk_first .. bin.blk_last - 1 : a \in WordsOf(b)
    BY DEF Inv, OthersKept
  <2>1. Kept /\ bin.i \in bin.blk_first .. bin.blk_last
    BY DEF BinInv
  <2>2. PICK b \in bin.blk_first .. bin.i - 1 : a \in WordsOf(b)
    BY <2>1 DEF Kept
  <2>3. b \in bin.blk_first .. bin.blk_last - 1
    BY <2>1, BinFields
  <2> QED BY <2>2, <2>3
<1> QED BY <1>1, InvInit, InvNext, PTL DEF Spec

\* flash_job of a .bin: the count refuses no file that the chip has room for from
\* its first block on, and every other of less than half the range of an int.
THEOREM RefusedIfTooLong == Spec => []RefusedRight
<1>1. Inv => RefusedRight
  <2> SUFFICES ASSUME BinInv PROVE RefusedRight
    BY DEF Inv
  <2> DEFINE F == flash_blk_addr(bin.blk_first)
             E == flash_blk_addr(NumBlks)
  <2>1. /\ bin.size \in Nat /\ bin.blk_first \in Nat /\ bin.blk_last \in Nat /\ NumBlks \in Nat
        /\ F \in Nat /\ E \in Nat
        /\ Seen \in Int /\ Seen <= bin.size /\ (bin.size < IntRange \div 2 => Seen = bin.size)
    BY BinFields, AddressNext, IntOf DEF Seen
  <2>2. bin.blk_first \in 0 .. NumBlks - 1
    BY DEF BinInv
  <2>3. ASSUME bin.at = "refused"
        PROVE  bin.size > 2 * (E - F)
    <3> DEFINE K == flash_blk_addr(bin.blk_last - 1)
    <3>1. bin.blk_last > NumBlks /\ Enough
      BY <2>3 DEF BinInv
    <3>2. bin.blk_last - 1 \in Nat /\ NumBlks <= bin.blk_last - 1 /\ bin.blk_last > bin.blk_first
      BY <2>1, <2>2, <3>1
    <3>3. K \in Nat /\ E <= K
      BY <2>1, <3>2, AddressNext, AddressGrows
    <3>4. Seen > 2 * (K - F)
      BY <3>1, <3>2 DEF Enough, Bytes
    <3> HIDE DEF K, E, F
    <3> QED BY <2>1, <3>3, <3>4
  <2>4. ASSUME bin.at \in {"flash", "done"}, ~(bin.size >= IntRange \div 2)
        PROVE  bin.size <= 2 * (E - F)
    <3> DEFINE L == flash_blk_addr(bin.blk_last)
    <3>1. bin.blk_last <= NumBlks /\ Enough
      BY <2>4 DEF BinInv
    <3>2. L \in Nat /\ L <= E
      BY <2>1, <3>1, AddressNext, AddressGrows
    <3>3. Seen <= 2 * (L - F)
      BY <3>1 DEF Enough, Bytes
    <3>4. Seen = bin.size
      <4>1. IntRange \div 2 \in Int
        BY BlocksAssumption
      <4> QED BY <2>1, <2>4, <4>1
    <3> HIDE DEF L, E, F
    <3> QED BY <2>1, <3>2, <3>3, <3>4
  <2> QED BY <2>3, <2>4 DEF RefusedRight
<1> QED BY <1>1, InvInit, InvNext, PTL DEF Spec

\* READ_SECT_MARKS and the host's loop: every mark arrives, in its place.
THEOREM MarksUnpacked == Spec => []MarksArrive
<1>1. Inv => MarksArrive
  BY DEF Inv, MarksInv, MarksArrive
<1> QED BY <1>1, InvInit, InvNext, PTL DEF Spec
=============================================================================
