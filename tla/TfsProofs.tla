------------------------------ MODULE TfsProofs ------------------------------
(***************************************************************************)
(* The free list of a TFS4 control through any number of flashes: it never *)
(* loses a sector nor holds one that is in use, and what it holds is blank *)
(* on the phone.  At the end, the words by which entries are linked.       *)
(***************************************************************************)
EXTENDS TfsSectors, TfsPointers, FiniteSetTheorems, SequenceTheorems, WellFoundedInduction, TLAPS

-----------------------------------------------------------------------------
(* The inductive invariant.                                                *)

\* In F, t comes next after s; Nil if nothing does.
After(F, s, t) == IF t = Nil THEN \A u \in F : u <= s
                  ELSE t \in F /\ s < t /\ \A u \in F : s < u => t <= u
\* The free list of h has the sectors the table calls free, the least first.
Ascends(h) == LET F == FreeSectors(h)
              IN After(F, -1, h.free) /\ \A s \in F : After(F, s, h.next[s])

\* What is left of block b behind the control sectors.
Rest(fctrl, b) == {s \in Sectors : s >= fctrl /\ BlockOf(s) = b}
OneByOne(c) == \A i, j \in DOMAIN c : c[i] = c[j] => i = j
LastIn(c) == c[Len(c)]
FirstsOf(fs) == {s \in Sectors : \E f \in Files : fs[f] # None /\ fs[f].frst = s}

\* Where control chain c has come to, in a header in which the next one goes to
\* fctrl: behind its last sector, and beyond all it has in that block.
Chained(c, fctrl) ==
  /\ c \in Seq(Sectors) /\ OneByOne(c)
  /\ c # <<>> => /\ fctrl = LastIn(c) + 1
                 /\ \A i \in DOMAIN c : BlockOf(c[i]) = BlockOf(LastIn(c)) => c[i] < fctrl
CtrlBlock(c, fctrl) == IF c = <<>> THEN BlockOf(fctrl) ELSE BlockOf(LastIn(c))

\* The sectors that a flash may write to: the free ones, and the rest of the
\* block of the control chain.
Spare(h, c) == FreeSectors(h) \cup Rest(h.fctrl, CtrlBlock(c, h.fctrl))

\* A control: its free list ascends and has no sector of the chain, none of the
\* rest of its block, and no first sector of a file.
Sound(h, c, fs) ==
  /\ h \in Header /\ Ascends(h) /\ Chained(c, h.fctrl)
  /\ DOMAIN fs = Files
  /\ FreeSectors(h) \cap (ToSet(c) \cup Rest(h.fctrl, CtrlBlock(c, h.fctrl)) \cup FirstsOf(fs)) = {}

\* The path of every flash so far: none has cleaned a block, and so on.
Plainly == hit \subseteq {"cut", "torn", "retry", "recycled"}
Working == pc \in {"file", "place", "pop", "flash"}

DiskSound ==
  disk # None => /\ Sound(Parsed(disk), disk.chain, disk.files) /\ disk.chain # <<>>
                 /\ disk.fctrl = Parsed(disk).fctrl

AtFile ==
  /\ at = [i |-> at.i, frst |-> at.frst] /\ at.i \in Nat
  /\ at.frst \in FreeSectors(hdr) => at.i = 0
  /\ at.i = 0 => at.frst = hdr.free
  /\ todo \in Seq([file : Files, len : Nat])
  /\ chain = <<>> /\ (csc => disk # None)
  /\ (IF csc THEN disk.chain[1] ELSE 0) \notin FreeSectors(hdr)

ListHeld ==
  /\ DiskSound
  /\ Working => Sound(hdr, chain, files)
  /\ pc = "file" => AtFile
  /\ pc = "place" => left \in Nat /\ (chain = <<>> => left > 0)
  /\ pc \in {"pop", "flash"} => chain # <<>>

ListInv == Plainly => ListHeld

(* The phone, as long as no .csc was cut short before its first mark.        *)
Untorn == hit \subseteq {"cut"}
Whats == {<<"void">>} \cup ((Files \cup {"ctrl"}) \X Nat \X Nat)
Written == [op : {"write", "mark"}, sect : Sectors, what : Whats]
Away(S) == {a \in Written : a.sect \notin S}

BlankHeld ==
  /\ pc \notin {"flash", "lost"} /\ disk # None
       => \A s \in Spare(Parsed(disk), disk.chain) : cell[s] = {}
  /\ pc \in {"file", "place", "pop"} /\ csc
       => disk # None /\ Spare(hdr, chain) \subseteq Spare(Parsed(disk), disk.chain)
  /\ Working => acts \in Seq(Away(Spare(hdr, chain))) /\ erasing = {}
  /\ pc = "idle" => acts = <<>>
  /\ pc = "file" => \A s \in Spare(hdr, chain) : marks[s] # 240
  /\ pc = "flash" => \A s \in Spare(hdr, chain) : cell[s] = {}
  /\ gen \in Nat

BlankInv == Untorn => BlankHeld

-----------------------------------------------------------------------------
(* Blocks and their sectors.                                               *)

LEMMA BlockSizeIs == BlockSize \in Nat /\ BlockSize > 0 /\ NumBlocks \in Nat /\ NumBlocks >= 3
  BY TableAssumption

\* A sector lies in its block.
LEMMA BlockIs ==
  ASSUME NEW s \in Nat
  PROVE  /\ BlockOf(s) \in Nat
         /\ BlockOf(s) * BlockSize <= s /\ s < BlockOf(s) * BlockSize + BlockSize
         /\ s % BlockSize = 0 => s = BlockOf(s) * BlockSize
<1>1. s = BlockSize * (s \div BlockSize) + (s % BlockSize)
      /\ s % BlockSize \in Nat /\ s % BlockSize < BlockSize /\ s \div BlockSize \in Nat
  BY BlockSizeIs
<1>2. BlockSize * (s \div BlockSize) = (s \div BlockSize) * BlockSize
      /\ BlockSize * (s \div BlockSize) \in Nat
  BY <1>1, BlockSizeIs
<1> DEFINE q == s \div BlockSize
           p == q * BlockSize
           r == s % BlockSize
<1>3. p \in Nat /\ r \in Nat /\ s = p + r /\ r < BlockSize
  BY <1>1, <1>2
<1> HIDE DEF p, r
<1>4. p <= s /\ s < p + BlockSize /\ (r = 0 => s = p)
  BY <1>3, BlockSizeIs
<1> QED BY <1>1, <1>4 DEF p, r, BlockOf

\* And in no other.
LEMMA BlockIsOne ==
  ASSUME NEW s \in Nat, NEW b \in Nat, b * BlockSize <= s, s < b * BlockSize + BlockSize
  PROVE  BlockOf(s) = b
<1> DEFINE q == BlockOf(s)
<1>1. q \in Nat /\ q * BlockSize <= s /\ s < q * BlockSize + BlockSize
  BY BlockIs
<1> HIDE DEF q
<1>2. b * BlockSize \in Nat /\ q * BlockSize \in Nat
  BY <1>1, BlockSizeIs
<1>3. ASSUME NEW x \in Nat, NEW y \in Nat, x < y
      PROVE  x * BlockSize + BlockSize <= y * BlockSize
  <2>1. (y - x) \in Nat /\ y - x >= 1
    BY <1>3
  <2>2. (y - x) * BlockSize >= BlockSize
    BY <2>1, BlockSizeIs
  <2>3. (y - x) * BlockSize = y * BlockSize - x * BlockSize
    BY <1>3, BlockSizeIs
  <2> QED BY <2>2, <2>3, BlockSizeIs, x * BlockSize \in Nat, y * BlockSize \in Nat
<1>4. ~(q < b) /\ ~(b < q)
  <2>1. q < b => q * BlockSize + BlockSize <= b * BlockSize
    BY <1>1, <1>3
  <2>2. b < q => b * BlockSize + BlockSize <= q * BlockSize
    BY <1>1, <1>3
  <2> QED BY <1>1, <1>2, <2>1, <2>2, BlockSizeIs
<1> QED BY <1>1, <1>4 DEF q

LEMMA Products ==
  ASSUME NEW x \in Nat, NEW y \in Nat, x <= y
  PROVE  /\ x * BlockSize \in Nat /\ y * BlockSize \in Nat /\ x * BlockSize <= y * BlockSize
         /\ (x + 1) * BlockSize = x * BlockSize + BlockSize
<1>1. y - x \in Nat
  OBVIOUS
<1>2. (y - x) * BlockSize >= 0 /\ (y - x) * BlockSize = y * BlockSize - x * BlockSize
  BY <1>1, BlockSizeIs
<1>3. x * BlockSize \in Nat /\ y * BlockSize \in Nat
  BY BlockSizeIs
<1>4. (x + 1) * BlockSize = x * BlockSize + BlockSize
  BY BlockSizeIs
<1> QED BY <1>2, <1>3, <1>4

LEMMA NumSectsIs == NumSects = NumBlocks * BlockSize
  BY BlockSizeIs DEF NumSects

LEMMA SectsIs == /\ NumSects \in Nat /\ 3 * BlockSize <= NumSects /\ NumSects > 0
                 /\ Sectors \subseteq Nat /\ \A s \in Sectors : s < NumSects
                 /\ Nil \notin Sectors /\ Nil # NumSects
<1>1. NumSects = BlockSize * NumBlocks /\ BlockSize * NumBlocks \in Nat
  BY BlockSizeIs DEF NumSects
<1>2. BlockSize * 3 <= BlockSize * NumBlocks
  <2>1. NumBlocks - 3 \in Nat
    BY BlockSizeIs
  <2>2. BlockSize * (NumBlocks - 3) >= 0 /\ BlockSize * (NumBlocks - 3) = BlockSize * NumBlocks - BlockSize * 3
    BY <2>1, BlockSizeIs
  <2> QED BY <1>1, <2>2, BlockSizeIs
<1>3. Nil \notin 0 .. NumSects
  BY <1>1, TableAssumption
<1> HIDE DEF NumSects
<1>4. NumSects \in Nat /\ 3 * BlockSize <= NumSects /\ NumSects > 0
  BY <1>1, <1>2, BlockSizeIs
<1> QED BY <1>3, <1>4 DEF Sectors

\* The blocks of the area, and the sectors of each.
LEMMA BlocksAre ==
  ASSUME NEW b \in 0 .. NumBlocks - 1
  PROVE  /\ SectorsOf(b) \subseteq Sectors
         /\ FirstOf(b) \in SectorsOf(b) /\ LastOf(b) \in SectorsOf(b)
         /\ \A s \in SectorsOf(b) : FirstOf(b) <= s /\ s <= LastOf(b)
         /\ \A s \in Nat : FirstOf(b) <= s /\ s <= LastOf(b) => s \in SectorsOf(b)
<1> DEFINE p == b * BlockSize
<1>1. p \in Nat /\ (b + 1) * BlockSize = p + BlockSize
  BY BlockSizeIs
<1>2. p + BlockSize <= NumSects
  <2>1. b + 1 \in Nat /\ b + 1 <= NumBlocks /\ NumBlocks \in Nat
    BY BlockSizeIs
  <2>2. (b + 1) * BlockSize <= NumBlocks * BlockSize
    BY <2>1, Products
  <2> QED BY <1>1, <2>2, NumSectsIs
<1>3. FirstOf(b) = p /\ LastOf(b) = p + BlockSize - 1 /\ SectorsOf(b) = p .. p + BlockSize - 1
  <2>1. FirstOf(b) = p /\ LastOf(b) = (b + 1) * BlockSize - 1 /\ SectorsOf(b) = p .. (b + 1) * BlockSize - 1
    BY DEF FirstOf, LastOf, SectorsOf
  <2>2. b \in Nat /\ (b + 1) * BlockSize - 1 = p + BlockSize - 1
    BY <1>1, BlockSizeIs
  <2> QED BY <2>1, <2>2
<1> HIDE DEF p
<1> QED BY <1>1, <1>2, <1>3, BlockSizeIs, SectsIs DEF Sectors

LEMMA BlockOfIs ==
  ASSUME NEW s \in Sectors
  PROVE  /\ BlockOf(s) \in 0 .. NumBlocks - 1 /\ s \in SectorsOf(BlockOf(s))
         /\ FirstOf(BlockOf(s)) <= s /\ s <= LastOf(BlockOf(s))
         /\ s % BlockSize = 0 => s = FirstOf(BlockOf(s))
<1> DEFINE b == BlockOf(s)
           p == b * BlockSize
<1>1. s \in Nat /\ s < NumSects
  BY SectsIs
<1>2. b \in Nat /\ p <= s /\ s < p + BlockSize /\ (s % BlockSize = 0 => s = p)
  BY <1>1, BlockIs
<1> HIDE DEF b
<1>3. p \in Nat /\ (b + 1) * BlockSize = p + BlockSize
  BY <1>2, BlockSizeIs
<1>4. FirstOf(b) = p /\ LastOf(b) = p + BlockSize - 1 /\ SectorsOf(b) = p .. p + BlockSize - 1
  <2>1. FirstOf(b) = p /\ LastOf(b) = (b + 1) * BlockSize - 1 /\ SectorsOf(b) = p .. (b + 1) * BlockSize - 1
    BY DEF FirstOf, LastOf, SectorsOf
  <2>2. (b + 1) * BlockSize - 1 = p + BlockSize - 1
    BY <1>3, BlockSizeIs
  <2> QED BY <2>1, <2>2
<1>5. b \in 0 .. NumBlocks - 1
  <2>1. ~(b >= NumBlocks)
    <3>1. b >= NumBlocks => NumBlocks * BlockSize <= p
      BY <1>2, BlockSizeIs, Products
    <3> QED BY <1>1, <1>2, <1>3, <3>1, NumSectsIs, SectsIs
  <2> QED BY <1>2, <2>1, BlockSizeIs
<1> HIDE DEF p
<1> QED BY <1>1, <1>2, <1>3, <1>4, <1>5, BlockSizeIs DEF b

LEMMA OfBlock ==
  ASSUME NEW b \in 0 .. NumBlocks - 1, NEW s \in SectorsOf(b)
  PROVE  BlockOf(s) = b
<1>1. s \in Sectors /\ s \in Nat /\ b \in Nat
  <2>1. SectorsOf(b) \subseteq Sectors
    BY BlocksAre
  <2>2. b \in Nat
    BY BlockSizeIs
  <2> QED BY <2>1, <2>2, SectsIs
<1>2. b * BlockSize <= s /\ s < b * BlockSize + BlockSize
  <2>1. b * BlockSize \in Nat /\ (b + 1) * BlockSize = b * BlockSize + BlockSize
    BY <1>1, Products
  <2>2. s \in b * BlockSize .. (b + 1) * BlockSize - 1
    BY DEF SectorsOf
  <2> QED BY <1>1, <2>1, <2>2, BlockSizeIs
<1> QED BY <1>1, <1>2, BlockIsOne

-----------------------------------------------------------------------------
(* Recursive functions.                                                    *)

\* A set of naturals with 0 and with the successor of each of its members.
LEMMA NatSets ==
  ASSUME NEW S, S \subseteq Nat, 0 \in S, \A n \in S : n + 1 \in S
  PROVE  Nat \subseteq S
<1> DEFINE T == Nat \ S
<1>1. SUFFICES ASSUME T # {} PROVE FALSE
  OBVIOUS
<1>2. \E x \in T : \A y \in T : ~ (<<y, x>> \in OpToRel(<, Nat))
  <2>1. T \subseteq Nat
    OBVIOUS
  <2> HIDE DEF T
  <2> QED BY <1>1, <2>1, NatLessThanWellFounded, WFMin
<1>3. PICK x \in T : \A y \in T : ~ (<<y, x>> \in OpToRel(<, Nat))
  BY <1>2
<1>4. x \in Nat /\ x - 1 \in Nat /\ x - 1 \notin S
  OBVIOUS
<1>5. x - 1 \in T /\ <<x - 1, x>> \in OpToRel(<, Nat)
  BY <1>4 DEF OpToRel
<1> QED BY <1>3, <1>5

\* The same up to a bound.
LEMMA UptoSets ==
  ASSUME NEW N \in Nat, NEW S, 0 \in S, \A n \in S : n \in 0 .. N - 1 => n + 1 \in S
  PROVE  0 .. N \subseteq S
<1> DEFINE T == {n \in Nat : n \in 0 .. N => n \in S}
<1>1. T \subseteq Nat /\ 0 \in T
  OBVIOUS
<1>2. ASSUME NEW n \in T PROVE n + 1 \in T
  <2>1. n \in Nat /\ (n + 1 \in 0 .. N => n \in 0 .. N - 1 /\ n \in 0 .. N)
    OBVIOUS
  <2>2. n + 1 \in 0 .. N => n + 1 \in S
    BY <2>1
  <2> QED BY <2>1, <2>2
<1>3. Nat \subseteq T
  <2> HIDE DEF T
  <2> QED BY <1>1, <1>2, NatSets
<1> QED BY <1>3

\* f starts from a and goes on by step, N times.
Chain(f, N, V, a, step) == /\ f \in [0 .. N -> V] /\ f[0] = a
                           /\ \A n \in 1 .. N : f[n] = step[n][f[n - 1]]
HasChain(N, V, a, step) == \E f : Chain(f, N, V, a, step)

\* Such a function exists, whatever it starts from and however it goes on.
LEMMA StepsExist ==
  ASSUME NEW N \in Nat, NEW V, NEW a \in V, NEW step \in [1 .. N -> [V -> V]]
  PROVE  HasChain(N, V, a, step)
<1> DEFINE Good(m, f) == /\ f \in [0 .. m -> V] /\ f[0] = a
                         /\ \A n \in 1 .. m : f[n] = step[n][f[n - 1]]
           S == {m \in 0 .. N : \E f : Good(m, f)}
<1>1. 0 \in S
  <2>1. Good(0, [n \in 0 .. 0 |-> a])
    OBVIOUS
  <2>2. 0 \in 0 .. N /\ \E f : Good(0, f)
    <3> HIDE DEF Good
    <3> QED BY <2>1
  <2> HIDE DEF Good
  <2> QED BY <2>2
<1>2. ASSUME NEW m \in S, m \in 0 .. N - 1
      PROVE  m + 1 \in S
  <2>1. PICK f : Good(m, f)
    OBVIOUS
  <2> DEFINE g == [n \in 0 .. m + 1 |-> IF n <= m THEN f[n] ELSE step[m + 1][f[m]]]
  <2>2. f[m] \in V /\ step[m + 1][f[m]] \in V
    BY <2>1, <1>2
  <2>3. g \in [0 .. m + 1 -> V] /\ g[0] = a
    BY <2>1, <2>2, <1>2
  <2>4. ASSUME NEW n \in 1 .. m + 1
        PROVE  g[n] = step[n][g[n - 1]]
    <3>1. n - 1 \in 0 .. m + 1 /\ n \in 0 .. m + 1 /\ n - 1 <= m
      BY <1>2
    <3>2. g[n - 1] = f[n - 1]
      BY <3>1
    <3>3. CASE n <= m
      <4>1. g[n] = f[n] /\ n \in 1 .. m
        BY <3>1, <3>3, <1>2
      <4> QED BY <4>1, <3>2, <2>1
    <3>4. CASE n = m + 1
      <4>1. n - 1 = m /\ ~(n <= m)
        BY <3>4, <1>2
      <4>2. g[n] = step[m + 1][f[m]]
        BY <3>1, <4>1
      <4> QED BY <3>2, <3>4, <4>1, <4>2
    <3> QED BY <3>3, <3>4, <1>2
  <2> HIDE DEF g
  <2>5. m + 1 \in 0 .. N /\ Good(m + 1, g)
    BY <2>3, <2>4, <1>2
  <2> HIDE DEF Good
  <2> QED BY <2>5
<1>3. 0 .. N \subseteq S
  <2> HIDE DEF S
  <2> QED BY <1>1, <1>2, UptoSets
<1>4. \E f : Good(N, f)
  BY <1>3
<1> QED BY <1>4 DEF HasChain, Chain

-----------------------------------------------------------------------------
(* Walks along the links of a header.                                      *)

Steps(to, next, s) ==
  /\ to[0] = s
  /\ \A k \in 1 .. NumSects : to[k] = IF to[k - 1] \in Sectors THEN next[to[k - 1]] ELSE to[k - 1]

LEMMA WalkIs ==
  ASSUME NEW next, NEW s
  PROVE  /\ Steps(Walk(next, s), next, s)
         /\ Walk(next, s) = [k \in 0 .. NumSects |-> Walk(next, s)[k]]
<1> DEFINE N == NumSects
           V == {s} \cup Sectors \cup {next[x] : x \in Sectors}
           step == [n \in 1 .. N |-> [v \in V |-> IF v \in Sectors THEN next[v] ELSE v]]
           P(f) == f = [k \in 0 .. N |-> IF k = 0 THEN s
                                         ELSE LET t == f[k - 1] IN IF t \in Sectors THEN next[t] ELSE t]
           h == CHOOSE f : P(f)
<1>1. N \in Nat
  BY SectsIs
<1>2. step \in [1 .. N -> [V -> V]] /\ s \in V
  OBVIOUS
<1>3. PICK f : Chain(f, N, V, s, step)
  <2> HIDE DEF step, N, P, h, V
  <2>1. HasChain(N, V, s, step)
    BY <1>1, <1>2, StepsExist
  <2> QED BY <2>1 DEF HasChain
<1>4. /\ f \in [0 .. N -> V] /\ f[0] = s
      /\ \A n \in 1 .. N : f[n] = IF f[n - 1] \in Sectors THEN next[f[n - 1]] ELSE f[n - 1]
  <2>1. f \in [0 .. N -> V] /\ f[0] = s
    BY <1>3 DEF Chain
  <2>2. ASSUME NEW n \in 1 .. N
        PROVE  f[n] = IF f[n - 1] \in Sectors THEN next[f[n - 1]] ELSE f[n - 1]
    <3>1. f[n - 1] \in V
      <4> HIDE DEF V, N
      <4> QED BY <1>1, <2>1
    <3>2. f[n] = step[n][f[n - 1]]
      BY <1>3 DEF Chain
    <3>3. step[n][f[n - 1]] = IF f[n - 1] \in Sectors THEN next[f[n - 1]] ELSE f[n - 1]
      <4> HIDE DEF V, N
      <4> QED BY <3>1
    <3> QED BY <3>2, <3>3
  <2> QED BY <2>1, <2>2
<1>5. P(f)
  <2> HIDE DEF V, N, step
  <2> QED BY <1>1, <1>4
<1>6. P(h)
  <2> HIDE DEF P
  <2> QED BY <1>5
<1>7. Steps(h, next, s)
  <2> HIDE DEF h
  <2> QED BY <1>1, <1>6 DEF Steps
<1>8. h = [k \in 0 .. N |-> h[k]]
  <2> HIDE DEF h
  <2> QED BY <1>6
<1>9. Walk(next, s) = h
  BY DEF Walk
<1> QED BY <1>7, <1>8, <1>9

\* The least of a set of numbers.
LEMMA LeastIs ==
  ASSUME NEW S, S \subseteq Nat, S # {}
  PROVE  LeastOf(S) \in S /\ \A y \in S : LeastOf(S) <= y
<1>1. PICK x \in S : \A y \in S : ~ (<<y, x>> \in OpToRel(<, Nat))
  BY NatLessThanWellFounded, WFMin
<1>2. \A y \in S : x <= y
  <2> SUFFICES ASSUME NEW y \in S PROVE x <= y
    OBVIOUS
  <2>1. x \in Nat /\ y \in Nat
    OBVIOUS
  <2>2. y < x => <<y, x>> \in OpToRel(<, Nat)
    BY <2>1 DEF OpToRel
  <2>3. ~(y < x)
    BY <1>1, <2>2
  <2> QED BY <2>1, <2>3
<1> QED BY <1>2 DEF LeastOf

-----------------------------------------------------------------------------
(* Headers whose free list ascends.                                        *)

LEMMA HeaderIs ==
  ASSUME NEW h \in Header
  PROVE  /\ FreeSectors(h) \subseteq Sectors /\ FreeSectors(h) \subseteq Nat
         /\ h.type \in [Sectors -> {"unused", "free", "first", "cont"}]
         /\ h.next \in [Sectors -> Sectors \cup {Nil}]
         /\ h.free \in Sectors \cup {Nil} /\ h.last \in Sectors \cup {Nil} /\ h.fctrl \in 0 .. NumSects
         /\ h = [free |-> h.free, last |-> h.last, fctrl |-> h.fctrl, type |-> h.type, next |-> h.next]
  BY SectsIs DEF Header, FreeSectors

\* What a walk along such a list has come to after k steps.
Passed(to, F, k) ==
  /\ to[k] = Nil \/ (to[k] \in F /\ to[k] >= k)
  /\ \A u \in F : to[k] = Nil \/ u < to[k] => \E j \in 0 .. k - 1 : to[j] = u

LEMMA WalkPasses ==
  ASSUME NEW h \in Header, Ascends(h), NEW k \in 0 .. NumSects
  PROVE  Passed(Walk(h.next, h.free), FreeSectors(h), k)
<1> DEFINE to == Walk(h.next, h.free)
           F == FreeSectors(h)
           S == {n \in 0 .. NumSects : Passed(to, F, n)}
<1>1. Steps(to, h.next, h.free)
  BY WalkIs
<1>2. F \subseteq Nat /\ F \subseteq Sectors /\ Nil \notin Sectors /\ NumSects \in Nat
  BY HeaderIs, SectsIs
<1>3. After(F, -1, h.free) /\ \A s \in F : After(F, s, h.next[s])
  BY DEF Ascends
<1> HIDE DEF to, F
<1>4. 0 \in S
  <2>1. to[0] = h.free
    BY <1>1 DEF Steps
  <2>2. Passed(to, F, 0)
    <3>1. CASE h.free = Nil
      BY <1>2, <1>3, <2>1, <3>1 DEF Passed, After
    <3>2. CASE h.free # Nil
      <4>1. h.free \in F /\ \A u \in F : -1 < u => h.free <= u
        BY <1>3, <3>2 DEF After
      <4>2. \A u \in F : u \in Nat /\ -1 < u
        BY <1>2
      <4>3. h.free \in Nat /\ \A u \in F : ~(u < h.free)
        BY <4>1, <4>2
      <4> QED BY <2>1, <3>2, <4>1, <4>3 DEF Passed
    <3> QED BY <3>1, <3>2
  <2> QED BY <1>2, <2>2
<1>5. ASSUME NEW m \in S, m \in 0 .. NumSects - 1
      PROVE  m + 1 \in S
  <2>1. Passed(to, F, m) /\ m \in Nat /\ m + 1 \in 0 .. NumSects
    BY <1>2, <1>5
  <2>2. to[m + 1] = IF to[m] \in Sectors THEN h.next[to[m]] ELSE to[m]
    <3>1. m + 1 \in 1 .. NumSects /\ (m + 1) - 1 = m
      BY <1>2, <2>1
    <3> QED BY <1>1, <3>1 DEF Steps
  <2>3. CASE to[m] = Nil
    <3>1. to[m + 1] = Nil
      BY <1>2, <2>2, <2>3
    <3>2. \A u \in F : \E j \in 0 .. (m + 1) - 1 : to[j] = u
      <4> SUFFICES ASSUME NEW u \in F PROVE \E j \in 0 .. (m + 1) - 1 : to[j] = u
        OBVIOUS
      <4>1. PICK j \in 0 .. m - 1 : to[j] = u
        BY <2>1, <2>3 DEF Passed
      <4> QED BY <2>1, <4>1
    <3> QED BY <2>1, <3>1, <3>2 DEF Passed
  <2>4. CASE to[m] # Nil
    <3>1. to[m] \in F /\ to[m] >= m /\ to[m] \in Nat /\ to[m + 1] = h.next[to[m]]
          /\ After(F, to[m], to[m + 1])
      BY <1>2, <1>3, <2>1, <2>2, <2>4 DEF Passed
    <3>2. to[m + 1] = Nil \/ (to[m + 1] \in F /\ to[m + 1] >= m + 1)
      <4>1. to[m + 1] # Nil => to[m + 1] \in F /\ to[m] < to[m + 1]
        BY <3>1 DEF After
      <4> DEFINE x == to[m]
                 t == to[m + 1]
      <4>2. t # Nil => t \in F /\ t \in Nat /\ x \in Nat /\ m \in Nat /\ x < t /\ x >= m
        BY <1>2, <2>1, <3>1, <4>1
      <4> HIDE DEF x, t
      <4>3. t # Nil => t >= m + 1
        BY <4>2
      <4> QED BY <4>2, <4>3 DEF t
    <3>3. ASSUME NEW u \in F, to[m + 1] = Nil \/ u < to[m + 1]
          PROVE  \E j \in 0 .. (m + 1) - 1 : to[j] = u
      <4>1. u <= to[m]
        <5>1. CASE to[m + 1] = Nil
          BY <3>1, <5>1 DEF After
        <5>2. CASE to[m + 1] # Nil
          <6> DEFINE x == to[m]
                     t == to[m + 1]
          <6>1. u \in Nat /\ x \in Nat /\ t \in Nat /\ u < t /\ (x < u => t <= u)
            BY <1>2, <3>1, <3>2, <3>3, <5>2 DEF After
          <6> HIDE DEF x, t
          <6>2. u <= x
            BY <6>1
          <6> QED BY <6>2 DEF x
        <5> QED BY <5>1, <5>2
      <4>2. CASE u = to[m]
        <5>1. m \in 0 .. (m + 1) - 1
          BY <2>1
        <5> QED BY <4>2, <5>1
      <4>3. CASE u < to[m]
        <5>1. PICK j \in 0 .. m - 1 : to[j] = u
          BY <2>1, <4>3 DEF Passed
        <5> QED BY <2>1, <5>1
      <4> QED BY <1>2, <3>1, <4>1, <4>2, <4>3
    <3> QED BY <2>1, <3>2, <3>3 DEF Passed
  <2> QED BY <2>3, <2>4
<1>6. 0 .. NumSects \subseteq S
  <2> HIDE DEF S
  <2> QED BY <1>2, <1>4, <1>5, UptoSets
<1> QED BY <1>6 DEF to, F

\* The list ends, and every free sector is met on the way.
LEMMA AscendsThen ==
  ASSUME NEW h \in Header, Ascends(h)
  PROVE  /\ Ends(h.next, h.free) /\ Reach(h.next, h.free) = FreeSectors(h)
         /\ \A u \in FreeSectors(h) : \E k \in 0 .. NumSects - 1 : Walk(h.next, h.free)[k] = u
<1> DEFINE to == Walk(h.next, h.free)
           F == FreeSectors(h)
<1>1. F \subseteq Nat /\ F \subseteq Sectors /\ Nil \notin Sectors /\ NumSects \in Nat
      /\ \A s \in Sectors : s < NumSects
  BY HeaderIs, SectsIs
<1>2. \A k \in 0 .. NumSects : Passed(to, F, k)
  BY WalkPasses
<1> HIDE DEF to, F
<1>3. to[NumSects] = Nil
  <2>1. Passed(to, F, NumSects)
    BY <1>1, <1>2
  <2>2. \A s \in F : ~(s >= NumSects)
    BY <1>1
  <2> QED BY <2>1, <2>2 DEF Passed
<1>4. \A u \in F : \E k \in 0 .. NumSects - 1 : to[k] = u
  BY <1>1, <1>2, <1>3 DEF Passed
<1>5. {to[k] : k \in 0 .. NumSects} \cap Sectors = F
  <2>1. \A k \in 0 .. NumSects : to[k] \in Sectors => to[k] \in F
    BY <1>1, <1>2 DEF Passed
  <2>2. \A u \in F : \E k \in 0 .. NumSects : to[k] = u
    BY <1>1, <1>4
  <2> QED BY <1>1, <2>1, <2>2
<1> QED BY <1>3, <1>4, <1>5 DEF Ends, Reach, to, F

\* A header that is walked like another and has the same free sectors.
LEMMA AscendsAlike ==
  ASSUME NEW g \in Header, NEW h \in Header, Ascends(g), FreeSectors(h) = FreeSectors(g),
         Walk(h.next, h.free) = Walk(g.next, g.free)
  PROVE  Ascends(h)
<1> DEFINE to == Walk(h.next, h.free)
           F == FreeSectors(g)
<1>1. F \subseteq Sectors /\ NumSects \in Nat
  BY HeaderIs, SectsIs
<1>2. Steps(to, h.next, h.free) /\ Steps(to, g.next, g.free)
  BY WalkIs
<1>3. \A u \in F : \E k \in 0 .. NumSects - 1 : to[k] = u
  BY AscendsThen
<1>4. After(F, -1, g.free) /\ \A s \in F : After(F, s, g.next[s])
  BY DEF Ascends
<1> HIDE DEF to
<1>5. h.free = g.free
  BY <1>2 DEF Steps
<1>6. ASSUME NEW u \in F
      PROVE  h.next[u] = g.next[u]
  <2>1. PICK k \in 0 .. NumSects - 1 : to[k] = u
    BY <1>3
  <2>2. k + 1 \in 1 .. NumSects /\ (k + 1) - 1 = k
    BY <1>1
  <2>3. to[k + 1] = h.next[u] /\ to[k + 1] = g.next[u]
    BY <1>1, <1>2, <2>1, <2>2 DEF Steps
  <2> QED BY <2>3
<1> QED BY <1>4, <1>5, <1>6 DEF Ascends

\* The list of a new control is in order, and block 1 is not in it.
LEMMA FreshIs ==
  /\ FreshHeader \in Header /\ Ascends(FreshHeader)
  /\ FreshHeader.fctrl \in Sectors /\ 0 \notin FreeSectors(FreshHeader)
  /\ FreeSectors(FreshHeader) \cap Rest(FreshHeader.fctrl, BlockOf(FreshHeader.fctrl)) = {}
<1> DEFINE two == FirstOf(2)
           one == FirstOf(1)
           h == FreshHeader
           F == {s \in Sectors : s >= two}
<1>1. /\ one = BlockSize /\ two = 2 * BlockSize /\ BlockSize \in Nat /\ BlockSize > 0
      /\ NumSects \in Nat /\ 3 * BlockSize <= NumSects
  BY BlockSizeIs, SectsIs DEF FirstOf
<1>2. /\ h.free = two /\ h.fctrl = one /\ h.last = NumSects - 1
      /\ h.type = [s \in Sectors |-> IF s >= two THEN "free" ELSE "unused"]
      /\ h.next = [s \in Sectors |-> IF s = NumSects - 1 THEN Nil ELSE IF s >= two THEN s + 1 ELSE 0]
      /\ h = [free |-> h.free, last |-> h.last, fctrl |-> h.fctrl, type |-> h.type, next |-> h.next]
  BY DEF FreshHeader
<1>3. \A x \in Nat : x < NumSects => x \in Sectors
  BY <1>1 DEF Sectors
<1>4. Sectors \subseteq Nat /\ Nil \notin Sectors /\ \A s \in Sectors : s < NumSects
  BY SectsIs
<1>5. one \in Sectors /\ two \in Sectors /\ NumSects - 1 \in Sectors /\ 0 \in Sectors /\ ~(0 >= two)
      /\ NumSects - 1 >= two
  BY <1>1, <1>3
<1> HIDE DEF h, one, two
<1>6. FreeSectors(h) = F
  BY <1>2 DEF FreeSectors
<1>7. \A s \in Sectors : /\ s = NumSects - 1 => h.next[s] = Nil
                         /\ s # NumSects - 1 /\ s >= two => h.next[s] = s + 1 /\ s + 1 \in Sectors
                         /\ h.next[s] \in Sectors \cup {Nil}
  <2> SUFFICES ASSUME NEW s \in Sectors
               PROVE  /\ s = NumSects - 1 => h.next[s] = Nil
                      /\ s # NumSects - 1 /\ s >= two => h.next[s] = s + 1 /\ s + 1 \in Sectors
                      /\ h.next[s] \in Sectors \cup {Nil}
    OBVIOUS
  <2>1. h.next[s] = IF s = NumSects - 1 THEN Nil ELSE IF s >= two THEN s + 1 ELSE 0
    BY <1>2
  <2>2. s # NumSects - 1 => s + 1 \in Sectors
    BY <1>1, <1>3, <1>4
  <2> QED BY <1>5, <2>1, <2>2
<1>8. h \in Header
  <2>1. h.type \in [Sectors -> {"unused", "free", "first", "cont"}]
    BY <1>2
  <2>2. h.next \in [Sectors -> Sectors \cup {Nil}]
    BY <1>2, <1>7
  <2>3. h.fctrl \in 0 .. NumSects
    BY <1>1, <1>2, <1>4, <1>5
  <2> QED BY <1>2, <1>5, <2>1, <2>2, <2>3 DEF Header
<1>9. Ascends(h)
  <2>1. After(F, -1, h.free)
    <3>1. two \in F /\ -1 < two /\ two # Nil /\ \A u \in F : two <= u
      BY <1>1, <1>4, <1>5
    <3> QED BY <1>2, <3>1 DEF After
  <2>2. ASSUME NEW s \in F
        PROVE  After(F, s, h.next[s])
    <3>1. CASE s = NumSects - 1
      <4>1. h.next[s] = Nil /\ \A u \in F : u <= s
        BY <1>1, <1>4, <1>7, <3>1
      <4> QED BY <4>1 DEF After
    <3>2. CASE s # NumSects - 1
      <4>1. h.next[s] = s + 1 /\ s + 1 \in F /\ s + 1 # Nil
        BY <1>1, <1>4, <1>7, <3>2
      <4>2. s < s + 1 /\ \A u \in F : s < u => s + 1 <= u
        BY <1>4
      <4> QED BY <4>1, <4>2 DEF After
    <3> QED BY <3>1, <3>2
  <2> HIDE DEF F
  <2> QED BY <1>6, <2>1, <2>2 DEF Ascends
<1>10. FreeSectors(h) \cap Rest(h.fctrl, BlockOf(h.fctrl)) = {}
  <2> SUFFICES ASSUME NEW s \in Sectors, s >= two, BlockOf(s) = BlockOf(one)
               PROVE  FALSE
    BY <1>2, <1>6 DEF Rest
  <2>1. 1 * BlockSize = one /\ one + BlockSize = two
    BY <1>1
  <2>2. BlockOf(one) = 1
    BY <1>1, <2>1, <1>4, <1>5, BlockIsOne
  <2>3. s < BlockOf(s) * BlockSize + BlockSize
    BY <1>4, BlockIs
  <2> QED BY <1>1, <1>4, <2>1, <2>2, <2>3
<1> QED BY <1>2, <1>5, <1>6, <1>8, <1>9, <1>10 DEF h

\* A change that leaves the list alone.
LEMMA ListKept ==
  ASSUME NEW g \in Header, NEW h \in Header, Ascends(g), FreeSectors(h) = FreeSectors(g),
         h.free = g.free, \A s \in FreeSectors(g) : h.next[s] = g.next[s]
  PROVE  Ascends(h)
  BY DEF Ascends

\* The first free sector is taken off the list.
LEMMA HeadTaken ==
  ASSUME NEW g \in Header, NEW h \in Header, Ascends(g), g.free # Nil,
         FreeSectors(h) = FreeSectors(g) \ {g.free},
         h.free = g.next[g.free], \A s \in FreeSectors(h) : h.next[s] = g.next[s]
  PROVE  Ascends(h) /\ g.free \in FreeSectors(g)
<1> DEFINE F == FreeSectors(g)
           G == FreeSectors(h)
           x == g.free
           y == g.next[x]
<1>1. F \subseteq Nat /\ G = F \ {x}
  BY HeaderIs
<1>2. x \in F /\ \A u \in F : x <= u
  <2>1. After(F, -1, x)
    BY DEF Ascends
  <2>2. x \in F /\ \A u \in F : -1 < u => x <= u
    BY <2>1 DEF After
  <2> QED BY <1>1, <2>2
<1>3. \A s \in F : After(F, s, g.next[s])
  BY DEF Ascends
<1>4. After(F, x, y)
  BY <1>2, <1>3
<1> HIDE DEF F, G, x, y
<1>5. \A u \in G : u \in Nat /\ x \in Nat /\ x < u
  BY <1>1, <1>2
<1>6. After(G, -1, y)
  <2>1. CASE y = Nil
    <3>1. \A u \in G : u <= x
      BY <1>1, <1>4, <2>1 DEF After
    <3>2. \A u \in G : u <= -1
      BY <1>5, <3>1
    <3> QED BY <2>1, <3>2 DEF After
  <2>2. CASE y # Nil
    <3>1. y \in F /\ x < y /\ \A u \in F : x < u => y <= u
      BY <1>4, <2>2 DEF After
    <3>2. y \in G /\ -1 < y /\ \A u \in G : y <= u
      BY <1>1, <1>2, <1>5, <3>1
    <3> QED BY <2>2, <3>2 DEF After
  <2> QED BY <2>1, <2>2
<1>7. ASSUME NEW s \in G
      PROVE  After(G, s, g.next[s])
  <2> DEFINE t == g.next[s]
  <2>1. After(F, s, t) /\ s \in F /\ s \in Nat /\ x < s
    BY <1>1, <1>3, <1>5
  <2> HIDE DEF t
  <2>2. After(G, s, t)
    <3>1. CASE t = Nil
      BY <1>1, <2>1, <3>1 DEF After
    <3>2. CASE t # Nil
      <4>1. t \in F /\ s < t /\ \A u \in F : s < u => t <= u
        BY <2>1, <3>2 DEF After
      <4>2. t \in G
        BY <1>1, <1>2, <2>1, <4>1
      <4> QED BY <1>1, <3>2, <4>1, <4>2 DEF After
    <3> QED BY <3>1, <3>2
  <2> QED BY <2>2 DEF t
<1>8. h.free = y /\ \A s \in G : h.next[s] = g.next[s]
  BY DEF x, y, G
<1>9. After(G, -1, h.free) /\ \A s \in G : After(G, s, h.next[s])
  BY <1>6, <1>7, <1>8
<1> QED BY <1>2, <1>9 DEF Ascends, F, G, x

\* update_last_free_sect changes nothing else.
LEMMA WithLastIs ==
  ASSUME NEW h \in Header
  PROVE  /\ WithLast(h) \in Header /\ WithLast(h).type = h.type /\ WithLast(h).next = h.next
         /\ WithLast(h).free = h.free /\ WithLast(h).fctrl = h.fctrl
         /\ FreeSectors(WithLast(h)) = FreeSectors(h)
<1> DEFINE ends == {s \in FreeSectors(h) : h.next[s] = Nil}
<1>1. ends \subseteq Sectors /\ ends \subseteq Nat
  BY HeaderIs
<1>2. CASE ends = {}
  BY <1>2 DEF WithLast
<1>3. CASE ends # {}
  <2>1. LeastOf(ends) \in Sectors
    <3> HIDE DEF ends
    <3> QED BY <1>1, <1>3, LeastIs
  <2>2. WithLast(h) = [h EXCEPT !.last = LeastOf(ends)]
    BY <1>3 DEF WithLast
  <2> HIDE DEF ends
  <2>3. WithLast(h) = [free |-> h.free, last |-> LeastOf(ends), fctrl |-> h.fctrl,
                       type |-> h.type, next |-> h.next]
    BY <2>2, HeaderIs
  <2>4. WithLast(h) \in Header
    BY <2>1, <2>3, HeaderIs DEF Header
  <2> QED BY <2>3, <2>4 DEF FreeSectors
<1> QED BY <1>2, <1>3

\* From g to h, nothing but sectors that were free has changed, and they are free
\* or unused.
Apart(g, h) == \A x \in Sectors :
  \/ h.type[x] = g.type[x] /\ h.next[x] = g.next[x]
  \/ x \in FreeSectors(g) /\ h.type[x] \in {"free", "unused"}

\* A block that is free as a whole, and not the first of the list, is taken out.
LEMMA BlockTaken ==
  ASSUME NEW g \in Header, Ascends(g), NEW b \in 0 .. NumBlocks - 1,
         SectorsOf(b) \subseteq FreeSectors(g), g.free # FirstOf(b)
  PROVE  /\ Occupied(g, b) \in Header /\ Ascends(Occupied(g, b))
         /\ FreeSectors(Occupied(g, b)) = FreeSectors(g) \ SectorsOf(b)
         /\ Occupied(g, b).fctrl = FirstOf(b)
         /\ Apart(g, Occupied(g, b))
<1> DEFINE h == Occupied(g, b)
           F == FreeSectors(g)
           G == FreeSectors(h)
           B == SectorsOf(b)
           lo == FirstOf(b)
           hi == LastOf(b)
<1>1. /\ F \subseteq Nat /\ F \subseteq Sectors /\ B \subseteq F /\ lo \in B /\ hi \in B
      /\ \A s \in B : lo <= s /\ s <= hi
      /\ \A s \in Nat : lo <= s /\ s <= hi => s \in B
  BY HeaderIs, BlocksAre
<1>2. Reach(g.next, g.free) = F
  BY AscendsThen
<1>3. /\ h.free = g.free /\ h.last = g.last /\ h.fctrl = lo
      /\ h.type = [s \in Sectors |-> IF s \in B THEN "unused" ELSE g.type[s]]
      /\ h.next = [s \in Sectors |-> IF s \in F /\ g.next[s] = lo THEN g.next[hi] ELSE g.next[s]]
      /\ h = [free |-> h.free, last |-> h.last, fctrl |-> h.fctrl, type |-> h.type, next |-> h.next]
  <2>1. h = [g EXCEPT !.type = [s \in Sectors |-> IF s \in B THEN "unused" ELSE g.type[s]],
               !.next = [s \in Sectors |-> IF s \in {p \in F : g.next[p] = lo} /\ g.free # lo
                                           THEN g.next[hi] ELSE g.next[s]],
               !.fctrl = lo]
    BY <1>2 DEF Occupied
  <2>2. \A s : (s \in {p \in F : g.next[p] = lo} /\ g.free # lo) <=> (s \in F /\ g.next[s] = lo)
    OBVIOUS
  <2> HIDE DEF h, F, B, lo, hi
  <2>3. g = [free |-> g.free, last |-> g.last, fctrl |-> g.fctrl, type |-> g.type, next |-> g.next]
    BY HeaderIs
  <2> QED BY <2>1, <2>2, <2>3
<1>4. /\ g.next \in [Sectors -> Sectors \cup {Nil}]
      /\ g.type \in [Sectors -> {"unused", "free", "first", "cont"}]
      /\ g.free \in Sectors \cup {Nil} /\ g.last \in Sectors \cup {Nil} /\ Nil \notin Sectors
      /\ Sectors \subseteq 0 .. NumSects
  <2>1. Sectors \subseteq 0 .. NumSects
    BY SectsIs
  <2> QED BY <2>1, HeaderIs, SectsIs
<1>5. After(F, -1, g.free) /\ \A s \in F : After(F, s, g.next[s])
  BY DEF Ascends
<1>6. G = F \ B
  BY <1>1, <1>3 DEF FreeSectors
<1> HIDE DEF h, F, G, B, lo, hi
<1>7. h \in Header
  <2>1. h.type \in [Sectors -> {"unused", "free", "first", "cont"}]
    BY <1>3, <1>4
  <2>2. h.next \in [Sectors -> Sectors \cup {Nil}]
    BY <1>1, <1>3, <1>4
  <2>3. h.fctrl \in 0 .. NumSects
    BY <1>1, <1>3, <1>4
  <2> QED BY <1>3, <1>4, <2>1, <2>2, <2>3 DEF Header
<1>8. After(G, -1, h.free)
  <2> DEFINE x == g.free
  <2>1. After(F, -1, x) /\ h.free = x /\ x # lo
    BY <1>3, <1>5 DEF lo
  <2> HIDE DEF x
  <2>2. x # Nil
    <3>1. lo \in F /\ lo \in Nat /\ ~(lo <= -1)
      BY <1>1
    <3> QED BY <2>1, <3>1 DEF After
  <2>3. x \in F /\ -1 < x /\ \A u \in F : -1 < u => x <= u
    BY <2>1, <2>2 DEF After
  <2>4. x \in Nat /\ lo \in Nat /\ x <= lo /\ x < lo
    BY <1>1, <2>1, <2>3
  <2>5. x \in G
    BY <1>1, <1>6, <2>3, <2>4
  <2>6. \A u \in G : -1 < u => x <= u
    BY <1>6, <2>3
  <2> QED BY <2>1, <2>2, <2>3, <2>5, <2>6 DEF After
<1>9. ASSUME NEW s \in G
      PROVE  After(G, s, h.next[s])
  <2> DEFINE t == g.next[s]
             y == g.next[hi]
  <2>1. /\ s \in F /\ s \in Nat /\ s \notin B /\ After(F, s, t) /\ After(F, hi, y)
        /\ lo \in F /\ hi \in F /\ lo \in Nat /\ hi \in Nat /\ lo <= hi
        /\ s < lo \/ hi < s
        /\ h.next[s] = IF t = lo THEN y ELSE t
    BY <1>1, <1>3, <1>5, <1>6
  <2> HIDE DEF t, y
  <2>2. CASE t = lo
    <3>1. t # Nil /\ s < lo /\ \A u \in F : s < u => lo <= u
      BY <1>1, <1>4, <2>1, <2>2 DEF After
    <3>2. \A u \in G : s < u => hi < u
      <4> SUFFICES ASSUME NEW u \in G, s < u PROVE hi < u
        OBVIOUS
      <4>1. u \in Nat /\ lo <= u /\ u \notin B
        BY <1>1, <1>6, <3>1
      <4> QED BY <1>1, <2>1, <4>1
    <3>3. CASE y = Nil
      <4>1. \A u \in F : u <= hi
        BY <2>1, <3>3 DEF After
      <4>2. \A u \in G : u <= s
        <5> SUFFICES ASSUME NEW u \in G PROVE u <= s
          OBVIOUS
        <5>1. u \in Nat /\ u <= hi /\ (s < u => hi < u)
          BY <1>1, <1>6, <3>2, <4>1
        <5> QED BY <2>1, <5>1
      <4>3. After(G, s, y)
        BY <3>3, <4>2 DEF After
      <4> QED BY <2>1, <2>2, <4>3
    <3>4. CASE y # Nil
      <4>1. y \in F /\ y \in Nat /\ hi < y /\ \A u \in F : hi < u => y <= u
        BY <1>1, <2>1, <3>4 DEF After
      <4>2. y \in G
        <5>1. y \notin B
          BY <1>1, <2>1, <4>1
        <5> QED BY <1>6, <4>1, <5>1
      <4>3. s < y
        BY <2>1, <3>1, <4>1
      <4>4. \A u \in G : s < u => y <= u
        BY <1>6, <3>2, <4>1
      <4>5. After(G, s, y)
        BY <3>4, <4>2, <4>3, <4>4 DEF After
      <4> QED BY <2>1, <2>2, <4>5
    <3> QED BY <3>3, <3>4
  <2>3. CASE t # lo
    <3>1. After(G, s, t)
      <4>1. CASE t = Nil
        BY <1>6, <2>1, <4>1 DEF After
      <4>2. CASE t # Nil
        <5>1. t \in F /\ t \in Nat /\ s < t /\ \A u \in F : s < u => t <= u
          BY <1>1, <2>1, <4>2 DEF After
        <5>2. t \notin B
          <6>1. s < lo => t <= lo
            BY <2>1, <5>1
          <6>2. t \in B => lo <= t /\ t <= hi
            BY <1>1
          <6> QED BY <2>1, <2>3, <5>1, <6>1, <6>2
        <5> QED BY <1>6, <4>2, <5>1, <5>2 DEF After
      <4> QED BY <4>1, <4>2
    <3> QED BY <2>1, <2>3, <3>1
  <2> QED BY <2>2, <2>3
<1>10. Ascends(h)
  BY <1>8, <1>9 DEF Ascends, G
<1>11. Apart(g, h)
  <2>1. \A x \in F : g.type[x] = "free"
    BY DEF F, FreeSectors
  <2>2. ASSUME NEW x \in Sectors
        PROVE  \/ h.type[x] = g.type[x] /\ h.next[x] = g.next[x]
               \/ x \in F /\ h.type[x] \in {"free", "unused"}
    BY <1>1, <1>3, <1>4, <2>1
  <2> QED BY <2>2 DEF Apart, F
<1>12. Apart(g, Occupied(g, b))
  BY <1>11 DEF h
<1>13. FreeSectors(h) = F \ B /\ h.fctrl = lo
  BY <1>3, <1>6 DEF G
<1> QED BY <1>7, <1>10, <1>12, <1>13 DEF h, F, B, lo

-----------------------------------------------------------------------------
(* A chain that the flasher can put in order does not end with a block.    *)

\* The places that tfs4_ctrl_fix_sect_order goes to.
Visits(way, nums, c) ==
  /\ way[1] = FirstAt(nums, c)
  /\ \A i \in 2 .. Len(nums) + 1 :
       way[i] = IF way[i - 1] \in DOMAIN nums THEN Successor(nums, c, way[i - 1]) ELSE 0
Orders(way, nums, c) ==
  FixedOrder(nums, c) = IF way[Len(nums) + 1] # 0 /\ \A i \in 1 .. Len(nums) : way[i] \in DOMAIN nums
                        THEN [i \in 1 .. Len(nums) |-> nums[way[i]]] ELSE <<>>

LEMMA FixedOrderIs ==
  ASSUME NEW nums, NEW c, Len(nums) \in Nat
  PROVE  \E way : Visits(way, nums, c) /\ Orders(way, nums, c)
<1> DEFINE n == Len(nums)
           V == {0, FirstAt(nums, c)} \cup {Successor(nums, c, k) : k \in DOMAIN nums}
           step == [m \in 1 .. n |-> [v \in V |-> IF v \in DOMAIN nums THEN Successor(nums, c, v) ELSE 0]]
           P(f) == f = [i \in 1 .. n + 1 |->
                          IF i = 1 THEN FirstAt(nums, c)
                          ELSE IF f[i - 1] \in DOMAIN nums THEN Successor(nums, c, f[i - 1]) ELSE 0]
           h == CHOOSE f : P(f)
<1>1. n \in Nat
  OBVIOUS
<1>2. step \in [1 .. n -> [V -> V]] /\ FirstAt(nums, c) \in V
  OBVIOUS
<1>3. PICK f : Chain(f, n, V, FirstAt(nums, c), step)
  <2> HIDE DEF step, n, P, h, V
  <2>1. HasChain(n, V, FirstAt(nums, c), step)
    BY <1>1, <1>2, StepsExist
  <2> QED BY <2>1 DEF HasChain
<1>4. /\ f \in [0 .. n -> V] /\ f[0] = FirstAt(nums, c)
      /\ \A m \in 1 .. n : f[m] = IF f[m - 1] \in DOMAIN nums THEN Successor(nums, c, f[m - 1]) ELSE 0
  <2>1. f \in [0 .. n -> V] /\ f[0] = FirstAt(nums, c)
    BY <1>3 DEF Chain
  <2>2. ASSUME NEW m \in 1 .. n
        PROVE  f[m] = IF f[m - 1] \in DOMAIN nums THEN Successor(nums, c, f[m - 1]) ELSE 0
    <3>1. f[m - 1] \in V
      <4> HIDE DEF V, n
      <4> QED BY <1>1, <2>1
    <3>2. f[m] = step[m][f[m - 1]]
      BY <1>3 DEF Chain
    <3>3. step[m][f[m - 1]] = IF f[m - 1] \in DOMAIN nums THEN Successor(nums, c, f[m - 1]) ELSE 0
      <4> HIDE DEF V, n
      <4> QED BY <3>1
    <3> QED BY <3>2, <3>3
  <2> QED BY <2>1, <2>2
<1> DEFINE g == [i \in 1 .. n + 1 |-> f[i - 1]]
<1>5. P(g)
  <2> HIDE DEF V, n, step
  <2>1. ASSUME NEW i \in 1 .. n + 1
        PROVE  g[i] = IF i = 1 THEN FirstAt(nums, c)
                      ELSE IF g[i - 1] \in DOMAIN nums THEN Successor(nums, c, g[i - 1]) ELSE 0
    <3>1. CASE i = 1
      BY <1>1, <1>4, <3>1
    <3>2. CASE i # 1
      <4>1. i - 1 \in 1 .. n /\ i - 1 \in 1 .. n + 1
        BY <1>1, <3>2
      <4>2. g[i] = f[i - 1] /\ g[i - 1] = f[(i - 1) - 1]
        BY <4>1
      <4> QED BY <1>4, <3>2, <4>1, <4>2
    <3> QED BY <3>1, <3>2
  <2> QED BY <2>1
<1>6. P(h)
  <2> HIDE DEF P, g
  <2> QED BY <1>5
<1>7. Visits(h, nums, c)
  <2> HIDE DEF h
  <2>1. h[1] = FirstAt(nums, c)
    BY <1>1, <1>6
  <2>2. ASSUME NEW i \in 2 .. n + 1
        PROVE  h[i] = IF h[i - 1] \in DOMAIN nums THEN Successor(nums, c, h[i - 1]) ELSE 0
    <3>1. i \in 1 .. n + 1 /\ i # 1
      BY <1>1
    <3> QED BY <1>6, <3>1
  <2> QED BY <2>1, <2>2 DEF Visits
<1>8. Orders(h, nums, c)
  BY DEF Orders, FixedOrder
<1> HIDE DEF h
<1> QED BY <1>7, <1>8

LEMMA EndsInside ==
  ASSUME NEW nums, NEW c \in Seq(Sectors), Len(nums) \in Nat, c # <<>>, OneByOne(c),
         FixedOrder(nums, c) = c
  PROVE  LastIn(c) # LastOf(BlockOf(LastIn(c)))
<1> DEFINE n == Len(nums)
<1>1. PICK way : Visits(way, nums, c) /\ Orders(way, nums, c)
  BY FixedOrderIs
<1>2. /\ way[n + 1] # 0 /\ \A i \in 1 .. n : way[i] \in DOMAIN nums
      /\ c = [i \in 1 .. n |-> nums[way[i]]]
  BY <1>1 DEF Orders
<1>3. Len(c) = n /\ DOMAIN c = 1 .. n /\ n \in Nat /\ n > 0
  <2>1. DOMAIN c = 1 .. n /\ DOMAIN c = 1 .. Len(c) /\ n \in Nat /\ Len(c) \in Nat
    BY <1>2
  <2> HIDE DEF n
  <2>2. Len(c) = n
    BY <2>1
  <2>3. Len(c) # 0
    OBVIOUS
  <2> QED BY <2>1, <2>2, <2>3
<1> HIDE DEF n
<1>4. way[n] \in DOMAIN nums /\ nums[way[n]] = c[n] /\ n \in 1 .. n
  BY <1>2, <1>3
<1>5. way[n + 1] = Successor(nums, c, way[n])
  <2>1. n + 1 \in 2 .. n + 1 /\ (n + 1) - 1 = n
    BY <1>3
  <2> QED BY <1>1, <1>4, <2>1 DEF Visits, n
<1>6. ASSUME c[n] = LastOf(BlockOf(c[n]))
      PROVE  FALSE
  <2> DEFINE named == {j \in DOMAIN nums : Links(c, c[n], nums[j])}
  <2>1. named = {}
    <3> SUFFICES ASSUME NEW t, Links(c, c[n], t) PROVE FALSE
      OBVIOUS
    <3>1. PICK i \in 1 .. Len(c) - 1 : c[i] = c[n]
      BY DEF Links
    <3>2. i \in 1 .. n /\ i # n
      BY <1>3, <3>1
    <3> QED BY <1>3, <1>4, <3>1, <3>2 DEF OneByOne
  <2>2. Successor(nums, c, way[n]) = 0
    BY <1>4, <1>6, <2>1 DEF Successor
  <2> QED BY <1>2, <1>5, <2>2 DEF n
<1> QED BY <1>3, <1>6 DEF LastIn

-----------------------------------------------------------------------------
(* Changes of a sound control.                                             *)

\* Sectors next to each other, in a block.
LEMMA NextSector ==
  ASSUME NEW s \in Sectors
  PROVE  /\ s # LastOf(BlockOf(s)) => s + 1 \in Sectors /\ BlockOf(s + 1) = BlockOf(s)
         /\ (s + 1) % BlockSize # 0 => BlockOf(s + 1) = BlockOf(s)
<1> DEFINE b == BlockOf(s)
           x == s + 1
           q == BlockOf(x)
           p == q * BlockSize
<1>1. s \in Nat /\ x \in Nat /\ x = s + 1 /\ b \in 0 .. NumBlocks - 1 /\ s \in SectorsOf(b)
      /\ FirstOf(b) <= s /\ s <= LastOf(b) /\ FirstOf(b) \in Nat /\ LastOf(b) \in Nat
  <2>1. s \in Nat /\ b \in 0 .. NumBlocks - 1 /\ s \in SectorsOf(b)
    BY SectsIs, BlockOfIs
  <2>2. /\ FirstOf(b) <= s /\ s <= LastOf(b) /\ FirstOf(b) \in SectorsOf(b)
        /\ LastOf(b) \in SectorsOf(b) /\ SectorsOf(b) \subseteq Sectors /\ Sectors \subseteq Nat
    BY <2>1, SectsIs, BlocksAre
  <2>3. FirstOf(b) \in Nat /\ LastOf(b) \in Nat
    BY <2>2
  <2>4. x \in Nat /\ x = s + 1
    BY <2>1
  <2> HIDE DEF b, x
  <2> QED BY <2>1, <2>2, <2>3, <2>4
<1>2. s # LastOf(b) => x \in SectorsOf(b)
  BY <1>1, BlocksAre
<1>3. s # LastOf(b) => x \in Sectors /\ BlockOf(x) = b
  BY <1>1, <1>2, BlocksAre, OfBlock
<1>4. q \in Nat /\ p \in Nat /\ p <= x /\ x < p + BlockSize
  BY <1>1, BlockIs, BlockSizeIs
<1>5. p = x => x % BlockSize = 0
  <2>1. x = BlockSize * (x \div BlockSize) + (x % BlockSize) /\ x % BlockSize \in Nat
        /\ x \div BlockSize \in Nat /\ q = x \div BlockSize
    BY <1>1, BlockSizeIs DEF BlockOf
  <2>2. BlockSize * (x \div BlockSize) = p
    BY <2>1, BlockSizeIs
  <2> HIDE DEF p, x
  <2> QED BY <1>1, <1>4, <2>1, <2>2
<1> HIDE DEF x, q
<1>6. x % BlockSize # 0 => q = b
  <2> SUFFICES ASSUME x % BlockSize # 0 PROVE q = b
    OBVIOUS
  <2>1. p <= s /\ s < p + BlockSize
    BY <1>1, <1>4, <1>5, BlockSizeIs
  <2> QED BY <1>1, <1>4, <2>1, BlockIsOne
<1> QED BY <1>3, <1>6 DEF q, x

\* Fewer sectors are free.
LEMMA SoundShrinks ==
  ASSUME NEW g, NEW c, NEW fs, Sound(g, c, fs), NEW h \in Header, Ascends(h),
         FreeSectors(h) \subseteq FreeSectors(g), h.fctrl = g.fctrl
  PROVE  Sound(h, c, fs)
  BY DEF Sound

\* The first free sector gets another type, and maybe another link.
LEMMA SoundTakes ==
  ASSUME NEW g, NEW c, NEW fs, Sound(g, c, fs), g.free # Nil, NEW h,
         NEW ty \in {"unused", "first", "cont"}, NEW to \in Sectors \cup {Nil},
         h = [free |-> g.next[g.free], last |-> g.last, fctrl |-> g.fctrl,
              type |-> [g.type EXCEPT ![g.free] = ty], next |-> [g.next EXCEPT ![g.free] = to]]
  PROVE  /\ Sound(h, c, fs) /\ g.free \in FreeSectors(g)
         /\ FreeSectors(h) = FreeSectors(g) \ {g.free} /\ Spare(h, c) = Spare(g, c) \ {g.free}
<1>1. g \in Header /\ Ascends(g)
  BY DEF Sound
<1>2. g.free \in Sectors /\ g.next[g.free] \in Sectors \cup {Nil}
  BY <1>1, HeaderIs
<1>3. h \in Header
  BY <1>1, <1>2, HeaderIs DEF Header
<1>4. FreeSectors(h) = FreeSectors(g) \ {g.free}
  BY <1>1, <1>2, HeaderIs DEF FreeSectors
<1>5. h.free = g.next[g.free] /\ \A s \in FreeSectors(h) : h.next[s] = g.next[s]
  BY <1>1, <1>4, HeaderIs
<1>6. Ascends(h) /\ g.free \in FreeSectors(g)
  BY <1>1, <1>3, <1>4, <1>5, HeadTaken
<1>7. h.fctrl = g.fctrl
  OBVIOUS
<1>8. Spare(h, c) = Spare(g, c) \ {g.free}
  <2>1. FreeSectors(g) \cap Rest(g.fctrl, CtrlBlock(c, g.fctrl)) = {}
    BY DEF Sound
  <2> QED BY ONLY <1>4, <1>6, <1>7, <2>1 DEF Spare
<1> QED BY <1>3, <1>4, <1>6, <1>7, <1>8, SoundShrinks

\* One more sector goes to the control chain, in a block that has no free one
\* from there on.
LEMMA SoundPlaces ==
  ASSUME NEW g \in Header, Ascends(g), NEW c \in Seq(Sectors), OneByOne(c), NEW fs, DOMAIN fs = Files,
         FreeSectors(g) \cap (ToSet(c) \cup FirstsOf(fs)) = {},
         g.fctrl \in Sectors, Rest(g.fctrl, BlockOf(g.fctrl)) \cap FreeSectors(g) = {},
         \A i \in DOMAIN c : BlockOf(c[i]) = BlockOf(g.fctrl) => c[i] < g.fctrl,
         NEW ty \in {"first", "cont"}, NEW h,
         h = [free |-> g.free, last |-> g.last, fctrl |-> g.fctrl + 1,
              type |-> [g.type EXCEPT ![g.fctrl] = ty], next |-> g.next]
  PROVE  /\ Sound(h, Append(c, g.fctrl), fs) /\ Append(c, g.fctrl) # <<>>
         /\ FreeSectors(h) = FreeSectors(g)
         /\ Spare(h, Append(c, g.fctrl)) = (FreeSectors(g) \cup Rest(g.fctrl, BlockOf(g.fctrl))) \ {g.fctrl}
<1> DEFINE s == g.fctrl
           b == BlockOf(s)
           d == Append(c, s)
           F == FreeSectors(g)
<1>1. /\ s \in Sectors /\ s \in Nat /\ s < NumSects /\ NumSects \in Nat /\ F \subseteq Sectors
      /\ Sectors \subseteq Nat
  BY SectsIs, HeaderIs
<1>2. s \in Rest(s, b) /\ s \notin F
  BY <1>1 DEF Rest
<1>3. h \in Header
  <2>1. s + 1 \in 0 .. NumSects
    BY <1>1
  <2> QED BY <2>1, HeaderIs DEF Header
<1>4. FreeSectors(h) = F
  BY <1>1, <1>2, HeaderIs DEF FreeSectors
<1>5. Ascends(h)
  <2>1. h.free = g.free /\ \A x \in F : h.next[x] = g.next[x]
    OBVIOUS
  <2> HIDE DEF F
  <2> QED BY <1>3, <1>4, <2>1, ListKept DEF F
<1>6. /\ d \in Seq(Sectors) /\ Len(c) \in Nat /\ Len(d) = Len(c) + 1 /\ d[Len(d)] = s /\ d # <<>>
      /\ DOMAIN c = 1 .. Len(c) /\ DOMAIN d = 1 .. Len(d)
      /\ \A i \in DOMAIN d : (i \in DOMAIN c /\ d[i] = c[i]) \/ (i = Len(d) /\ d[i] = s)
  BY <1>1
<1>7. ASSUME NEW i \in DOMAIN c PROVE c[i] # s
  BY <1>1, <1>7
<1> HIDE DEF d, b, s
<1>8. OneByOne(d)
  <2> SUFFICES ASSUME NEW i \in DOMAIN d, NEW j \in DOMAIN d, d[i] = d[j] PROVE i = j
    BY DEF OneByOne
  <2>1. CASE i \in DOMAIN c /\ d[i] = c[i]
    BY <1>6, <1>7, <2>1 DEF OneByOne
  <2>2. CASE i = Len(d) /\ d[i] = s
    BY <1>6, <1>7, <2>2
  <2> QED BY <1>6, <2>1, <2>2
<1>9. Chained(d, h.fctrl)
  <2>1. h.fctrl = s + 1 /\ LastIn(d) = s
    BY <1>6 DEF s, LastIn
  <2>2. \A i \in DOMAIN d : BlockOf(d[i]) = b => d[i] < s + 1
    <3> SUFFICES ASSUME NEW i \in DOMAIN d, BlockOf(d[i]) = b PROVE d[i] < s + 1
      OBVIOUS
    <3>1. CASE i \in DOMAIN c /\ d[i] = c[i]
      <4> DEFINE x == c[i]
      <4>1. x \in Sectors
        BY <3>1
      <4>2. BlockOf(x) = b
        BY <3>1
      <4>3. x < s
        BY <3>1, <4>2 DEF b, s
      <4> HIDE DEF x
      <4>4. x < s + 1
        BY <1>1, <4>1, <4>3
      <4> QED BY <3>1, <4>4 DEF x
    <3>2. CASE d[i] = s
      BY <1>1, <3>2
    <3> QED BY <1>6, <3>1, <3>2
  <2> QED BY <1>6, <1>8, <2>1, <2>2 DEF Chained, b
<1>10. CtrlBlock(d, h.fctrl) = b /\ h.fctrl = s + 1
  BY <1>6 DEF CtrlBlock, LastIn, b, s
<1>11. Rest(s + 1, b) = Rest(s, b) \ {s}
  <2>1. \A x \in Sectors : x >= s + 1 <=> x >= s /\ x # s
    BY <1>1
  <2> QED BY <2>1 DEF Rest
<1>12. ToSet(d) = ToSet(c) \cup {s}
  <2>1. \A i \in DOMAIN c : i \in DOMAIN d /\ d[i] = c[i]
    BY <1>1, <1>6 DEF d
  <2>2. Len(d) \in DOMAIN d
    BY <1>6
  <2> QED BY <1>6, <2>1, <2>2 DEF ToSet
<1>13. F \cap (ToSet(d) \cup Rest(s + 1, b) \cup FirstsOf(fs)) = {}
  BY <1>2, <1>11, <1>12 DEF F, b, s
<1>14. Sound(h, d, fs)
  BY <1>3, <1>4, <1>5, <1>9, <1>10, <1>13 DEF Sound
<1>15. Spare(h, d) = (F \cup Rest(s, b)) \ {s}
  BY <1>2, <1>4, <1>10, <1>11 DEF Spare
<1> QED BY <1>4, <1>6, <1>14, <1>15 DEF d, b, s, F

-----------------------------------------------------------------------------
(* Each action keeps the lists.                                            *)

\* Nothing that a flash does ends anything but plainly if it was so before.
LEMMA DiskStays ==
  ASSUME DiskSound, disk' \in {disk, None}
  PROVE  DiskSound'
<1>1. CASE disk' = None
  BY <1>1 DEF DiskSound
<1>2. CASE disk' = disk
  BY <1>2 DEF DiskSound, Parsed, Sound, Chained, FirstsOf, Spare, Ascends
<1> QED BY <1>1, <1>2

LEMMA ListBeginTfs ==
  ASSUME ListHeld, BeginTfs
  PROVE  ListHeld'
<1> DEFINE g == FreshHeader
<1>1. /\ hdr' = g /\ chain' = <<>> /\ files' = [f \in Files |-> None] /\ csc' = FALSE /\ pc' = "file"
      /\ at' = [i |-> 0, frst |-> g.free] /\ todo' \in Batches /\ disk' = disk
  BY DEF BeginTfs, Enter, phoneVars
<1>2. DiskSound'
  BY <1>1, DiskStays DEF ListHeld
<1>3. FirstsOf(files') = {}
  BY <1>1 DEF FirstsOf
<1>4. Sound(g, <<>>, files')
  <2>1. Chained(<<>>, g.fctrl) /\ ToSet(<<>>) = {} /\ CtrlBlock(<<>>, g.fctrl) = BlockOf(g.fctrl)
    BY DEF Chained, OneByOne, ToSet, CtrlBlock
  <2> HIDE DEF g
  <2> QED BY <1>1, <1>3, <2>1, FreshIs DEF Sound, g
<1>5. AtFile'
  <2>1. todo' \in Seq([file : Files, len : Nat])
    BY <1>1, BatchesAssumption
  <2>2. (IF csc' THEN disk'.chain[1] ELSE 0) \notin FreeSectors(hdr')
    BY <1>1, FreshIs
  <2> QED BY <1>1, <2>1, <2>2 DEF AtFile
<1> QED BY <1>1, <1>2, <1>4, <1>5 DEF ListHeld, Working


\* The marked sectors are a sequence of them.
LEMMA SetOfSectors ==
  ASSUME NEW S, S \subseteq Sectors
  PROVE  IsFiniteSet(S) /\ Cardinality(S) \in Nat /\ Len(Ascending(S)) = Cardinality(S)
<1>1. IsFiniteSet(Sectors)
  <2>1. 0 \in Int /\ NumSects - 1 \in Int
    BY SectsIs
  <2> QED BY <2>1, FS_Interval DEF Sectors
<1>2. IsFiniteSet(S) /\ Cardinality(S) \in Nat
  BY <1>1, FS_Subset, FS_CardinalityType
<1> DEFINE n == Cardinality(S)
<1>3. DOMAIN Ascending(S) = 1 .. n
  BY DEF Ascending
<1> HIDE DEF n
<1>4. Len(Ascending(S)) = n
  <2>1. Ascending(S) = [k \in 1 .. n |-> Ascending(S)[k]]
    BY DEF Ascending, n
  <2> DEFINE f == [k \in 1 .. n |-> Ascending(S)[k]]
  <2>2. Len(f) = n
    BY <1>2 DEF n
  <2> QED BY <2>1, <2>2
<1> QED BY <1>2, <1>4 DEF n

\* What a .csc takes for the block of its control is the one of the control
\* that it finds.
LEMMA SameBlock ==
  ASSUME DiskSound, disk # None, InOrder(disk)
  PROVE  CtrlBlock(<<>>, disk.fctrl) = CtrlBlock(disk.chain, disk.fctrl)
<1> DEFINE g == Parsed(disk)
           c == disk.chain
           s == LastIn(c)
<1>1. Sound(g, c, disk.files) /\ c # <<>> /\ disk.fctrl = g.fctrl
  BY DEF DiskSound
<1> HIDE DEF g, c
<1>2. c \in Seq(Sectors) /\ OneByOne(c) /\ g.fctrl = s + 1
  BY <1>1 DEF Sound, Chained
<1>3. s # LastOf(BlockOf(s))
  <2>1. Len(MarkedSects) \in Nat
    BY SetOfSectors DEF MarkedSects
  <2> QED BY <1>1, <1>2, <2>1, EndsInside DEF InOrder, c
<1>4. s \in Sectors
  <2>1. Len(c) \in 1 .. Len(c) /\ DOMAIN c = 1 .. Len(c)
    BY <1>1, <1>2
  <2> QED BY <1>2, <2>1 DEF LastIn
<1>5. BlockOf(g.fctrl) = BlockOf(s)
  <2> HIDE DEF s
  <2> QED BY <1>2, <1>3, <1>4, NextSector
<1> QED BY <1>1, <1>5 DEF CtrlBlock, c

LEMMA ListBeginCsc ==
  ASSUME ListHeld, Plainly', BeginCsc
  PROVE  ListHeld'
<1> DEFINE g == Parsed(disk)
           c == disk.chain
<1>1. /\ hdr' = g /\ chain' = <<>> /\ files' = disk.files /\ csc' = TRUE /\ pc' = "file"
      /\ at' = [i |-> 0, frst |-> g.free] /\ todo' \in Batches /\ disk' = disk /\ disk # None
      /\ InOrder(disk)
  BY DEF BeginCsc, Enter, phoneVars, Wreck, Taken, Plainly
<1>2. /\ DiskSound' /\ DiskSound /\ Sound(g, c, disk.files) /\ c # <<>>
      /\ disk.fctrl = g.fctrl
  BY <1>1, DiskStays DEF ListHeld, DiskSound
<1>3. CtrlBlock(<<>>, g.fctrl) = CtrlBlock(c, g.fctrl)
  BY <1>1, <1>2, SameBlock
<1> HIDE DEF g, c
<1>4. /\ g \in Header /\ Ascends(g) /\ c \in Seq(Sectors) /\ DOMAIN disk.files = Files
      /\ FreeSectors(g) \cap (ToSet(c) \cup Rest(g.fctrl, CtrlBlock(c, g.fctrl)) \cup FirstsOf(disk.files)) = {}
  BY <1>2 DEF Sound, Chained
<1>5. c[1] \in ToSet(c)
  <2>1. 1 \in DOMAIN c
    BY <1>2, <1>4
  <2> QED BY <2>1 DEF ToSet
<1>6. Sound(g, <<>>, disk.files)
  <2>1. Chained(<<>>, g.fctrl) /\ ToSet(<<>>) = {}
    BY DEF Chained, OneByOne, ToSet
  <2> QED BY <1>3, <1>4, <2>1 DEF Sound
<1>7. AtFile'
  <2>1. todo' \in Seq([file : Files, len : Nat])
    BY <1>1, BatchesAssumption
  <2>2. (IF csc' THEN disk'.chain[1] ELSE 0) \notin FreeSectors(hdr')
    BY <1>1, <1>4, <1>5 DEF c
  <2> QED BY <1>1, <2>1, <2>2 DEF AtFile
<1> QED BY <1>1, <1>2, <1>6, <1>7 DEF ListHeld, Working

LEMMA ListStore ==
  ASSUME ListHeld, Plainly', Store
  PROVE  /\ ListHeld' /\ hdr.free \in Sectors
         /\ Spare(hdr', chain') = Spare(hdr, chain) \ {hdr.free}
<1> DEFINE s == hdr.free
           ty == IF at.i = 0 THEN "first" ELSE "cont"
           to == IF at.i = Head(todo).len - 1 THEN Nil ELSE hdr.next[s]
<1>1. /\ pc = "file" /\ pc' = "file" /\ hdr.free # Nil
      /\ hdr' = [hdr EXCEPT !.type[s] = ty, !.next[s] = to, !.free = hdr.next[s]]
      /\ at' = [at EXCEPT !.i = @ + 1] /\ chain' = chain /\ files' = files /\ csc' = csc
      /\ todo' = todo /\ disk' = disk
  <2>1. hdr.free # Nil
    <3> SUFFICES ASSUME hdr.free = Nil PROVE FALSE
      OBVIOUS
    <3>1. IF hdr.free = Nil THEN Taken("clean") ELSE UNCHANGED hit
      BY DEF Store
    <3>2. "clean" \in hit'
      BY <3>1 DEF Taken
    <3> QED BY <3>2 DEF Plainly
  <2> QED BY <2>1 DEF Store, phoneVars, InFile
<1>2. DiskSound' /\ Sound(hdr, chain, files) /\ AtFile
  BY <1>1, DiskStays DEF ListHeld, Working
<1>3. hdr \in Header
  BY <1>2 DEF Sound
<1>4. s \in Sectors /\ to \in Sectors \cup {Nil} /\ ty \in {"unused", "first", "cont"}
  BY <1>1, <1>3, HeaderIs
<1> HIDE DEF ty, to
<1>5. hdr' = [free |-> hdr.next[hdr.free], last |-> hdr.last, fctrl |-> hdr.fctrl,
              type |-> [hdr.type EXCEPT ![hdr.free] = ty], next |-> [hdr.next EXCEPT ![hdr.free] = to]]
  <2>1. hdr = [free |-> hdr.free, last |-> hdr.last, fctrl |-> hdr.fctrl,
               type |-> hdr.type, next |-> hdr.next]
    BY <1>3, HeaderIs
  <2>2. hdr' = [hdr EXCEPT !.type[hdr.free] = ty, !.next[hdr.free] = to, !.free = hdr.next[hdr.free]]
    BY <1>1
  <2> QED BY <2>1, <2>2
<1>6. /\ Sound(hdr', chain, files) /\ s \in FreeSectors(hdr)
      /\ FreeSectors(hdr') = FreeSectors(hdr) \ {s}
      /\ Spare(hdr', chain) = Spare(hdr, chain) \ {s}
  <2> DEFINE h == hdr'
  <2>1. h = [free |-> hdr.next[hdr.free], last |-> hdr.last, fctrl |-> hdr.fctrl,
             type |-> [hdr.type EXCEPT ![hdr.free] = ty], next |-> [hdr.next EXCEPT ![hdr.free] = to]]
    BY <1>5
  <2> HIDE DEF h
  <2>2. /\ Sound(h, chain, files) /\ hdr.free \in FreeSectors(hdr)
        /\ FreeSectors(h) = FreeSectors(hdr) \ {hdr.free}
        /\ Spare(h, chain) = Spare(hdr, chain) \ {hdr.free}
    BY <1>1, <1>2, <1>4, <2>1, SoundTakes
  <2> QED BY <2>2 DEF h
<1>7. AtFile'
  <2>1. at'.i = at.i + 1 /\ at'.frst = at.frst /\ at' = [i |-> at'.i, frst |-> at'.frst]
        /\ at'.i \in Nat /\ at'.i # 0
    BY <1>1, <1>2 DEF AtFile
  <2>2. at.frst \notin FreeSectors(hdr')
    BY <1>2, <1>6 DEF AtFile
  <2>3. (IF csc' THEN disk'.chain[1] ELSE 0) \notin FreeSectors(hdr')
    BY <1>1, <1>2, <1>6 DEF AtFile
  <2> QED BY <1>1, <1>2, <2>1, <2>2, <2>3 DEF AtFile
<1>8. ListHeld'
  BY <1>1, <1>2, <1>6, <1>7 DEF ListHeld, Working
<1> QED BY <1>1, <1>4, <1>6, <1>8

\* A change that leaves the list alone leaves a control sound.
LEMMA SoundAlike ==
  ASSUME NEW g, NEW c, NEW fs, Sound(g, c, fs), NEW h \in Header, FreeSectors(h) = FreeSectors(g),
         h.free = g.free, h.fctrl = g.fctrl, \A s \in FreeSectors(g) : h.next[s] = g.next[s]
  PROVE  Sound(h, c, fs)
<1>1. g \in Header /\ Ascends(g)
  BY DEF Sound
<1>2. Ascends(h)
  BY <1>1, ListKept
<1> QED BY <1>2, SoundShrinks

\* A sector that is not free becomes unused.
LEMMA SoundUnused ==
  ASSUME NEW g, NEW c, NEW fs, Sound(g, c, fs), NEW x, x \notin FreeSectors(g), NEW h,
         h = [g EXCEPT !.type[x] = "unused"]
  PROVE  Sound(h, c, fs) /\ FreeSectors(h) = FreeSectors(g) /\ Spare(h, c) = Spare(g, c)
<1>1. g \in Header
  BY DEF Sound
<1>2. g = [free |-> g.free, last |-> g.last, fctrl |-> g.fctrl, type |-> g.type, next |-> g.next]
  BY <1>1, HeaderIs
<1>3. h = [free |-> g.free, last |-> g.last, fctrl |-> g.fctrl,
           type |-> [g.type EXCEPT ![x] = "unused"], next |-> g.next]
  BY <1>2
<1>4. h \in Header
  BY <1>1, <1>3, HeaderIs DEF Header
<1>5. FreeSectors(h) = FreeSectors(g)
  BY <1>1, <1>3, HeaderIs DEF FreeSectors
<1>6. h.free = g.free /\ h.fctrl = g.fctrl /\ h.next = g.next
  BY <1>3
<1>7. Spare(h, c) = Spare(g, c)
  BY <1>5, <1>6 DEF Spare
<1> QED BY <1>4, <1>5, <1>6, <1>7, SoundAlike

LEMMA ListEndFile ==
  ASSUME ListHeld, Plainly', EndFile
  PROVE  ListHeld' /\ Spare(hdr', chain') = Spare(hdr, chain)
<1> DEFINE f == Head(todo).file
           h == WithLast(hdr)
           old == files[f]
           frst == IF old = None /\ at.i = 0 THEN None ELSE at.frst
           F == FreeSectors(hdr)
<1>1. /\ pc = "file" /\ todo # <<>>
      /\ old # None => old.frst \in Sectors /\ at.i # 0
      /\ hdr' = IF old = None THEN h ELSE [h EXCEPT !.type[old.frst] = "unused"]
      /\ files' = [files EXCEPT ![f] = [frst |-> frst, len |-> at.i, gen |-> gen]]
      /\ todo' = Tail(todo) /\ at' = [i |-> 0, frst |-> hdr'.free]
      /\ pc' = "file" /\ csc' = csc /\ chain' = chain /\ disk' = disk
  <2>1. ~Wreck("empty") /\ ~Wreck("clean") /\ ~Taken("empty")
    BY DEF Wreck, Taken, Plainly
  <2> QED BY <2>1 DEF EndFile, InFile, Enter, phoneVars
<1>2. DiskSound' /\ Sound(hdr, chain, files) /\ AtFile
  BY <1>1, DiskStays DEF ListHeld, Working
<1>3. hdr \in Header /\ DOMAIN files = Files /\ F \cap FirstsOf(files) = {}
  BY <1>2 DEF Sound
<1>4. f \in Files /\ Tail(todo) \in Seq([file : Files, len : Nat])
  <2>1. todo \in Seq([file : Files, len : Nat])
    BY <1>2 DEF AtFile
  <2>2. \A R : todo \in Seq(R) /\ todo # <<>> => Head(todo) \in R
    OBVIOUS
  <2>3. Head(todo) \in [file : Files, len : Nat]
    BY <1>1, <2>1, <2>2
  <2> QED BY <1>1, <2>1, <2>3
<1> HIDE DEF f
<1>5. /\ h \in Header /\ h.free = hdr.free /\ h.fctrl = hdr.fctrl /\ FreeSectors(h) = F
      /\ h.next = hdr.next
  BY <1>3, WithLastIs
<1> HIDE DEF h, F
<1>6. Sound(h, chain, files)
  BY <1>2, <1>5, SoundAlike DEF F
<1>7. /\ Sound(hdr', chain, files) /\ FreeSectors(hdr') = F
      /\ Spare(hdr', chain) = Spare(hdr, chain)
  <2>0. Spare(h, chain) = Spare(hdr, chain)
    BY <1>5 DEF Spare, F
  <2>1. CASE old = None
    BY <1>1, <1>5, <1>6, <2>0, <2>1
  <2>2. CASE old # None
    <3>1. old.frst \in FirstsOf(files)
      BY <1>1, <1>4, <2>2 DEF FirstsOf
    <3>2. old.frst \notin FreeSectors(h)
      BY <1>3, <1>5, <3>1
    <3> DEFINE x == old.frst
               k == hdr'
    <3>3. k = [h EXCEPT !.type[x] = "unused"]
      BY <1>1, <2>2
    <3>4. x \notin FreeSectors(h)
      BY <3>2
    <3> HIDE DEF x, k
    <3>5. /\ Sound(k, chain, files) /\ FreeSectors(k) = FreeSectors(h)
          /\ Spare(k, chain) = Spare(h, chain)
      BY <1>6, <3>3, <3>4, SoundUnused
    <3> QED BY <1>5, <2>0, <3>5 DEF k
  <2> QED BY <2>1, <2>2
<1>8. F \cap FirstsOf(files') = {}
  <2> SUFFICES ASSUME NEW s \in F, NEW x \in Files, s \in Sectors, files'[x] # None, files'[x].frst = s
               PROVE  FALSE
    BY DEF FirstsOf
  <2>1. CASE x # f
    <3>1. files'[x] = files[x]
      BY <1>1, <2>1
    <3> QED BY <1>3, <3>1 DEF FirstsOf
  <2>2. CASE x = f
    <3>1. files'[x] = [frst |-> frst, len |-> at.i, gen |-> gen]
      BY <1>1, <1>3, <1>4, <2>2
    <3>2. s = frst
      BY <3>1
    <3>3. frst # None
      BY <3>2, BatchesAssumption
    <3>4. at.frst \in F /\ ~(old = None /\ at.i = 0)
      BY <3>2, <3>3
    <3>5. at.i = 0
      BY <1>2, <3>4 DEF AtFile, F
    <3> QED BY <1>1, <3>4, <3>5
  <2> QED BY <2>1, <2>2
<1>9. Sound(hdr', chain, files')
  <2>1. DOMAIN files' = Files
    BY <1>1, <1>3
  <2> QED BY <1>7, <1>8, <2>1 DEF Sound
<1>10. AtFile'
  BY <1>1, <1>2, <1>4, <1>7 DEF AtFile, F
<1>11. ListHeld'
  BY <1>1, <1>2, <1>9, <1>10 DEF ListHeld, Working
<1> QED BY <1>1, <1>7, <1>11

LEMMA ListInvalidate ==
  ASSUME ListHeld, Plainly', Invalidate
  PROVE  ListHeld' /\ Spare(hdr', chain') = Spare(hdr, chain)
<1> DEFINE head == IF csc THEN disk.chain[1] ELSE 0
           h == hdr'
<1>1. /\ pc = "file" /\ h = [hdr EXCEPT !.type[head] = "unused"] /\ left' \in CtrlLens
      /\ pc' = "place" /\ csc' = csc /\ chain' = chain /\ files' = files /\ disk' = disk
  <2>1. ~Wreck("full") /\ ~Wreck("stray")
    BY DEF Wreck, Taken, Plainly
  <2> QED BY <2>1 DEF Invalidate, phoneVars
<1>2. DiskSound' /\ Sound(hdr, chain, files) /\ AtFile
  BY <1>1, DiskStays DEF ListHeld, Working
<1>3. head \notin FreeSectors(hdr)
  BY <1>2 DEF AtFile
<1> HIDE DEF head, h
<1>4. Sound(h, chain, files) /\ Spare(h, chain) = Spare(hdr, chain)
  BY <1>1, <1>2, <1>3, SoundUnused
<1>5. left' \in Nat /\ left' > 0
  BY <1>1, SectorsAssumption, BlockSizeIs
<1> QED BY <1>1, <1>2, <1>4, <1>5 DEF ListHeld, Working, h

\* Where the next control sector goes to, and in which table: the one there is,
\* or the one in which a free block has been occupied.
PlacesIn(g, s, ty) ==
  /\ g \in Header /\ Ascends(g) /\ g.fctrl = s /\ s \in Sectors /\ ty \in {"first", "cont"}
  /\ FreeSectors(g) \cap (ToSet(chain) \cup FirstsOf(files)) = {}
  /\ Rest(s, BlockOf(s)) \cap FreeSectors(g) = {}
  /\ \A i \in DOMAIN chain : BlockOf(chain[i]) = BlockOf(s) => chain[i] < s
  /\ FreeSectors(g) \cup Rest(s, BlockOf(s)) \subseteq Spare(hdr, chain)
  /\ Apart(hdr, g)
  /\ ty = (IF chain = <<>> THEN "first" ELSE "cont")
  /\ IF Crossing
     THEN /\ BlockOf(s) \in FreeBlocks(hdr) /\ s = FirstOf(BlockOf(s))
          /\ \A b \in FreeBlocks(hdr) : BlockOf(s) <= b
     ELSE s = hdr.fctrl /\ g = hdr
  /\ hdr' = [free |-> g.free, last |-> g.last, fctrl |-> s + 1,
             type |-> [g.type EXCEPT ![s] = ty], next |-> g.next]

LEMMA PlaceGoes ==
  ASSUME ListHeld, Plainly', Place
  PROVE  /\ pc = "place" /\ left' = left - 1 /\ pc' = pc /\ gen' = gen
         /\ files' = files /\ csc' = csc /\ disk' = disk
         /\ \E g, s, ty : PlacesIn(g, s, ty) /\ chain' = Append(chain, s)
<1> DEFINE b == LeastOf(FreeBlocks(hdr))
           g == IF Crossing THEN Occupied(hdr, b) ELSE hdr
           s == g.fctrl
           ty == IF chain = <<>> THEN "first" ELSE "cont"
           h == hdr'
<1>1. /\ pc = "place" /\ left > 0 /\ left' = left - 1 /\ s \in Sectors
      /\ Crossing => FreeBlocks(hdr) # {} /\ hdr.free # FirstOf(b)
      /\ h = [g EXCEPT !.type[s] = ty, !.fctrl = @ + 1]
      /\ chain' = Append(chain, s) /\ pc' = pc /\ files' = files /\ csc' = csc /\ disk' = disk /\ gen' = gen
  <2>1. ~Wreck("stray")
    BY DEF Wreck, Taken, Plainly
  <2>2. ~(Crossing /\ FreeBlocks(hdr) = {})
    <3> SUFFICES ASSUME Crossing /\ FreeBlocks(hdr) = {} PROVE FALSE
      OBVIOUS
    <3>1. "clean" \in hit'
      BY <2>1 DEF Place
    <3>2. "clean" \notin hit'
      BY DEF Plainly
    <3> QED BY <3>1, <3>2
  <2>3. ~(Crossing /\ hdr.free = FirstOf(b))
    <3>1. hit' = hit \cup {} \cup (IF Crossing /\ hdr.free = FirstOf(b) THEN {"head"} ELSE {})
      BY <2>1, <2>2 DEF Place
    <3>2. "head" \notin hit'
      BY DEF Plainly
    <3> QED BY <3>1, <3>2
  <2> QED BY <2>1, <2>2, <2>3 DEF Place, phoneVars
<1>2. Sound(hdr, chain, files)
  BY <1>1 DEF ListHeld, Working
<1>3. /\ hdr \in Header /\ Ascends(hdr) /\ Chained(chain, hdr.fctrl) /\ DOMAIN files = Files
      /\ FreeSectors(hdr) \cap (ToSet(chain) \cup FirstsOf(files)) = {}
      /\ FreeSectors(hdr) \cap Rest(hdr.fctrl, CtrlBlock(chain, hdr.fctrl)) = {}
  BY <1>2 DEF Sound
<1>4. /\ g \in Header /\ Ascends(g)
      /\ FreeSectors(g) \cap (ToSet(chain) \cup FirstsOf(files)) = {}
      /\ Rest(s, BlockOf(s)) \cap FreeSectors(g) = {}
      /\ \A i \in DOMAIN chain : BlockOf(chain[i]) = BlockOf(s) => chain[i] < s
      /\ FreeSectors(g) \cup Rest(s, BlockOf(s)) \subseteq Spare(hdr, chain)
      /\ Apart(hdr, g)
  <2>1. CASE Crossing
    <3>1. b \in FreeBlocks(hdr) /\ b \in 0 .. NumBlocks - 1
      <4>1. FreeBlocks(hdr) \subseteq 0 .. NumBlocks - 1
        BY DEF FreeBlocks
      <4>2. FreeBlocks(hdr) \subseteq Nat
        BY <4>1, BlockSizeIs
      <4> QED BY <1>1, <2>1, <4>1, <4>2, LeastIs
    <3> HIDE DEF b
    <3>2. SectorsOf(b) \subseteq FreeSectors(hdr) /\ SectorsOf(b) \subseteq Sectors
          /\ FirstOf(b) \in SectorsOf(b)
      BY <3>1, BlocksAre DEF FreeBlocks, FreeSectors
    <3>3. /\ g \in Header /\ Ascends(g)
          /\ FreeSectors(g) = FreeSectors(hdr) \ SectorsOf(b) /\ s = FirstOf(b)
      BY <1>1, <1>3, <2>1, <3>1, <3>2, BlockTaken
    <3>4. BlockOf(s) = b
      BY <3>1, <3>2, <3>3, OfBlock
    <3>9. Apart(hdr, g)
      <4>1. g = Occupied(hdr, b) /\ hdr.free # FirstOf(b)
        BY <1>1, <2>1
      <4>2. Apart(hdr, Occupied(hdr, b))
        BY <1>3, <3>1, <3>2, <4>1, BlockTaken
      <4> HIDE DEF g
      <4> QED BY <4>1, <4>2
    <3> HIDE DEF g, s
    <3>5. \A x \in Sectors : BlockOf(x) = b => x \in SectorsOf(b)
      BY BlockOfIs
    <3>6. Rest(s, b) \cap FreeSectors(g) = {}
      BY <3>3, <3>5 DEF Rest
    <3>7. \A i \in DOMAIN chain : BlockOf(chain[i]) # b
      <4> SUFFICES ASSUME NEW i \in DOMAIN chain, BlockOf(chain[i]) = b PROVE FALSE
        OBVIOUS
      <4>1. chain[i] \in Sectors /\ chain[i] \in ToSet(chain)
        BY <1>3 DEF Chained, ToSet
      <4> QED BY <1>3, <3>2, <3>5, <4>1
    <3>8. FreeSectors(g) \cup Rest(s, b) \subseteq FreeSectors(hdr)
      BY <3>2, <3>3, <3>5 DEF Rest
    <3> QED BY <1>3, <3>3, <3>4, <3>6, <3>7, <3>8, <3>9 DEF Spare
  <2>2. CASE ~Crossing
    <3>1. g = hdr /\ s = hdr.fctrl
      BY <2>2
    <3> HIDE DEF g, s, b
    <3>2. CtrlBlock(chain, hdr.fctrl) = BlockOf(s)
      <4>1. CASE chain = <<>>
        BY <3>1, <4>1 DEF CtrlBlock
      <4>2. CASE chain # <<>>
        <5> DEFINE x == LastIn(chain)
        <5>1. s = x + 1 /\ s % BlockSize # 0
          BY <1>3, <2>2, <3>1, <4>2 DEF Chained, Crossing
        <5>2. x \in Sectors
          BY <1>3, <4>2 DEF Chained, LastIn
        <5> HIDE DEF x
        <5>3. BlockOf(s) = BlockOf(x)
          BY <5>1, <5>2, NextSector
        <5> QED BY <4>2, <5>3 DEF CtrlBlock, x
      <4> QED BY <4>1, <4>2
    <3>3. \A i \in DOMAIN chain : BlockOf(chain[i]) = BlockOf(s) => chain[i] < s
      <4>1. CASE chain = <<>>
        BY <4>1
      <4>2. CASE chain # <<>>
        BY <1>3, <3>1, <3>2, <4>2 DEF Chained, CtrlBlock
      <4> QED BY <4>1, <4>2
    <3>4. FreeSectors(g) \cup Rest(s, BlockOf(s)) = Spare(hdr, chain)
      BY <3>1, <3>2 DEF Spare
    <3>5. Apart(hdr, g)
      BY <3>1 DEF Apart
    <3> QED BY <1>3, <3>1, <3>2, <3>3, <3>4, <3>5
  <2> QED BY <2>1, <2>2
<1>5. ty \in {"first", "cont"}
  OBVIOUS
<1> HIDE DEF g, h
<1>6. h = [free |-> g.free, last |-> g.last, fctrl |-> s + 1,
           type |-> [g.type EXCEPT ![s] = ty], next |-> g.next]
  <2>1. g = [free |-> g.free, last |-> g.last, fctrl |-> g.fctrl, type |-> g.type, next |-> g.next]
    BY <1>4, HeaderIs
  <2> QED BY <1>1, <2>1
<1>8. IF Crossing
      THEN /\ BlockOf(s) \in FreeBlocks(hdr) /\ s = FirstOf(BlockOf(s))
           /\ \A k \in FreeBlocks(hdr) : BlockOf(s) <= k
      ELSE s = hdr.fctrl /\ g = hdr
  <2>1. CASE Crossing
    <3>1. b \in FreeBlocks(hdr) /\ \A k \in FreeBlocks(hdr) : b <= k
      <4>1. FreeBlocks(hdr) \subseteq Nat
        BY BlockSizeIs DEF FreeBlocks
      <4> QED BY <1>1, <2>1, <4>1, LeastIs
    <3> HIDE DEF b
    <3>2. b \in 0 .. NumBlocks - 1 /\ FirstOf(b) \in SectorsOf(b)
      BY <3>1, BlocksAre DEF FreeBlocks
    <3>3. s = FirstOf(b)
      BY <2>1 DEF g, Occupied
    <3>4. BlockOf(s) = b
      BY <3>2, <3>3, OfBlock
    <3> QED BY <2>1, <3>1, <3>3, <3>4
  <2>2. CASE ~Crossing
    BY <2>2 DEF g
  <2> QED BY <2>1, <2>2
<1>7. PlacesIn(g, s, ty)
  <2>1. g.fctrl = s /\ ty = (IF chain = <<>> THEN "first" ELSE "cont") /\ s \in Sectors
    BY <1>1
  <2> HIDE DEF s, ty
  <2> QED BY <2>1, <1>4, <1>5, <1>6, <1>8 DEF PlacesIn, h
<1> HIDE DEF s, ty
<1> QED BY <1>1, <1>7

LEMMA ListPlace ==
  ASSUME ListHeld, Plainly', Place
  PROVE  ListHeld' /\ Spare(hdr', chain') \subseteq Spare(hdr, chain)
<1>1. /\ pc = "place" /\ left > 0 /\ left' = left - 1 /\ pc' = pc
      /\ files' = files /\ csc' = csc /\ disk' = disk
  BY PlaceGoes DEF Place
<1>2. PICK g, s, ty : PlacesIn(g, s, ty) /\ chain' = Append(chain, s)
  BY PlaceGoes
<1>3. DiskSound' /\ Sound(hdr, chain, files) /\ left \in Nat
  BY <1>1, DiskStays DEF ListHeld, Working
<1>4. chain \in Seq(Sectors) /\ OneByOne(chain) /\ DOMAIN files = Files
  BY <1>3 DEF Sound, Chained
<1>5. /\ Sound(hdr', Append(chain, s), files) /\ Append(chain, s) # <<>>
      /\ Spare(hdr', Append(chain, s)) = (FreeSectors(g) \cup Rest(s, BlockOf(s))) \ {s}
  <2> DEFINE h == hdr'
  <2>1. h = [free |-> g.free, last |-> g.last, fctrl |-> g.fctrl + 1,
             type |-> [g.type EXCEPT ![g.fctrl] = ty], next |-> g.next]
    BY <1>2 DEF PlacesIn
  <2> HIDE DEF h
  <2>2. /\ Sound(h, Append(chain, g.fctrl), files) /\ Append(chain, g.fctrl) # <<>>
        /\ Spare(h, Append(chain, g.fctrl)) = (FreeSectors(g) \cup Rest(g.fctrl, BlockOf(g.fctrl))) \ {g.fctrl}
    BY <1>2, <1>4, <2>1, SoundPlaces DEF PlacesIn
  <2> QED BY <1>2, <2>2 DEF h, PlacesIn
<1>6. left' \in Nat
  BY <1>1, <1>3
<1>7. Spare(hdr', chain') \subseteq Spare(hdr, chain)
  BY <1>2, <1>5 DEF PlacesIn
<1> QED BY <1>1, <1>2, <1>3, <1>5, <1>6, <1>7 DEF ListHeld, Working

LEMMA ListPlaced ==
  ASSUME ListHeld, Plainly', Placed
  PROVE  ListHeld'
<1>1. /\ pc = "place" /\ left = 0 /\ pc' = "pop" /\ hdr' = hdr /\ chain' = chain /\ files' = files
      /\ disk' = disk
  <2>1. ~Wreck("stray")
    BY DEF Wreck, Taken, Plainly
  <2> QED BY <2>1 DEF Placed, phoneVars
<1>2. DiskSound' /\ Sound(hdr, chain, files) /\ chain # <<>>
  BY <1>1, DiskStays DEF ListHeld, Working
<1> QED BY <1>1, <1>2 DEF ListHeld, Working

LEMMA ListPop ==
  ASSUME ListHeld, Plainly', Pop
  PROVE  ListHeld' /\ Spare(hdr', chain') \subseteq Spare(hdr, chain)
<1> DEFINE s == hdr.free
           h == hdr'
<1>1. /\ pc = "pop" /\ pc' = "pop" /\ hdr.free # Nil
      /\ h = [hdr EXCEPT !.type[s] = "unused", !.free = hdr.next[s]]
      /\ chain' = chain /\ files' = files /\ disk' = disk
  <2>1. hdr.free # Nil
    BY DEF Pop, Taken, Plainly
  <2> QED BY <2>1 DEF Pop, phoneVars
<1>2. DiskSound' /\ Sound(hdr, chain, files) /\ chain # <<>>
  BY <1>1, DiskStays DEF ListHeld, Working
<1>3. hdr \in Header
  BY <1>2 DEF Sound
<1>4. s \in Sectors /\ hdr.next[s] \in Sectors \cup {Nil}
  BY <1>1, <1>3, HeaderIs
<1> HIDE DEF h
<1>5. h = [free |-> hdr.next[hdr.free], last |-> hdr.last, fctrl |-> hdr.fctrl,
           type |-> [hdr.type EXCEPT ![hdr.free] = "unused"],
           next |-> [hdr.next EXCEPT ![hdr.free] = hdr.next[s]]]
  <2>1. hdr = [free |-> hdr.free, last |-> hdr.last, fctrl |-> hdr.fctrl,
               type |-> hdr.type, next |-> hdr.next]
    BY <1>3, HeaderIs
  <2>2. [hdr.next EXCEPT ![hdr.free] = hdr.next[s]] = hdr.next
    BY <1>3, HeaderIs
  <2> QED BY <1>1, <2>1, <2>2
<1>6. Sound(h, chain, files) /\ Spare(h, chain) = Spare(hdr, chain) \ {hdr.free}
  BY <1>1, <1>2, <1>4, <1>5, SoundTakes
<1> QED BY <1>1, <1>2, <1>6 DEF ListHeld, Working, h

LEMMA ListSeal ==
  ASSUME ListHeld, Plainly', Seal
  PROVE  ListHeld' /\ Spare(hdr', chain') = Spare(hdr, chain)
<1> DEFINE nextOf(i) == IF i = Len(chain) THEN Nil ELSE chain[i + 1]
           place(s) == CHOOSE i \in DOMAIN chain : chain[i] = s
           links == [s \in Sectors |-> IF s \in ToSet(chain) THEN nextOf(place(s)) ELSE hdr.next[s]]
           k == [hdr EXCEPT !.next = links]
           h == hdr'
<1>1. /\ pc = "pop" /\ h = WithLast(k) /\ pc' = "flash" /\ chain' = chain /\ files' = files
      /\ disk' \in {disk, None}
  <2>1. ~Wreck("full") /\ ~Wreck("stray")
    BY DEF Wreck, Taken, Plainly
  <2> QED BY <2>1 DEF Seal
<1>2. DiskSound' /\ Sound(hdr, chain, files) /\ chain # <<>>
  BY <1>1, DiskStays DEF ListHeld, Working
<1>3. /\ hdr \in Header /\ chain \in Seq(Sectors)
      /\ FreeSectors(hdr) \cap ToSet(chain) = {} /\ FreeSectors(hdr) \subseteq Sectors
  BY <1>2, HeaderIs DEF Sound, Chained
<1>4. links \in [Sectors -> Sectors \cup {Nil}]
  <2>1. ASSUME NEW s \in ToSet(chain)
        PROVE  nextOf(place(s)) \in Sectors \cup {Nil}
    <3> DEFINE i == place(s)
    <3>1. i \in DOMAIN chain
      BY <2>1 DEF ToSet
    <3> HIDE DEF i
    <3>2. i # Len(chain) => i + 1 \in DOMAIN chain
      BY <1>3, <3>1
    <3>3. nextOf(i) \in Sectors \cup {Nil}
      BY <1>3, <3>2
    <3> QED BY <3>3 DEF i
  <2>2. \A s \in Sectors : hdr.next[s] \in Sectors \cup {Nil}
    BY <1>3, HeaderIs
  <2> HIDE DEF nextOf, place
  <2> QED BY <2>1, <2>2
<1>5. \A s \in FreeSectors(hdr) : links[s] = hdr.next[s]
  <2> HIDE DEF nextOf, place
  <2> QED BY <1>3
<1> HIDE DEF links, h
<1>6. k = [free |-> hdr.free, last |-> hdr.last, fctrl |-> hdr.fctrl, type |-> hdr.type, next |-> links]
  <2>1. hdr = [free |-> hdr.free, last |-> hdr.last, fctrl |-> hdr.fctrl,
               type |-> hdr.type, next |-> hdr.next]
    BY <1>3, HeaderIs
  <2> QED BY <2>1
<1> HIDE DEF k
<1>7. k \in Header /\ FreeSectors(k) = FreeSectors(hdr)
  BY <1>3, <1>4, <1>6, HeaderIs DEF Header, FreeSectors
<1>8. /\ h \in Header /\ FreeSectors(h) = FreeSectors(k) /\ h.free = k.free /\ h.fctrl = k.fctrl
      /\ h.next = k.next
  BY <1>1, <1>7, WithLastIs
<1>9. h.free = hdr.free /\ h.fctrl = hdr.fctrl /\ h.next = links
  BY <1>6, <1>8
<1>10. Sound(h, chain, files)
  BY <1>2, <1>5, <1>7, <1>8, <1>9, SoundAlike
<1>11. Spare(h, chain) = Spare(hdr, chain)
  BY <1>7, <1>8, <1>9 DEF Spare
<1> QED BY <1>1, <1>2, <1>10, <1>11 DEF ListHeld, Working, h

\* What is on the phone then has the lists that it was written with.
LEMMA ListFlashed ==
  ASSUME ListHeld, Plainly', Flashed, ReadBack'
  PROVE  ListHeld'
<1> DEFINE d == disk'
           h == Parsed(d)
<1>1. /\ pc = "flash" /\ pc' = "idle" /\ d.gen = gen /\ d.fctrl = hdr.fctrl /\ d.files = files
      /\ d.chain = chain /\ hdr' = hdr /\ gen' = gen
  BY DEF Flashed, patchVars
<1>2. Sound(hdr, chain, files) /\ chain # <<>>
  BY <1>1 DEF ListHeld, Working
<1>3. DiskSound'
  <2> SUFFICES ASSUME d # None
               PROVE  Sound(h, d.chain, d.files) /\ d.chain # <<>> /\ d.fctrl = h.fctrl
    BY DEF DiskSound
  <2>1. hit' \subseteq {"cut", "torn", "retry", "recycled"}
    BY DEF Plainly
  <2>2. /\ h \in Header /\ Walk(h.next, h.free) = Walk(hdr.next, hdr.free)
        /\ FreeSectors(h) = FreeSectors(hdr)
    BY <1>1, <2>1 DEF ReadBack
  <2>3. h.fctrl = d.fctrl
    BY DEF Parsed
  <2> HIDE DEF h, d
  <2>4. hdr \in Header /\ Ascends(hdr)
    BY <1>2 DEF Sound
  <2>5. Ascends(h)
    BY <2>2, <2>4, AscendsAlike
  <2>6. Sound(h, chain, files)
    BY <1>1, <1>2, <2>2, <2>3, <2>5, SoundShrinks
  <2> QED BY <1>1, <1>2, <2>3, <2>6
<1> QED BY <1>1, <1>3 DEF ListHeld, Working

\* A step that leaves the patch.
LEMMA ListLeft ==
  ASSUME ListHeld, pc' \in {"idle", "lost"}, disk' \in {disk, None}
  PROVE  ListHeld'
  BY DiskStays DEF ListHeld, Working

LEMMA ListAct ==
  ASSUME ListHeld, Act
  PROVE  ListHeld'
<1>1. pc = "flash" /\ pc' = pc /\ hdr' = hdr /\ chain' = chain /\ files' = files /\ disk' = disk
  BY DEF Act, patchVars
<1>2. DiskSound' /\ Sound(hdr, chain, files) /\ chain # <<>>
  BY <1>1, DiskStays DEF ListHeld, Working
<1> QED BY <1>1, <1>2 DEF ListHeld, Working

LEMMA ListInit ==
  ASSUME Init
  PROVE  ListInv
  BY DEF Init, ListInv, ListHeld, DiskSound, Working

LEMMA ListNext ==
  ASSUME ListInv, ReadBack', [Next]_vars
  PROVE  ListInv'
<1> SUFFICES ASSUME Plainly' PROVE ListHeld'
  BY DEF ListInv
<1>1. CASE BeginTfs
  <2>1. Plainly
    BY <1>1 DEF BeginTfs, Taken, Plainly
  <2> QED BY <1>1, <2>1, ListBeginTfs DEF ListInv
<1>2. CASE BeginCsc
  <2>1. Plainly
    BY <1>2 DEF BeginCsc, Wreck, Taken, Plainly
  <2> QED BY <1>2, <2>1, ListBeginCsc DEF ListInv
<1>3. CASE Store
  <2>1. Plainly
    BY <1>3 DEF Store, Taken, Plainly
  <2> QED BY <1>3, <2>1, ListStore DEF ListInv
<1>4. CASE EndFile
  <2>1. Plainly
    BY <1>4 DEF EndFile, Wreck, Taken, Plainly
  <2> QED BY <1>4, <2>1, ListEndFile DEF ListInv
<1>5. CASE Invalidate
  <2>1. Plainly
    BY <1>5 DEF Invalidate, Wreck, Taken, Plainly
  <2> QED BY <1>5, <2>1, ListInvalidate DEF ListInv
<1>6. CASE Place
  <2>1. Plainly
    BY <1>6 DEF Place, Wreck, Taken, Plainly
  <2> QED BY <1>6, <2>1, ListPlace DEF ListInv
<1>7. CASE Placed
  <2>1. Plainly
    BY <1>7 DEF Placed, Wreck, Taken, Plainly
  <2> QED BY <1>7, <2>1, ListPlaced DEF ListInv
<1>8. CASE Pop
  <2>1. Plainly
    BY <1>8 DEF Pop, Taken, Plainly
  <2> QED BY <1>8, <2>1, ListPop DEF ListInv
<1>9. CASE Seal
  <2>1. Plainly
    BY <1>9 DEF Seal, Wreck, Taken, Plainly
  <2> QED BY <1>9, <2>1, ListSeal DEF ListInv
<1>10. CASE NoSpace \/ Fragmented \/ NothingToPop
  <2>1. Abandon
    BY <1>10 DEF NoSpace, Fragmented, NothingToPop
  <2>2. pc' = "idle" /\ disk' = disk /\ hit' = hit
    BY <2>1 DEF Abandon, phoneVars
  <2> QED BY <2>2, ListLeft DEF ListInv, Plainly
<1>11. CASE Act
  <2>1. Plainly
    BY <1>11 DEF Act, Plainly
  <2> QED BY <1>11, <2>1, ListAct DEF ListInv
<1>12. CASE Flashed
  <2>1. Plainly
    BY <1>12 DEF Flashed, Plainly
  <2> QED BY <1>12, <2>1, ListFlashed DEF ListInv
<1>13. CASE PowerCut
  <2>1. pc' = "idle" /\ disk' \in {disk, None} /\ Plainly
    BY <1>13 DEF PowerCut, Taken, Plainly
  <2> QED BY <2>1, ListLeft DEF ListInv
<1>14. CASE UNCHANGED vars
  <2>1. /\ pc' = pc /\ hdr' = hdr /\ chain' = chain /\ files' = files /\ disk' = disk /\ hit' = hit
        /\ at' = at /\ todo' = todo /\ csc' = csc /\ left' = left
    BY <1>14 DEF vars, patchVars, phoneVars
  <2>2. Plainly /\ ListHeld
    BY <2>1 DEF ListInv, Plainly
  <2>3. DiskSound'
    BY <2>1, <2>2, DiskStays DEF ListHeld
  <2> QED BY <2>1, <2>2, <2>3 DEF ListHeld, Working, AtFile
<1> QED BY <1>1, <1>2, <1>3, <1>4, <1>5, <1>6, <1>7, <1>8, <1>9, <1>10, <1>11, <1>12, <1>13, <1>14
        DEF Next, Patch

LEMMA ListThen ==
  ASSUME ListInv
  PROVE  FreeListSound
<1> SUFFICES ASSUME Working, Plainly
             PROVE  /\ Ends(hdr.next, hdr.free)
                    /\ Reach(hdr.next, hdr.free) = FreeSectors(hdr)
  BY DEF FreeListSound, ListSound, Working, Plainly, FreeSectors
<1>1. hdr \in Header /\ Ascends(hdr)
  BY DEF ListInv, ListHeld, Sound
<1> QED BY <1>1, AscendsThen

-----------------------------------------------------------------------------
(* What a flash writes, and what it leaves alone.                          *)

\* There is a sector for each place in the order of its set.
LEMMA AscendingIn ==
  ASSUME NEW S, S \subseteq Sectors, NEW k \in 1 .. Cardinality(S)
  PROVE  Ascending(S)[k] \in S /\ Cardinality({t \in S : t < Ascending(S)[k]}) = k - 1
<1> DEFINE n == Cardinality(S)
           Below(s) == {t \in S : t < s}
           P == {m \in 0 .. n - 1 : \E s \in S : Cardinality(Below(s)) = m}
<1>1. IsFiniteSet(S) /\ n \in Nat /\ S \subseteq Nat
  BY SetOfSectors, SectsIs
<1>2. n - 1 \in Nat /\ S # {}
  BY <1>1, FS_EmptySet
<1>3. 0 \in P
  <2> DEFINE s == LeastOf(S)
  <2>1. s \in S /\ \A y \in S : s <= y
    BY <1>1, <1>2, LeastIs
  <2> HIDE DEF s
  <2>2. \A t \in S : ~(t < s)
    <3> SUFFICES ASSUME NEW t \in S PROVE ~(t < s)
      OBVIOUS
    <3>1. t \in Nat /\ s \in Nat /\ s <= t
      BY <1>1, <2>1
    <3> QED BY <3>1
  <2>3. Below(s) = {}
    BY <2>2
  <2>4. Cardinality(Below(s)) = 0
    BY <2>3, FS_EmptySet
  <2> HIDE DEF Below
  <2>5. 0 \in 0 .. n - 1
    BY <1>2
  <2> QED BY <2>1, <2>4, <2>5
<1>4. ASSUME NEW m \in P, m \in 0 .. (n - 1) - 1
      PROVE  m + 1 \in P
  <2>1. PICK s \in S : Cardinality(Below(s)) = m
    OBVIOUS
  <2> DEFINE B == Below(s)
             C == B \cup {s}
             U == S \ C
             u == LeastOf(U)
  <2>2. IsFiniteSet(B) /\ s \notin B /\ s \in Nat
    <3>1. B \subseteq S
      OBVIOUS
    <3> QED BY <1>1, <3>1, FS_Subset
  <2> HIDE DEF Below
  <2>3. Cardinality(C) = m + 1
    <3> HIDE DEF B
    <3>1. Cardinality(B \cup {s}) = Cardinality(B) + 1
      BY <2>2, FS_AddElement
    <3> QED BY <2>1, <3>1 DEF B
  <2>4. U # {}
    <3> SUFFICES ASSUME S \subseteq C PROVE FALSE
      OBVIOUS
    <3>1. C = S
      BY DEF Below
    <3> HIDE DEF C
    <3> QED BY <1>1, <1>4, <2>3, <3>1
  <2>5. u \in U /\ \A y \in U : u <= y
    <3>1. U \subseteq Nat
      BY <1>1
    <3> HIDE DEF U
    <3> QED BY <2>4, <3>1, LeastIs
  <2> HIDE DEF u
  <2>6. Below(u) = C
    <3>1. u \in S /\ u \in Nat /\ s \in Nat /\ ~(u < s) /\ u # s
      BY <1>1, <2>2, <2>5 DEF Below
    <3>2. \A t \in S : t < u => t \in C
      <4> SUFFICES ASSUME NEW t \in S, t < u, t \notin C PROVE FALSE
        OBVIOUS
      <4>1. u <= t /\ t \in Nat
        BY <1>1, <2>5
      <4> QED BY <3>1, <4>1
    <3>3. \A t \in C : t \in S /\ t < u
      BY <1>1, <3>1 DEF Below
    <3> HIDE DEF C
    <3> QED BY <3>2, <3>3 DEF Below
  <2>7. m + 1 \in 0 .. n - 1 /\ u \in S
    BY <1>1, <1>4, <2>5
  <2> HIDE DEF C
  <2> QED BY <2>3, <2>6, <2>7
<1>5. 0 .. n - 1 \subseteq P
  <2> HIDE DEF P
  <2> QED BY <1>2, <1>3, <1>4, UptoSets
<1>6. k - 1 \in 0 .. n - 1
  BY <1>1
<1>7. PICK s \in S : Cardinality(Below(s)) = k - 1
  BY <1>5, <1>6
<1> DEFINE x == Ascending(S)[k]
<1>8. x = CHOOSE t \in S : Cardinality(Below(t)) = k - 1
  BY DEF Ascending
<1> HIDE DEF x, Below
<1>9. x \in S /\ Cardinality(Below(x)) = k - 1
  BY <1>7, <1>8
<1> QED BY <1>9 DEF x, Below

\* The marks are set in sectors of the set.
LEMMA MarksAway ==
  ASSUME NEW S, S \subseteq Sectors, NEW T, S \cap T = {}
  PROVE  MarkActs(S) \in Seq(Away(T))
<1> DEFINE n == Cardinality(S)
           R == Away(T)
           f == MarkActs(S)
<1>1. n \in Nat
  BY SetOfSectors
<1>2. f = [k \in 1 .. n |-> [op |-> "mark", sect |-> Ascending(S)[k], what |-> <<"void">>]]
  BY DEF MarkActs
<1>3. ASSUME NEW k \in 1 .. n
      PROVE  [op |-> "mark", sect |-> Ascending(S)[k], what |-> <<"void">>] \in R
  <2> DEFINE x == Ascending(S)[k]
  <2>1. x \in S /\ x \in Sectors /\ x \notin T
    BY AscendingIn
  <2> HIDE DEF x
  <2>2. [op |-> "mark", sect |-> x, what |-> <<"void">>] \in R
    BY <2>1 DEF Written, Whats, Away
  <2> QED BY <2>2 DEF x
<1> HIDE DEF n, R, f
<1>4. f \in [1 .. n -> R]
  BY <1>2, <1>3
<1>5. f \in Seq(R)
  BY <1>1, <1>4
<1> QED BY <1>5 DEF f, R

\* Sequences over a set.
LEMMA SeqsOver ==
  ASSUME NEW R, NEW as \in Seq(R)
  PROVE  /\ \A a \in R : Append(as, a) \in Seq(R)
         /\ \A bs \in Seq(R) : as \o bs \in Seq(R)
         /\ as # <<>> => Head(as) \in R /\ Tail(as) \in Seq(R)
         /\ \A T : R \subseteq T => as \in Seq(T)
         /\ <<>> \in Seq(R)
<1>1. \A a \in R : Append(as, a) \in Seq(R)
  BY AppendProperties, Zenon
<1>2. \A bs \in Seq(R) : as \o bs \in Seq(R)
  BY ConcatProperties, Zenon
<1>3. as # <<>> => Head(as) \in R /\ Tail(as) \in Seq(R)
  BY HeadTailProperties, Zenon
<1>4. ASSUME NEW T, R \subseteq T PROVE as \in Seq(T)
  BY <1>4, SeqMonotonic, Zenon
<1>5. <<>> \in Seq(R)
  OBVIOUS
<1> QED BY <1>1, <1>2, <1>3, <1>4, <1>5

LEMMA AwayMore ==
  ASSUME NEW S, NEW T, T \subseteq S, NEW as \in Seq(Away(S))
  PROVE  as \in Seq(Away(T))
<1>1. Away(S) \subseteq Away(T)
  BY DEF Away
<1> HIDE DEF Away
<1> QED BY <1>1, SeqsOver

LEMMA AwayAppend ==
  ASSUME NEW S, NEW T, T \subseteq S, NEW as \in Seq(Away(S)), NEW a \in Written, a.sect \notin T
  PROVE  Append(as, a) \in Seq(Away(T))
<1>1. as \in Seq(Away(T))
  BY AwayMore
<1>2. a \in Away(T)
  BY DEF Away
<1> HIDE DEF Away
<1> QED BY <1>1, <1>2, SeqsOver

-----------------------------------------------------------------------------
(* Each action leaves what may be written to yet blank.                    *)

LEMMA BlankBeginTfs ==
  ASSUME ListHeld, BlankHeld, Untorn, Untorn', BeginTfs
  PROVE  BlankHeld'
<1>1. /\ pc = "idle" /\ pc' = "file" /\ csc' = FALSE /\ disk' = disk /\ cell' = cell /\ acts' = acts
      /\ gen' = gen + 1 /\ erasing' = {}
      /\ \A s \in Sectors : marks'[s] # 240
  BY DEF BeginTfs, phoneVars, Taken, Untorn
<1>2. acts' = <<>> /\ gen' \in Nat
  BY <1>1 DEF BlankHeld
<1>3. Spare(hdr', chain') \subseteq Sectors
  BY DEF Spare, FreeSectors, Rest
<1>4. acts' \in Seq(Away(Spare(hdr', chain')))
  BY <1>2
<1> QED BY <1>1, <1>2, <1>3, <1>4 DEF BlankHeld

LEMMA BlankBeginCsc ==
  ASSUME ListHeld, BlankHeld, Untorn', BeginCsc
  PROVE  BlankHeld'
<1> DEFINE g == Parsed(disk)
           c == disk.chain
<1>1. /\ pc = "idle" /\ pc' = "file" /\ disk' = disk /\ disk # None /\ cell' = cell /\ acts' = acts
      /\ gen' = gen + 1 /\ erasing' = {} /\ hdr' = g /\ chain' = <<>> /\ InOrder(disk)
      /\ marks' = [s \in Sectors |-> ChipMark(s)]
  BY DEF BeginCsc, phoneVars, Wreck, Taken, Untorn
<1>2. acts' = <<>> /\ gen' \in Nat /\ (\A s \in Spare(g, c) : cell[s] = {})
  BY <1>1 DEF BlankHeld
<1>3. Spare(hdr', chain') = Spare(g, c)
  <2>1. DiskSound /\ disk.fctrl = g.fctrl
    BY <1>1 DEF ListHeld, DiskSound
  <2>2. CtrlBlock(<<>>, disk.fctrl) = CtrlBlock(c, disk.fctrl)
    BY <1>1, <2>1, SameBlock
  <2> HIDE DEF g, c
  <2> QED BY <1>1, <2>1, <2>2 DEF Spare
<1> HIDE DEF g, c
<1>4. \A s \in Spare(hdr', chain') : marks'[s] # 240
  <2> SUFFICES ASSUME NEW s \in Spare(g, c) PROVE marks'[s] # 240
    BY <1>3
  <2>1. s \in Sectors
    BY DEF Spare, FreeSectors, Rest
  <2>2. marks'[s] = ChipMark(s) /\ cell[s] = {}
    BY <1>1, <1>2, <2>1
  <2> QED BY <2>2 DEF ChipMark
<1>5. acts' \in Seq(Away(Spare(hdr', chain')))
  BY <1>2
<1> QED BY <1>1, <1>2, <1>3, <1>4, <1>5 DEF BlankHeld, g, c

\* A step of the patch by which no more sectors can be written to.
LEMMA BlankPatch ==
  ASSUME BlankHeld, pc \in {"file", "place", "pop"}, pc' \in {"file", "place", "pop"},
         disk' = disk, cell' = cell, csc' = csc, gen' = gen, erasing' = erasing,
         Spare(hdr', chain') \subseteq Spare(hdr, chain),
         acts' \in Seq(Away(Spare(hdr', chain'))),
         pc' = "file" => pc = "file" /\ marks' = marks
  PROVE  BlankHeld'
<1>1. Working /\ gen \in Nat /\ erasing = {}
  BY DEF BlankHeld, Working
<1>2. pc' = "file" => \A s \in Spare(hdr', chain') : marks'[s] # 240
  BY DEF BlankHeld
<1>3. csc' => disk' # None /\ Spare(hdr', chain') \subseteq Spare(Parsed(disk'), disk'.chain)
  BY DEF BlankHeld
<1>4. disk' # None => \A s \in Spare(Parsed(disk'), disk'.chain) : cell'[s] = {}
  BY DEF BlankHeld
<1> QED BY <1>1, <1>2, <1>3, <1>4 DEF BlankHeld

LEMMA BlankStore ==
  ASSUME ListHeld, BlankHeld, Untorn', Store
  PROVE  BlankHeld'
<1> DEFINE s == hdr.free
           a == [op |-> "write", sect |-> s, what |-> <<Head(todo).file, gen, at.i>>]
<1>1. /\ pc = "file" /\ pc' = "file" /\ marks' = marks /\ erasing' = erasing
      /\ acts' = Append(acts, a) /\ chain' = chain
      /\ csc' = csc /\ disk' = disk /\ cell' = cell /\ gen' = gen /\ todo # <<>>
  <2>1. hdr.free # Nil
    BY DEF Store, Taken, Untorn
  <2> QED BY <2>1 DEF Store, phoneVars, InFile
<1>2. AtFile /\ acts \in Seq(Away(Spare(hdr, chain))) /\ gen \in Nat
  BY <1>1 DEF ListHeld, BlankHeld, Working
<1>3. s \in Sectors /\ Spare(hdr', chain') = Spare(hdr, chain) \ {s}
  <2>1. Plainly'
    BY DEF Plainly, Untorn
  <2> QED BY <2>1, ListStore
<1>4. a \in Written /\ a.sect = s
  <2>1. Head(todo).file \in Files
    <3> DEFINE R == [file : Files, len : Nat]
    <3>1. todo \in Seq(R)
      BY <1>2 DEF AtFile
    <3> HIDE DEF R
    <3>2. Head(todo) \in R
      BY <1>1, <3>1, SeqsOver
    <3> QED BY <3>2 DEF R
  <2>2. at.i \in Nat
    BY <1>2 DEF AtFile
  <2> HIDE DEF s
  <2> QED BY <1>2, <1>3, <2>1, <2>2 DEF Written, Whats
<1> HIDE DEF a, s
<1>5. acts' \in Seq(Away(Spare(hdr', chain')))
  <2> DEFINE S == Spare(hdr, chain)
             T == Spare(hdr', chain')
  <2>1. T \subseteq S /\ s \notin T /\ acts \in Seq(Away(S))
    BY <1>2, <1>3
  <2> HIDE DEF S, T
  <2>2. Append(acts, a) \in Seq(Away(T))
    BY <1>4, <2>1, AwayAppend
  <2> QED BY <1>1, <2>2 DEF T
<1>6. Spare(hdr', chain') \subseteq Spare(hdr, chain)
  BY <1>3
<1> QED BY <1>1, <1>5, <1>6, BlankPatch

LEMMA BlankEndFile ==
  ASSUME ListHeld, BlankHeld, Untorn', EndFile
  PROVE  BlankHeld'
<1>1. /\ pc = "file" /\ pc' = "file" /\ marks' = marks /\ erasing' = erasing /\ acts' = acts
      /\ csc' = csc /\ disk' = disk /\ cell' = cell /\ gen' = gen
  <2>1. ~Wreck("empty") /\ ~Wreck("clean")
    BY DEF Wreck, Taken, Untorn
  <2> QED BY <2>1 DEF EndFile, InFile, phoneVars
<1>2. Spare(hdr', chain') = Spare(hdr, chain)
  <2>1. Plainly'
    BY DEF Plainly, Untorn
  <2> QED BY <2>1, ListEndFile
<1>3. acts' \in Seq(Away(Spare(hdr', chain')))
  BY <1>1, <1>2 DEF BlankHeld, Working
<1> QED BY <1>1, <1>2, <1>3, BlankPatch

LEMMA BlankInvalidate ==
  ASSUME ListHeld, BlankHeld, Untorn', Invalidate
  PROVE  BlankHeld'
<1> DEFINE old == {s \in Sectors : marks[s] = 240}
           S == Spare(hdr, chain)
<1>1. /\ pc = "file" /\ pc' = "place" /\ acts' = acts \o MarkActs(old) /\ erasing' = erasing
      /\ csc' = csc /\ disk' = disk /\ cell' = cell /\ gen' = gen
  <2>1. ~Wreck("full") /\ ~Wreck("stray")
    BY DEF Wreck, Taken, Untorn
  <2> QED BY <2>1 DEF Invalidate, phoneVars
<1>2. Spare(hdr', chain') = S
  <2>1. Plainly'
    BY DEF Plainly, Untorn
  <2> QED BY <2>1, ListInvalidate
<1>3. acts \in Seq(Away(S)) /\ old \cap S = {} /\ old \subseteq Sectors
  BY <1>1 DEF BlankHeld, Working
<1> HIDE DEF old, S
<1>4. MarkActs(old) \in Seq(Away(S))
  BY <1>3, MarksAway
<1>5. acts' \in Seq(Away(S))
  <2> HIDE DEF Away
  <2> QED BY <1>1, <1>3, <1>4, SeqsOver
<1>6. Spare(hdr', chain') \subseteq Spare(hdr, chain) /\ acts' \in Seq(Away(Spare(hdr', chain')))
  BY <1>2, <1>5 DEF S
<1> QED BY <1>1, <1>6, BlankPatch

\* A step that places a control sector, or takes one out of the list.
LEMMA BlankQuiet ==
  ASSUME BlankHeld, pc \in {"place", "pop"}, pc' \in {"place", "pop"}, disk' = disk, cell' = cell,
         csc' = csc, gen' = gen, erasing' = erasing, acts' = acts,
         Spare(hdr', chain') \subseteq Spare(hdr, chain)
  PROVE  BlankHeld'
<1> DEFINE S == Spare(hdr, chain)
           T == Spare(hdr', chain')
<1>1. acts \in Seq(Away(S)) /\ T \subseteq S
  BY DEF BlankHeld, Working
<1> HIDE DEF S, T
<1>2. acts \in Seq(Away(T))
  BY <1>1, AwayMore
<1>3. acts' \in Seq(Away(Spare(hdr', chain')))
  BY <1>2 DEF T
<1> QED BY <1>3, BlankPatch

LEMMA BlankPlace ==
  ASSUME ListHeld, BlankHeld, Untorn', Place
  PROVE  BlankHeld'
<1>1. /\ pc = "place" /\ pc' = "place" /\ acts' = acts /\ erasing' = erasing
      /\ csc' = csc /\ disk' = disk /\ cell' = cell /\ gen' = gen
  <2>1. ~Wreck("stray") /\ "clean" \notin hit'
    BY DEF Wreck, Taken, Untorn
  <2>2. ~(Crossing /\ FreeBlocks(hdr) = {})
    BY <2>1 DEF Place
  <2> QED BY <2>1, <2>2 DEF Place, phoneVars
<1>2. Spare(hdr', chain') \subseteq Spare(hdr, chain)
  <2>1. Plainly'
    BY DEF Plainly, Untorn
  <2> QED BY <2>1, ListPlace
<1> QED BY <1>1, <1>2, BlankQuiet

LEMMA BlankPlaced ==
  ASSUME BlankHeld, Untorn', Placed
  PROVE  BlankHeld'
<1>1. /\ pc = "place" /\ pc' = "pop" /\ acts' = acts /\ erasing' = erasing /\ hdr' = hdr
      /\ chain' = chain /\ csc' = csc /\ disk' = disk /\ cell' = cell /\ gen' = gen
  <2>1. ~Wreck("stray")
    BY DEF Wreck, Taken, Untorn
  <2> QED BY <2>1 DEF Placed, phoneVars
<1>2. Spare(hdr', chain') \subseteq Spare(hdr, chain)
  BY <1>1
<1> QED BY <1>1, <1>2, BlankQuiet

LEMMA BlankPop ==
  ASSUME ListHeld, BlankHeld, Untorn', Pop
  PROVE  BlankHeld'
<1>1. /\ pc = "pop" /\ pc' = "pop" /\ acts' = acts /\ erasing' = erasing
      /\ csc' = csc /\ disk' = disk /\ cell' = cell /\ gen' = gen
  BY DEF Pop, phoneVars
<1>2. Spare(hdr', chain') \subseteq Spare(hdr, chain)
  <2>1. Plainly'
    BY DEF Plainly, Untorn
  <2> QED BY <2>1, ListPop
<1> QED BY <1>1, <1>2, BlankQuiet

LEMMA BlankSeal ==
  ASSUME ListHeld, BlankHeld, Untorn', Seal
  PROVE  BlankHeld'
<1> DEFINE W == [i \in DOMAIN chain |->
                   [op |-> IF chain[i] \in erasing THEN "erase" ELSE "write",
                    sect |-> chain[i], what |-> <<"ctrl", gen, i>>]]
           S == Spare(hdr, chain)
<1>1. /\ pc = "pop" /\ pc' = "flash" /\ acts' = acts \o W /\ erasing' = erasing /\ gen' = gen
      /\ (csc /\ cell' = cell) \/ (~csc /\ cell' = [s \in Sectors |-> {}])
  <2>1. ~Wreck("full") /\ ~Wreck("stray")
    BY DEF Wreck, Taken, Untorn
  <2> QED BY <2>1 DEF Seal
<1>2. S \subseteq Sectors
  BY DEF Spare, FreeSectors, Rest
<1>3. /\ Sound(hdr, chain, files) /\ chain # <<>> /\ acts \in Seq(Away(S)) /\ erasing = {} /\ gen \in Nat
      /\ csc => disk # None /\ S \subseteq Spare(Parsed(disk), disk.chain)
      /\ disk # None => \A s \in Spare(Parsed(disk), disk.chain) : cell[s] = {}
  BY <1>1 DEF ListHeld, BlankHeld, Working
<1>4. Spare(hdr', chain') = S
  <2>1. Plainly'
    BY DEF Plainly, Untorn
  <2> QED BY <2>1, ListSeal
<1>5. ASSUME NEW i \in DOMAIN chain
      PROVE  chain[i] \in Sectors /\ chain[i] \notin S
  <2> DEFINE x == chain[i]
  <2>1. x \in Sectors /\ x \in ToSet(chain)
    BY <1>3 DEF Sound, Chained, ToSet
  <2>2. x \notin FreeSectors(hdr)
    BY <1>3, <2>1 DEF Sound
  <2>3. x \notin Rest(hdr.fctrl, CtrlBlock(chain, hdr.fctrl))
    <3> SUFFICES ASSUME x >= hdr.fctrl, BlockOf(x) = BlockOf(LastIn(chain)) PROVE FALSE
      BY <1>3 DEF Rest, CtrlBlock
    <3>1. x < hdr.fctrl
      BY <1>3 DEF Sound, Chained
    <3>2. x \in Nat /\ hdr.fctrl \in Nat
      <4>1. hdr \in Header
        BY <1>3 DEF Sound
      <4>2. hdr.fctrl \in 0 .. NumSects /\ NumSects \in Nat
        BY <4>1, HeaderIs, SectsIs
      <4>3. x \in Sectors /\ Sectors \subseteq Nat
        BY <2>1, SectsIs
      <4> DEFINE y == hdr.fctrl
      <4>4. y \in 0 .. NumSects
        BY <4>2
      <4> HIDE DEF x, y
      <4>5. x \in Nat /\ y \in Nat
        BY <4>2, <4>3, <4>4
      <4> QED BY <4>5 DEF x, y
    <3> HIDE DEF x
    <3> QED BY <3>1, <3>2
  <2> QED BY <2>1, <2>2, <2>3 DEF Spare
<1> HIDE DEF S
<1>6. W \in Seq(Away(S))
  <2> DEFINE n == Len(chain)
             a(i) == [op |-> IF chain[i] \in erasing THEN "erase" ELSE "write",
                      sect |-> chain[i], what |-> <<"ctrl", gen, i>>]
  <2>1. chain \in Seq(Sectors)
    BY <1>3 DEF Sound, Chained
  <2>2. n \in Nat /\ DOMAIN chain = 1 .. n
    BY <2>1
  <2>3. ASSUME NEW i \in 1 .. n
        PROVE  a(i) \in Away(S)
    <3> DEFINE x == chain[i]
    <3>1. x \in Sectors /\ x \notin S
      BY <1>5, <2>2
    <3>2. a(i) = [op |-> "write", sect |-> x, what |-> <<"ctrl", gen, i>>] /\ i \in Nat
      BY <1>3, <2>2
    <3> HIDE DEF x
    <3>3. [op |-> "write", sect |-> x, what |-> <<"ctrl", gen, i>>] \in Away(S)
      BY <1>3, <3>1, <3>2 DEF Away, Written, Whats
    <3> HIDE DEF a
    <3> QED BY <3>2, <3>3
  <2>4. W = [i \in 1 .. n |-> a(i)]
    BY <2>2
  <2> HIDE DEF W, a, n, Away
  <2>5. W \in [1 .. n -> Away(S)]
    BY <2>3, <2>4
  <2> QED BY <2>2, <2>5
<1> HIDE DEF W
<1>7. acts' \in Seq(Away(S))
  <2> HIDE DEF Away
  <2> QED BY <1>1, <1>3, <1>6, SeqsOver
<1>8. \A s \in S : cell'[s] = {}
  BY <1>1, <1>2, <1>3
<1>9. erasing' = {} /\ gen' \in Nat
  BY <1>1, <1>3
<1> QED BY <1>1, <1>4, <1>7, <1>8, <1>9 DEF BlankHeld, Working

\* An action of flash_tfs writes in its own sector only, and erases nothing.
LEMMA BlankAct ==
  ASSUME BlankHeld, Act
  PROVE  BlankHeld'
<1> DEFINE S == Spare(hdr, chain)
           a == Head(acts)
           b == BlockOf(a.sect)
           blank == a.op = "erase" /\ b \notin locked
<1>1. /\ pc = "flash" /\ pc' = "flash" /\ acts # <<>> /\ acts' = Tail(acts)
      /\ cell' = [s \in Sectors |-> (IF blank /\ s \in SectorsOf(b) THEN {} ELSE cell[s])
                                     \cup (IF s = a.sect THEN {a.what} ELSE {})]
      /\ erasing' = erasing /\ gen' = gen /\ hdr' = hdr /\ chain' = chain /\ csc' = csc /\ disk' = disk
  BY DEF Act, patchVars
<1>2. /\ acts \in Seq(Away(S)) /\ erasing = {} /\ gen \in Nat /\ \A s \in S : cell[s] = {}
  BY <1>1 DEF BlankHeld, Working
<1>3. S \subseteq Sectors
  BY DEF Spare, FreeSectors, Rest
<1>4. a \in Away(S) /\ Tail(acts) \in Seq(Away(S))
  <2> HIDE DEF S, Away, a
  <2>1. Head(acts) \in Away(S) /\ Tail(acts) \in Seq(Away(S))
    BY <1>1, <1>2, SeqsOver
  <2> QED BY <2>1 DEF a
<1> HIDE DEF S, a, b
<1>5. a.sect \notin S /\ ~blank
  BY <1>4 DEF Away, Written
<1>6. \A s \in S : cell'[s] = {}
  BY <1>1, <1>2, <1>3, <1>5
<1> QED BY <1>1, <1>2, <1>4, <1>6 DEF BlankHeld, Working, S

LEMMA BlankFlashed ==
  ASSUME ListHeld, BlankHeld, Untorn', Flashed, ReadBack'
  PROVE  BlankHeld'
<1> DEFINE d == disk'
           h == Parsed(d)
<1>1. /\ pc = "flash" /\ pc' = "idle" /\ d.gen = gen /\ d.fctrl = hdr.fctrl
      /\ d.chain = chain /\ hdr' = hdr /\ gen' = gen /\ cell' = cell /\ acts' = acts /\ acts = <<>>
  BY DEF Flashed, patchVars
<1>2. gen \in Nat /\ \A s \in Spare(hdr, chain) : cell[s] = {}
  BY <1>1 DEF BlankHeld
<1>3. ASSUME d # None
      PROVE  Spare(h, d.chain) = Spare(hdr, chain)
  <2>1. FreeSectors(h) = FreeSectors(hdr)
    BY <1>1, <1>3 DEF ReadBack, Untorn
  <2>2. h.fctrl = d.fctrl
    BY DEF Parsed
  <2> HIDE DEF h, d
  <2> QED BY <1>1, <2>1, <2>2 DEF Spare
<1>4. d # None => \A s \in Spare(h, d.chain) : cell'[s] = {}
  <2> HIDE DEF h, d
  <2> QED BY <1>1, <1>2, <1>3
<1> QED BY <1>1, <1>2, <1>4 DEF BlankHeld, Working

LEMMA BlankAbandon ==
  ASSUME BlankHeld, pc \in {"file", "place", "pop"}, Abandon
  PROVE  BlankHeld'
<1>1. pc' = "idle" /\ acts' = <<>> /\ disk' = disk /\ cell' = cell /\ gen' = gen
  BY DEF Abandon, phoneVars
<1> QED BY <1>1 DEF BlankHeld, Working

LEMMA BlankInit ==
  ASSUME Init
  PROVE  BlankInv
  BY DEF Init, BlankInv, BlankHeld, Working

LEMMA BlankNext ==
  ASSUME ListInv, BlankInv, ReadBack', [Next]_vars
  PROVE  BlankInv'
<1> SUFFICES ASSUME Untorn' PROVE BlankHeld'
  BY DEF BlankInv
<1>1. ASSUME Untorn PROVE ListHeld /\ BlankHeld
  BY <1>1 DEF ListInv, BlankInv, Plainly, Untorn
<1>2. CASE BeginTfs
  <2>1. Untorn
    BY <1>2 DEF BeginTfs, Taken, Untorn
  <2> QED BY <1>1, <1>2, <2>1, BlankBeginTfs
<1>3. CASE BeginCsc
  <2>1. Untorn
    BY <1>3 DEF BeginCsc, Wreck, Taken, Untorn
  <2> QED BY <1>1, <1>3, <2>1, BlankBeginCsc
<1>4. CASE Store
  <2>1. Untorn
    BY <1>4 DEF Store, Taken, Untorn
  <2> QED BY <1>1, <1>4, <2>1, BlankStore
<1>5. CASE EndFile
  <2>1. Untorn
    BY <1>5 DEF EndFile, Wreck, Taken, Untorn
  <2> QED BY <1>1, <1>5, <2>1, BlankEndFile
<1>6. CASE Invalidate
  <2>1. Untorn
    BY <1>6 DEF Invalidate, Wreck, Taken, Untorn
  <2> QED BY <1>1, <1>6, <2>1, BlankInvalidate
<1>7. CASE Place
  <2>1. Untorn
    BY <1>7 DEF Place, Wreck, Taken, Untorn
  <2> QED BY <1>1, <1>7, <2>1, BlankPlace
<1>8. CASE Placed
  <2>1. Untorn
    BY <1>8 DEF Placed, Wreck, Taken, Untorn
  <2> QED BY <1>1, <1>8, <2>1, BlankPlaced
<1>9. CASE Pop
  <2>1. Untorn
    BY <1>9 DEF Pop, Taken, Untorn
  <2> QED BY <1>1, <1>9, <2>1, BlankPop
<1>10. CASE Seal
  <2>1. Untorn
    BY <1>10 DEF Seal, Wreck, Taken, Untorn
  <2> QED BY <1>1, <1>10, <2>1, BlankSeal
<1>11. CASE NoSpace \/ Fragmented \/ NothingToPop
  <2>1. Abandon /\ pc \in {"file", "place", "pop"}
    BY <1>11 DEF NoSpace, Fragmented, NothingToPop, InFile
  <2>2. Untorn
    BY <2>1 DEF Abandon, Untorn
  <2> QED BY <1>1, <2>1, <2>2, BlankAbandon
<1>12. CASE Act
  <2>1. Untorn
    BY <1>12 DEF Act, Untorn
  <2> QED BY <1>1, <1>12, <2>1, BlankAct
<1>13. CASE Flashed
  <2>1. Untorn
    BY <1>13 DEF Flashed, Untorn
  <2> QED BY <1>1, <1>13, <2>1, BlankFlashed
<1>14. CASE PowerCut
  <2>1. ~Taken("torn")
    BY DEF Taken, Untorn
  <2>2. /\ pc' = "idle" /\ acts' = <<>> /\ disk' = None /\ gen' = gen /\ pc = "flash"
        /\ hit \subseteq hit'
    BY <1>14, <2>1 DEF PowerCut, Taken, patchVars
  <2>3. BlankHeld
    BY <1>1, <2>2 DEF Untorn
  <2> QED BY <2>2, <2>3 DEF BlankHeld, Working
<1>15. CASE UNCHANGED vars
  <2>1. /\ pc' = pc /\ hdr' = hdr /\ chain' = chain /\ acts' = acts /\ disk' = disk /\ hit' = hit
        /\ cell' = cell /\ gen' = gen /\ csc' = csc /\ marks' = marks /\ erasing' = erasing
    BY <1>15 DEF vars, patchVars, phoneVars
  <2>2. BlankHeld
    BY <1>1, <2>1 DEF Untorn
  <2>3. Spare(hdr', chain') = Spare(hdr, chain) /\ Working' = Working
        /\ (disk' # None => Spare(Parsed(disk'), disk'.chain) = Spare(Parsed(disk), disk.chain))
    BY <2>1 DEF Working
  <2> QED BY <2>1, <2>2, <2>3 DEF BlankHeld
<1> QED BY <1>2, <1>3, <1>4, <1>5, <1>6, <1>7, <1>8, <1>9, <1>10, <1>11, <1>12, <1>13, <1>14, <1>15
        DEF Next, Patch

LEMMA BlankThen ==
  ASSUME ListInv, BlankInv
  PROVE  FreeIsBlank
<1> DEFINE h == Parsed(disk)
           c == disk.chain
<1> SUFFICES ASSUME pc = "idle", disk # None, Untorn
             PROVE  /\ \A s \in FreeSectors(h) : cell[s] = {}
                    /\ \A s \in Sectors : s >= disk.fctrl /\ BlockOf(s) = BlockOf(LastIn(c))
                                          => cell[s] = {}
  BY DEF FreeIsBlank, Untorn, LastIn
<1>1. c # <<>> /\ disk.fctrl = h.fctrl
  BY DEF ListInv, Plainly, Untorn, ListHeld, DiskSound
<1>2. \A s \in Spare(h, c) : cell[s] = {}
  BY DEF BlankInv, BlankHeld
<1> HIDE DEF h, c
<1> QED BY <1>1, <1>2 DEF Spare, Rest, CtrlBlock

-----------------------------------------------------------------------------
(* How a control header names an entry.                                    *)

Places == {i \in Nat : i < PerPage * (Half - 1)}     \* pages are counted in 16 bits

\* The two halves of a place's word are its page, from 1, and its place there.
LEMMA WordOfPlace ==
  ASSUME NEW i \in Places
  PROVE  /\ convert_from_ptr(i) \in Nat
         /\ convert_from_ptr(i) % Half = i \div PerPage + 1
         /\ convert_from_ptr(i) \div Half = i % PerPage
<1>1. i \in Nat /\ i < PerPage * (Half - 1)
  BY DEF Places
<1>2. /\ i \div PerPage \in Nat /\ i \div PerPage < Half - 1
      /\ i % PerPage \in Nat /\ i % PerPage < PerPage
  BY <1>1 DEF PerPage, Half
<1>3. convert_from_ptr(i) = (i % PerPage) * Half + (i \div PerPage) + 1
  BY <1>1, PointerAssumption DEF convert_from_ptr
<1> DEFINE page == i \div PerPage + 1
           slot == i % PerPage
<1>4. page \in Nat /\ page < Half /\ slot \in Nat
  BY <1>2 DEF Half
<1> HIDE DEF page, slot
<1>5. /\ slot * Half + page \in Nat
      /\ (slot * Half + page) % Half = page
      /\ (slot * Half + page) \div Half = slot
  BY <1>4 DEF Half
<1>6. convert_from_ptr(i) = slot * Half + page
  BY <1>2, <1>3 DEF page, slot, Half
<1> QED
  BY <1>5, <1>6 DEF page, slot

\* convert_to_ptr undoes convert_from_ptr (src/tfs.c): no link between entries
\* is lost or moved by writing a control header and reading it again.
THEOREM PointersKept ==
  \A p \in Places \cup {NoEnt} : convert_to_ptr(convert_from_ptr(p)) = p
<1> SUFFICES ASSUME NEW p \in Places \cup {NoEnt}
             PROVE  convert_to_ptr(convert_from_ptr(p)) = p
  OBVIOUS
<1>1. CASE p = NoEnt
  BY <1>1 DEF convert_from_ptr, convert_to_ptr
<1>2. CASE p \in Places
  <2>1. convert_from_ptr(p) # NoEnt
    BY <1>2, WordOfPlace, PointerAssumption
  <2>2. /\ convert_from_ptr(p) % Half = p \div PerPage + 1
        /\ convert_from_ptr(p) \div Half = p % PerPage
    BY <1>2, WordOfPlace
  <2>3. convert_to_ptr(convert_from_ptr(p))
          = ((p \div PerPage + 1) - 1) * PerPage + (p % PerPage)
    BY <2>1, <2>2 DEF convert_to_ptr
  <2>4. p \in Nat
    BY <1>2 DEF Places
  <2>5. ((p \div PerPage + 1) - 1) * PerPage + (p % PerPage) = p
    BY <2>4 DEF PerPage
  <2> QED
    BY <2>3, <2>5
<1> QED
  BY <1>1, <1>2

\* Two places never share a word.
COROLLARY WordsDiffer ==
  \A p, q \in Places \cup {NoEnt} : convert_from_ptr(p) = convert_from_ptr(q) => p = q
  BY PointersKept
=============================================================================
