------------------------- MODULE FlashDeliveryProofs -------------------------
(***************************************************************************)
(* What the host believes about the flash is right: for every job whose    *)
(* commands come in an order that prepares the blocks they need, for every *)
(* size of flash and every set of faults.                                  *)
(***************************************************************************)
EXTENDS FlashSessionProofs, WellFoundedInduction

-----------------------------------------------------------------------------
(* Replaying commands: facts about the recursive functions of FlashSession.*)

\* A set of naturals with 0 and with the successor of each of its members.
LEMMA NatSets ==
  ASSUME NEW S, S \subseteq Nat, 0 \in S, \A n \in S : n + 1 \in S
  PROVE  Nat \subseteq S
<1> DEFINE T == Nat \ S
<1>1. SUFFICES ASSUME T # {} PROVE FALSE
  OBVIOUS
<1>2. \E x \in T : \A y \in T : ~ (<<y, x>> \in OpToRel(<, Nat))
  <2>1. T \subseteq Nat
    OBVIOUS
  <2> HIDE DEF T
  <2> QED BY <1>1, <2>1, NatLessThanWellFounded, WFMin
<1>3. PICK x \in T : \A y \in T : ~ (<<y, x>> \in OpToRel(<, Nat))
  BY <1>2
<1>4. x \in Nat /\ x - 1 \in Nat /\ x - 1 \notin S
  OBVIOUS
<1>5. x - 1 \in T /\ <<x - 1, x>> \in OpToRel(<, Nat)
  BY <1>4 DEF OpToRel
<1> QED BY <1>3, <1>5

\* The same up to a bound.
LEMMA UptoSets ==
  ASSUME NEW N \in Nat, NEW S, 0 \in S, \A n \in S : n \in 0 .. N - 1 => n + 1 \in S
  PROVE  0 .. N \subseteq S
<1> DEFINE T == {n \in Nat : n \in 0 .. N => n \in S}
<1>1. T \subseteq Nat /\ 0 \in T
  OBVIOUS
<1>2. ASSUME NEW n \in T PROVE n + 1 \in T
  <2>1. n \in Nat /\ (n + 1 \in 0 .. N => n \in 0 .. N - 1 /\ n \in 0 .. N)
    OBVIOUS
  <2>2. n + 1 \in 0 .. N => n + 1 \in S
    BY <2>1
  <2> QED BY <2>1, <2>2
<1>3. Nat \subseteq T
  <2> HIDE DEF T
  <2> QED BY <1>1, <1>2, NatSets
<1> QED BY <1>3

\* f starts from a and goes on by step, N times.
Chain(f, N, V, a, step) == /\ f \in [0 .. N -> V] /\ f[0] = a
                           /\ \A n \in 1 .. N : f[n] = step[n][f[n - 1]]
HasChain(N, V, a, step) == \E f : Chain(f, N, V, a, step)

\* Such a function exists, whatever it starts from and however it goes on.
LEMMA StepsExist ==
  ASSUME NEW N \in Nat, NEW V, NEW a \in V, NEW step \in [1 .. N -> [V -> V]]
  PROVE  HasChain(N, V, a, step)
<1> DEFINE Good(m, f) == /\ f \in [0 .. m -> V] /\ f[0] = a
                         /\ \A n \in 1 .. m : f[n] = step[n][f[n - 1]]
           S == {m \in 0 .. N : \E f : Good(m, f)}
<1>1. 0 \in S
  <2>1. Good(0, [n \in 0 .. 0 |-> a])
    OBVIOUS
  <2>2. 0 \in 0 .. N /\ \E f : Good(0, f)
    <3> HIDE DEF Good
    <3> QED BY <2>1
  <2> HIDE DEF Good
  <2> QED BY <2>2
<1>2. ASSUME NEW m \in S, m \in 0 .. N - 1
      PROVE  m + 1 \in S
  <2>1. PICK f : Good(m, f)
    OBVIOUS
  <2> DEFINE g == [n \in 0 .. m + 1 |-> IF n <= m THEN f[n] ELSE step[m + 1][f[m]]]
  <2>2. f[m] \in V /\ step[m + 1][f[m]] \in V
    BY <2>1, <1>2
  <2>3. g \in [0 .. m + 1 -> V] /\ g[0] = a
    BY <2>1, <2>2, <1>2
  <2>4. ASSUME NEW n \in 1 .. m + 1
        PROVE  g[n] = step[n][g[n - 1]]
    <3>1. n - 1 \in 0 .. m + 1 /\ n \in 0 .. m + 1 /\ n - 1 <= m
      BY <1>2
    <3>2. g[n - 1] = f[n - 1]
      BY <3>1
    <3>3. CASE n <= m
      <4>1. g[n] = f[n] /\ n \in 1 .. m
        BY <3>1, <3>3, <1>2
      <4> QED BY <4>1, <3>2, <2>1
    <3>4. CASE n = m + 1
      <4>1. n - 1 = m /\ ~(n <= m)
        BY <3>4, <1>2
      <4>2. g[n] = step[m + 1][f[m]]
        BY <3>1, <4>1
      <4> QED BY <3>2, <3>4, <4>1, <4>2
    <3> QED BY <3>3, <3>4, <1>2
  <2> HIDE DEF g
  <2>5. m + 1 \in 0 .. N /\ Good(m + 1, g)
    BY <2>3, <2>4, <1>2
  <2> HIDE DEF Good
  <2> QED BY <2>5
<1>3. 0 .. N \subseteq S
  <2> HIDE DEF S
  <2> QED BY <1>1, <1>2, UptoSets
<1>4. \E f : Good(N, f)
  BY <1>3
<1> QED BY <1>4 DEF HasChain, Chain

\* What the host means a command to do makes a memory of a memory.
LEMMA IntendedType ==
  ASSUME NEW mem \in MemVal, NEW c \in Cmd
  PROVE  Intended(mem, c) \in MemVal
<1>1. c.blk \in Blocks /\ c.put \in Puts
  BY DEF Cmd
<1>2. \A s \in DOMAIN c.put : c.put[s] \in PageVal
  BY <1>1 DEF Puts
<1>3. BlankBlock \in [Slots -> PageVal] /\ mem[c.blk] \in [Slots -> PageVal]
  BY <1>1 DEF BlankBlock, Blank, PageVal, Marks, MemVal
<1>4. \A new \in [Slots -> PageVal] : [mem EXCEPT ![c.blk] = new] \in MemVal
  BY <1>1 DEF MemVal
<1>5. \A old \in [Slots -> PageVal] :
        [s \in Slots |-> IF s \in DOMAIN c.put THEN BurnPage(old[s], c.put[s]) ELSE old[s]]
          \in [Slots -> PageVal]
  BY <1>2, BurnPageType
<1>6. [b \in Blocks |-> BlankBlock] \in MemVal
  BY <1>3 DEF MemVal
<1>7. [s \in Slots |-> IF s \in DOMAIN c.put THEN [mem[c.blk][s] EXCEPT !.mark = c.put[s].mark]
                       ELSE mem[c.blk][s]] \in [Slots -> PageVal]
  BY <1>2, <1>3 DEF PageVal
<1> QED BY <1>3, <1>4, <1>5, <1>6, <1>7 DEF Intended

\* f is what mem becomes, command by command.
Replays(f, mem, cmds, N) == /\ f \in [0 .. N -> MemVal] /\ f[0] = mem
                            /\ \A n \in 1 .. N : f[n] = Intended(f[n - 1], cmds[n])
                            /\ Replay(mem, cmds) = f[N]
HasReplay(mem, cmds, N) == \E f : Replays(f, mem, cmds, N)

\* Replay is the last of the memories that the commands lead to one by one.
LEMMA ReplayIs ==
  ASSUME NEW mem \in MemVal, NEW cmds \in Seq(Cmd)
  PROVE  HasReplay(mem, cmds, Len(cmds))
<1> DEFINE N == Len(cmds)
           step == [n \in 1 .. N |-> [x \in MemVal |-> Intended(x, cmds[n])]]
           P(f) == f = [n \in 0 .. N |-> IF n = 0 THEN mem ELSE Intended(f[n - 1], cmds[n])]
           h == CHOOSE f : P(f)
<1>1. N \in Nat /\ \A n \in 1 .. N : cmds[n] \in Cmd
  OBVIOUS
<1>2. step \in [1 .. N -> [MemVal -> MemVal]]
  BY <1>1, IntendedType
<1>3. PICK f : Chain(f, N, MemVal, mem, step)
  <2> HIDE DEF step, N, P, h
  <2>1. HasChain(N, MemVal, mem, step)
    BY <1>1, <1>2, StepsExist
  <2> QED BY <2>1 DEF HasChain
<1>4. /\ f \in [0 .. N -> MemVal] /\ f[0] = mem
      /\ \A n \in 1 .. N : f[n - 1] \in MemVal /\ f[n] = Intended(f[n - 1], cmds[n])
  <2>1. f \in [0 .. N -> MemVal] /\ f[0] = mem
    BY <1>3 DEF Chain
  <2>2. ASSUME NEW n \in 1 .. N
        PROVE  f[n - 1] \in MemVal /\ f[n] = Intended(f[n - 1], cmds[n])
    <3>1. f[n - 1] \in MemVal
      BY <1>1, <2>1
    <3>2. f[n] = step[n][f[n - 1]]
      BY <1>3 DEF Chain
    <3>3. step[n][f[n - 1]] = Intended(f[n - 1], cmds[n])
      BY <3>1
    <3> QED BY <3>1, <3>2, <3>3
  <2> QED BY <2>1, <2>2
<1>5. P(f)
  BY <1>1, <1>3, <1>4
<1>6. P(h)
  <2> HIDE DEF P
  <2> QED BY <1>5
<1>7. h[0] = mem /\ \A n \in 1 .. N : h[n] = Intended(h[n - 1], cmds[n])
  <2> HIDE DEF h
  <2> QED BY <1>1, <1>6
<1>8. \A n \in 0 .. N : h[n] = f[n]
  <2> HIDE DEF h, P, step
  <2> DEFINE S == {n \in 0 .. N : h[n] = f[n]}
  <2>1. 0 \in S
    BY <1>1, <1>4, <1>7
  <2>2. ASSUME NEW m \in S, m \in 0 .. N - 1
        PROVE  m + 1 \in S
    <3>1. m + 1 \in 1 .. N /\ (m + 1) - 1 = m /\ h[m] = f[m]
      BY <1>1, <2>2
    <3>2. h[m + 1] = Intended(h[m], cmds[m + 1]) /\ f[m + 1] = Intended(f[m], cmds[m + 1])
      BY <3>1, <1>4, <1>7
    <3> QED BY <3>1, <3>2, <1>1
  <2>3. 0 .. N \subseteq S
    <3> HIDE DEF S, N
    <3> QED BY <1>1, <2>1, <2>2, UptoSets
  <2> QED BY <2>3
<1>9. Replay(mem, cmds) = h[N]
  BY DEF Replay
<1>10. h[N] = f[N]
  BY <1>1, <1>8
<1>11. Replays(f, mem, cmds, N)
  <2> HIDE DEF h, P, step
  <2> QED BY <1>4, <1>9, <1>10 DEF Replays
<1> HIDE DEF N
<1>12. HasReplay(mem, cmds, N)
  BY <1>11 DEF HasReplay
<1> QED BY <1>12 DEF N

\* No command leaves the memory alone; one more command does one more thing.
LEMMA ReplayStep ==
  ASSUME NEW mem \in MemVal, NEW cmds \in Seq(Cmd)
  PROVE  /\ Replay(mem, SubSeq(cmds, 1, 0)) = mem
         /\ SubSeq(cmds, 1, Len(cmds)) = cmds
         /\ Replay(mem, cmds) \in MemVal
         /\ \A k \in 1 .. Len(cmds) :
              /\ Replay(mem, SubSeq(cmds, 1, k - 1)) \in MemVal
              /\ Replay(mem, SubSeq(cmds, 1, k))
                 = Intended(Replay(mem, SubSeq(cmds, 1, k - 1)), cmds[k])
<1>1. \A k \in 0 .. Len(cmds) : /\ SubSeq(cmds, 1, k) \in Seq(Cmd) /\ Len(SubSeq(cmds, 1, k)) = k
                                /\ \A i \in 1 .. k : SubSeq(cmds, 1, k)[i] = cmds[i]
  OBVIOUS
<1>2. Replay(mem, SubSeq(cmds, 1, 0)) = mem
  <2>1. Len(cmds) \in Nat /\ SubSeq(cmds, 1, 0) \in Seq(Cmd) /\ Len(SubSeq(cmds, 1, 0)) = 0
    BY <1>1, EmptyFacts
  <2> DEFINE none == SubSeq(cmds, 1, 0)
  <2> HIDE DEF none
  <2>2. HasReplay(mem, none, 0)
    BY <2>1, ReplayIs DEF none
  <2>3. PICK f : Replays(f, mem, none, 0)
    BY <2>2 DEF HasReplay
  <2> QED BY <2>3 DEF none, Replays
<1>3. SubSeq(cmds, 1, Len(cmds)) = cmds
  OBVIOUS
<1>4. \A c \in Seq(Cmd) : Replay(mem, c) \in MemVal
  <2> SUFFICES ASSUME NEW c \in Seq(Cmd) PROVE Replay(mem, c) \in MemVal
    OBVIOUS
  <2>1. HasReplay(mem, c, Len(c))
    BY ReplayIs
  <2>2. PICK f : Replays(f, mem, c, Len(c))
    BY <2>1 DEF HasReplay
  <2>3. Len(c) \in Nat
    BY EmptyFacts
  <2> QED BY <2>2, <2>3 DEF Replays
<1>5. ASSUME NEW k \in 1 .. Len(cmds)
      PROVE  Replay(mem, SubSeq(cmds, 1, k)) = Intended(Replay(mem, SubSeq(cmds, 1, k - 1)), cmds[k])
  <2> DEFINE c == SubSeq(cmds, 1, k)
             d == SubSeq(cmds, 1, k - 1)
  <2>1. /\ c \in Seq(Cmd) /\ d \in Seq(Cmd) /\ Len(c) = k /\ Len(d) = k - 1 /\ k \in Nat
        /\ \A n \in 1 .. k - 1 : c[n] = d[n]
        /\ c[k] = cmds[k]
    BY <1>1, EmptyFacts
  <2> HIDE DEF c, d
  <2>2. HasReplay(mem, c, k) /\ HasReplay(mem, d, k - 1)
    <3>1. HasReplay(mem, c, Len(c)) /\ HasReplay(mem, d, Len(d))
      BY <2>1, ReplayIs
    <3> QED BY <3>1, <2>1
  <2>3. PICK f1 : Replays(f1, mem, c, k)
    BY <2>2 DEF HasReplay
  <2>4. PICK g1 : Replays(g1, mem, d, k - 1)
    BY <2>2 DEF HasReplay
  <2>5. PICK f : /\ f \in [0 .. k -> MemVal] /\ f[0] = mem
                 /\ \A n \in 1 .. k : f[n] = Intended(f[n - 1], c[n])
                 /\ Replay(mem, c) = f[k]
    BY <2>3 DEF Replays
  <2>6. PICK g : /\ g \in [0 .. k - 1 -> MemVal] /\ g[0] = mem
                 /\ \A n \in 1 .. k - 1 : g[n] = Intended(g[n - 1], d[n])
                 /\ Replay(mem, d) = g[k - 1]
    BY <2>4 DEF Replays
  <2> DEFINE S == {n \in 0 .. k - 1 : f[n] = g[n]}
  <2>7. 0 \in S
    BY <2>5, <2>6
  <2>8. ASSUME NEW m \in S, m \in 0 .. (k - 1) - 1
        PROVE  m + 1 \in S
    <3>1. m + 1 \in 1 .. k - 1 /\ m + 1 \in 1 .. k /\ (m + 1) - 1 = m /\ f[m] = g[m]
      BY <2>8
    <3>2. f[m + 1] = Intended(f[m], c[m + 1]) /\ g[m + 1] = Intended(g[m], d[m + 1])
      BY <3>1, <2>5, <2>6
    <3> QED BY <3>1, <3>2, <2>1
  <2>9. 0 .. k - 1 \subseteq S
    <3> HIDE DEF S
    <3>1. k - 1 \in Nat
      OBVIOUS
    <3> QED BY <3>1, <2>7, <2>8, UptoSets
  <2>10. f[k - 1] = g[k - 1]
    BY <2>9
  <2>11. Replay(mem, c) = Intended(Replay(mem, d), cmds[k])
    BY <2>1, <2>5, <2>6, <2>10
  <2> QED BY <2>11 DEF c, d
<1>6. \A k \in 1 .. Len(cmds) : SubSeq(cmds, 1, k - 1) \in Seq(Cmd)
  OBVIOUS
<1> QED BY <1>2, <1>3, <1>4, <1>5, <1>6

\* The stages of a job follow one another.
LEMMA StagesStep ==
  ASSUME NEW j \in Seq(Stage), NEW mem \in MemVal
  PROVE  /\ AfterStages(j, mem, 0) = mem
         /\ \A n \in 1 .. Len(j) :
              AfterStages(j, mem, n) = Replay(AfterStages(j, mem, n - 1), j[n].cmds)
         /\ \A n \in 0 .. Len(j) : AfterStages(j, mem, n) \in MemVal
<1> DEFINE N == Len(j)
           step == [n \in 1 .. N |-> [x \in MemVal |-> Replay(x, j[n].cmds)]]
           P(f) == f = [i \in 0 .. N |-> IF i = 0 THEN mem ELSE Replay(f[i - 1], j[i].cmds)]
           h == CHOOSE f : P(f)
<1>1. N \in Nat /\ \A n \in 1 .. N : j[n].cmds \in Seq(Cmd)
  <2>1. N \in Nat /\ \A n \in 1 .. N : j[n] \in Stage
    OBVIOUS
  <2> QED BY <2>1 DEF Stage
<1>2. step \in [1 .. N -> [MemVal -> MemVal]]
  BY <1>1, ReplayStep
<1>3. PICK f : Chain(f, N, MemVal, mem, step)
  <2> HIDE DEF step, N, P, h
  <2>1. HasChain(N, MemVal, mem, step)
    BY <1>1, <1>2, StepsExist
  <2> QED BY <2>1 DEF HasChain
<1>4. /\ f \in [0 .. N -> MemVal] /\ f[0] = mem
      /\ \A n \in 1 .. N : f[n - 1] \in MemVal /\ f[n] = Replay(f[n - 1], j[n].cmds)
  <2>1. f \in [0 .. N -> MemVal] /\ f[0] = mem
    BY <1>3 DEF Chain
  <2>2. ASSUME NEW n \in 1 .. N
        PROVE  f[n - 1] \in MemVal /\ f[n] = Replay(f[n - 1], j[n].cmds)
    <3>1. f[n - 1] \in MemVal
      BY <1>1, <2>1
    <3>2. f[n] = step[n][f[n - 1]]
      BY <1>3 DEF Chain
    <3>3. step[n][f[n - 1]] = Replay(f[n - 1], j[n].cmds)
      BY <3>1
    <3> QED BY <3>1, <3>2, <3>3
  <2> QED BY <2>1, <2>2
<1>5. P(f)
  BY <1>1, <1>4
<1>6. P(h)
  <2> HIDE DEF P
  <2> QED BY <1>5
<1>7. h[0] = mem /\ \A n \in 1 .. N : h[n] = Replay(h[n - 1], j[n].cmds)
  <2> HIDE DEF h
  <2> QED BY <1>1, <1>6
<1>8. \A n \in 0 .. N : h[n] = f[n]
  <2> HIDE DEF h, P, step
  <2> DEFINE S == {n \in 0 .. N : h[n] = f[n]}
  <2>1. 0 \in S
    BY <1>1, <1>4, <1>7
  <2>2. ASSUME NEW m \in S, m \in 0 .. N - 1
        PROVE  m + 1 \in S
    <3>1. m + 1 \in 1 .. N /\ (m + 1) - 1 = m /\ h[m] = f[m]
      BY <1>1, <2>2
    <3>2. h[m + 1] = Replay(h[m], j[m + 1].cmds) /\ f[m + 1] = Replay(f[m], j[m + 1].cmds)
      BY <3>1, <1>4, <1>7
    <3> QED BY <3>1, <3>2, <1>1
  <2>3. 0 .. N \subseteq S
    <3> HIDE DEF S, N
    <3> QED BY <1>1, <2>1, <2>2, UptoSets
  <2> QED BY <2>3
<1>9. \A n : AfterStages(j, mem, n) = h[n]
  BY DEF AfterStages
<1> HIDE DEF h, P, step
<1>10. AfterStages(j, mem, 0) = mem
  BY <1>7, <1>9
<1>11. \A n \in 1 .. N : AfterStages(j, mem, n) = Replay(AfterStages(j, mem, n - 1), j[n].cmds)
  BY <1>7, <1>9
<1>12. \A n \in 0 .. N : AfterStages(j, mem, n) \in MemVal
  BY <1>4, <1>8, <1>9
<1> QED BY <1>10, <1>11, <1>12

-----------------------------------------------------------------------------
(* One command: on a flash that is ready for it, it does what is meant.    *)

\* What flash f has to be like for the device to do with c what is meant.
Ready(f, c) ==
  /\ c.op \in {"BLK_ERASE", "BLK_PROGRAM"} \/ (c.op = "SECT_WRITE" /\ c.erase) => ~f.prot[c.blk]
  /\ c.op = "CHIP_ERASE" => \A b \in Blocks : ~f.prot[b]
  /\ c.op = "MARK_SECT" => \A s \in DOMAIN c.put : c.put[s] = [data |-> Erased, mark |-> 0]

\* Programming clears bits, and says so of data and mark each for itself.
LEMMA AndFacts ==
  ASSUME NEW d, NEW m \in Marks
  PROVE  /\ AndData(Erased, d) = d /\ AndData(d, Erased) = d /\ AndData(d, d) = d
         /\ AndMark(255, m) = m /\ AndMark(m, 255) = m /\ AndMark(m, 0) = 0 /\ AndMark(m, m) = m
BY DEF AndData, AndMark, Marks

\* A page that is blank takes what is burnt into it.
LEMMA BurnBlank ==
  ASSUME NEW page \in PageVal
  PROVE  BurnPage(Blank, page) = page
<1>1. page.mark \in Marks /\ page = [data |-> page.data, mark |-> page.mark]
  BY DEF PageVal
<1> QED BY <1>1, AndFacts DEF BurnPage, Blank

\* The data first and the mark after it make the page that both at once do.
LEMMA BurnTwice ==
  ASSUME NEW old \in PageVal, NEW page \in PageVal
  PROVE  BurnPage(BurnPage(old, [data |-> page.data, mark |-> 255]), page) = BurnPage(old, page)
<1>1. page.mark \in Marks /\ old.mark \in Marks
  BY DEF PageVal
<1> DEFINE first == [data |-> page.data, mark |-> 255]
<1>2. AndData(AndData(old.data, page.data), page.data) = AndData(old.data, page.data)
  <2> DEFINE d == old.data
             e == page.data
  <2>1. e = Erased => AndData(d, e) = d /\ AndData(AndData(d, e), e) = AndData(d, e)
    BY DEF AndData
  <2>2. e # Erased => AndData(d, e) \in {e, Mixed}
    BY DEF AndData
  <2>3. e # Erased => AndData(e, e) = e /\ AndData(Mixed, e) = Mixed
    BY ChipAssumption DEF AndData
  <2> QED BY <2>1, <2>2, <2>3
<1>3. AndMark(old.mark, 255) = old.mark
  BY <1>1, AndFacts
<1>4. BurnPage(old, first) = [data |-> AndData(old.data, page.data), mark |-> old.mark]
  BY <1>3 DEF BurnPage
<1> QED BY <1>2, <1>4 DEF BurnPage

\* MARK_SECT's buffer leaves the data of the page.
LEMMA BurnMark ==
  ASSUME NEW old \in PageVal, NEW page, page = [data |-> Erased, mark |-> 0]
  PROVE  BurnPage(old, page) = [old EXCEPT !.mark = page.mark]
<1>1. old.mark \in Marks /\ old = [data |-> old.data, mark |-> old.mark]
  BY DEF PageVal
<1> QED BY <1>1, AndFacts DEF BurnPage

\* A command on a flash that is ready for it does what the host means it to.
LEMMA WorksAsMeant ==
  ASSUME NEW f \in Flash, NEW c \in Cmd, Ready(f, c)
  PROVE  Apply(f, c).mem = Intended(f.mem, c)
<1> DEFINE b == c.blk
           put == c.put
           ones == {"BLK_LOCK", "BLK_UNLOCK", "BLK_ERASE", "CHIP_ERASE"} \cup Reading \cup {"JUMP"}
<1>1. /\ f = [mem |-> f.mem, prot |-> f.prot] /\ f.mem \in MemVal /\ f.prot \in ProtVal
      /\ b \in Blocks /\ put \in Puts /\ DOMAIN put \subseteq Slots
      /\ \A s \in DOMAIN put : put[s] \in PageVal
      /\ f.mem[b] \in [Slots -> PageVal] /\ c.op \in Ops
  BY DEF Flash, Cmd, MemVal, Puts
<1>2. CASE c.op \in ones
  <2>1. Apply(f, c) = Wipe(f, c)
    BY <1>2 DEF Apply, Burn, Stamp, Reading
  <2>2. Wipe(f, c).mem = Intended(f.mem, c)
    <3>1. CASE c.op = "BLK_ERASE"
      <4>1. f.mem = [f.mem EXCEPT ![b] = f.mem[b]]
        BY <1>1 DEF MemVal
      <4> QED BY <1>1, <3>1, <4>1 DEF Wipe, Intended, FlashErase, EraseBlk, BlankCheck, Ready
    <3>2. CASE c.op = "CHIP_ERASE"
      BY <1>1, <3>2 DEF Wipe, Intended, EraseAll, Ready
    <3>3. CASE c.op \notin {"BLK_ERASE", "CHIP_ERASE"}
      BY <1>1, <1>2, <3>3 DEF Wipe, Intended, Reading
    <3> QED BY <3>1, <3>2, <3>3
  <2> QED BY <2>1, <2>2
<1>3. CASE c.op = "BLK_PROGRAM"
  <2>1. Apply(f, c) = Burn(Wipe(f, c), c) /\ ~f.prot[b]
    BY <1>3 DEF Apply, Stamp, Ready
  <2>2. CASE SameAs(f, c)
    BY <2>1, <2>2, <1>3 DEF Wipe, Burn, SameAs, Intended
  <2>3. CASE ~SameAs(f, c)
    <3> DEFINE w == Wipe(f, c)
               blank == [f.mem EXCEPT ![b] = BlankBlock]
    <3>1. w.mem = blank /\ w.prot = f.prot /\ w = [mem |-> w.mem, prot |-> w.prot]
      <4>1. f.mem = [f.mem EXCEPT ![b] = f.mem[b]]
        BY <1>1 DEF MemVal
      <4> QED BY <1>1, <1>3, <2>1, <2>3, <4>1 DEF Wipe, FlashErase, EraseBlk, BlankCheck
    <3>2. blank \in MemVal /\ blank[b] = BlankBlock /\ DOMAIN f.mem = Blocks
      BY <1>1 DEF MemVal, BlankBlock, Blank, PageVal, Marks
    <3>3. Intended(f.mem, c) = [f.mem EXCEPT ![b] = [s \in Slots |-> IF s \in DOMAIN put THEN put[s]
                                                                   ELSE BlankBlock[s]]]
      <4>1. \A s \in DOMAIN put : s \in Slots /\ BurnPage(BlankBlock[s], put[s]) = put[s]
        <5>1. \A s \in DOMAIN put : s \in Slots /\ BlankBlock[s] = Blank /\ put[s] \in PageVal
          BY <1>1 DEF BlankBlock
        <5> HIDE DEF put
        <5> QED BY <5>1, BurnBlank
      <4>2. Intended(f.mem, c) = [f.mem EXCEPT ![b] =
              [s \in Slots |-> IF s \in DOMAIN put THEN BurnPage(BlankBlock[s], put[s])
                               ELSE BlankBlock[s]]]
        BY <1>3, <2>3 DEF Intended, SameAs
      <4> HIDE DEF put, b
      <4> QED BY <4>1, <4>2
    <3>4. CASE SameAs(w, c)
      <4>1. Burn(w, c) = w
        BY <1>3, <3>4 DEF Burn
      <4>2. BlankBlock = [s \in Slots |-> IF s \in DOMAIN put THEN put[s] ELSE BlankBlock[s]]
        BY <3>1, <3>2, <3>4 DEF SameAs, BlankBlock
      <4> QED BY <2>1, <3>1, <3>3, <4>1, <4>2
    <3>5. CASE ~SameAs(w, c)
      <4>1. Burn(w, c) = [w EXCEPT !.mem = ProgramPages(w.mem, w.prot, b, put)]
        BY <1>3, <3>5 DEF Burn
      <4>2. ProgramPages(blank, f.prot, b, put) =
              [blank EXCEPT ![b] = [s \in Slots |-> IF s \in DOMAIN put THEN BurnPage(blank[b][s], put[s])
                                                    ELSE blank[b][s]]]
        <5> HIDE DEF blank, put, b
        <5> QED BY <2>1 DEF ProgramPages
      <4>3. \A s \in DOMAIN put : BurnPage(blank[b][s], put[s]) = put[s]
        <5>1. \A s \in DOMAIN put : blank[b][s] = Blank /\ put[s] \in PageVal
          BY <1>1, <3>2 DEF BlankBlock
        <5> HIDE DEF blank, put, b
        <5> QED BY <5>1, BurnBlank
      <4>4. [s \in Slots |-> IF s \in DOMAIN put THEN BurnPage(blank[b][s], put[s]) ELSE blank[b][s]]
            = [s \in Slots |-> IF s \in DOMAIN put THEN put[s] ELSE BlankBlock[s]]
        BY <3>2, <4>3
      <4>5. Burn(w, c).mem = ProgramPages(blank, f.prot, b, put)
        BY <3>1, <4>1
      <4>6. Burn(w, c).mem = [blank EXCEPT ![b] = [s \in Slots |-> IF s \in DOMAIN put THEN put[s]
                                                                 ELSE BlankBlock[s]]]
        BY <4>2, <4>4, <4>5
      <4> QED BY <2>1, <3>2, <3>3, <4>6
    <3> QED BY <3>4, <3>5
  <2> QED BY <2>2, <2>3
<1>4. CASE c.op = "MARK_SECT"
  <2> DEFINE open == [f.prot EXCEPT ![b] = FALSE]
  <2>1. Apply(f, c) = Stamp(f, c)
    BY <1>4 DEF Apply, Burn, Wipe
  <2>2. Stamp(f, c).mem = ProgramPages(f.mem, open, b, put)
    BY <1>4 DEF Stamp
  <2>3. open \in ProtVal /\ ~open[b]
    BY <1>1 DEF ProtVal
  <2>4. \A s \in DOMAIN put : BurnPage(f.mem[b][s], put[s]) = [f.mem[b][s] EXCEPT !.mark = put[s].mark]
    <3>1. \A s \in DOMAIN put : f.mem[b][s] \in PageVal /\ put[s] = [data |-> Erased, mark |-> 0]
      BY <1>1, <1>4 DEF Ready
    <3> HIDE DEF put, b
    <3> QED BY <3>1, BurnMark
  <2>5. ProgramPages(f.mem, open, b, put) =
          [f.mem EXCEPT ![b] = [s \in Slots |-> IF s \in DOMAIN put THEN BurnPage(f.mem[b][s], put[s])
                                                ELSE f.mem[b][s]]]
    <3> HIDE DEF open, put, b
    <3> QED BY <2>3 DEF ProgramPages
  <2>6. Intended(f.mem, c) = [f.mem EXCEPT ![b] =
          [s \in Slots |-> IF s \in DOMAIN put THEN [f.mem[b][s] EXCEPT !.mark = put[s].mark]
                           ELSE f.mem[b][s]]]
    BY <1>4 DEF Intended
  <2>7. [s \in Slots |-> IF s \in DOMAIN put THEN BurnPage(f.mem[b][s], put[s]) ELSE f.mem[b][s]]
        = [s \in Slots |-> IF s \in DOMAIN put THEN [f.mem[b][s] EXCEPT !.mark = put[s].mark]
                           ELSE f.mem[b][s]]
    BY <2>4
  <2> QED BY <2>1, <2>2, <2>5, <2>6, <2>7
<1>5. CASE c.op = "SECT_WRITE"
  <2> DEFINE open == [f.prot EXCEPT ![b] = FALSE]
             w == Wipe(f, c)
             rest == IF c.erase THEN BlankBlock ELSE f.mem[b]
             data == DataOf(put)
             half == [s \in Slots |-> IF s \in DOMAIN data THEN BurnPage(rest[s], data[s]) ELSE rest[s]]
             u == Burn(w, c)
  <2>1. open \in ProtVal /\ ~open[b]
    BY <1>1 DEF ProtVal
  <2>2. rest \in [Slots -> PageVal]
    BY <1>1 DEF BlankBlock, Blank, PageVal, Marks
  <2>3. w.mem = [f.mem EXCEPT ![b] = rest] /\ w.prot = f.prot /\ w.mem \in MemVal /\ w.mem[b] = rest
    <3>1. f.mem = [f.mem EXCEPT ![b] = f.mem[b]]
      BY <1>1 DEF MemVal
    <3>2. w.mem = [f.mem EXCEPT ![b] = rest] /\ w.prot = f.prot
      BY <1>1, <1>5, <3>1 DEF Wipe, FlashErase, EraseBlk, Ready
    <3> QED BY <1>1, <2>2, <3>2 DEF MemVal
  <2>4. data \in Puts /\ DOMAIN data = DOMAIN put
        /\ \A s \in DOMAIN put : data[s] = [data |-> put[s].data, mark |-> 255] /\ data[s] \in PageVal
    <3>1. DOMAIN data = DOMAIN put
          /\ \A s \in DOMAIN put : data[s] = [data |-> put[s].data, mark |-> 255]
      BY <1>1 DEF DataOf, PageVal
    <3>2. \A s \in DOMAIN put : data[s] \in PageVal
      <4> HIDE DEF data, put
      <4> QED BY <1>1, <3>1 DEF PageVal, Marks
    <3>3. data \in [DOMAIN put -> PageVal]
      BY <1>1, <3>2 DEF DataOf, PageVal, Marks
    <3> QED BY <1>1, <3>1, <3>2, <3>3 DEF Puts
  <2>5. u.mem = [w.mem EXCEPT ![b] = half] /\ u.prot = open
    <3>1. u = [mem |-> ProgramPages(w.mem, open, b, data), prot |-> open]
      BY <1>5, <2>3 DEF Burn
    <3>2. ProgramPages(w.mem, open, b, data) = [w.mem EXCEPT ![b] = half]
      <4>1. half = [s \in Slots |-> IF s \in DOMAIN data THEN BurnPage(w.mem[b][s], data[s]) ELSE w.mem[b][s]]
        <5> HIDE DEF open, data, b, w, rest
        <5> QED BY <2>3
      <4> HIDE DEF open, data, b, w, rest, half
      <4> QED BY <2>1, <4>1 DEF ProgramPages
    <3> QED BY <3>1, <3>2
  <2>6. half \in [Slots -> PageVal] /\ u.mem \in MemVal /\ u.mem[b] = half
    <3>1. half \in [Slots -> PageVal]
      <4>1. \A s \in DOMAIN put : s \in Slots /\ BurnPage(rest[s], data[s]) \in PageVal
        <5> HIDE DEF data, rest, put
        <5> QED BY <1>1, <2>2, <2>4, BurnPageType
      <4> HIDE DEF data, rest, put
      <4> QED BY <2>2, <2>4, <4>1
    <3> QED BY <1>1, <2>3, <2>5, <3>1 DEF MemVal
  <2>7. Stamp(u, c).mem = ProgramPages(u.mem, open, b, put)
    <3>1. [u.prot EXCEPT ![b] = FALSE] = open
      BY <2>5, <1>1 DEF ProtVal
    <3> QED BY <1>5, <3>1 DEF Stamp
  <2>8. ProgramPages(u.mem, open, b, put) =
          [u.mem EXCEPT ![b] = [s \in Slots |-> IF s \in DOMAIN put THEN BurnPage(half[s], put[s])
                                                ELSE half[s]]]
    <3> HIDE DEF open, put, b, u, half
    <3> QED BY <2>1, <2>6 DEF ProgramPages
  <2>9. \A s \in Slots : (IF s \in DOMAIN put THEN BurnPage(half[s], put[s]) ELSE half[s])
                         = IF s \in DOMAIN put THEN BurnPage(rest[s], put[s]) ELSE rest[s]
    <3>1. ASSUME NEW s \in DOMAIN put PROVE BurnPage(half[s], put[s]) = BurnPage(rest[s], put[s])
      <4>1. /\ s \in Slots /\ half[s] = BurnPage(rest[s], [data |-> put[s].data, mark |-> 255])
            /\ put[s] \in PageVal /\ rest[s] \in PageVal
        BY <1>1, <2>2, <2>4
      <4> HIDE DEF half, rest, put
      <4> QED BY <4>1, BurnTwice
    <3>2. \A s \in Slots : s \notin DOMAIN put => half[s] = rest[s]
      BY <2>4
    <3> QED BY <3>1, <3>2
  <2> DEFINE done == [s \in Slots |-> IF s \in DOMAIN put THEN BurnPage(rest[s], put[s]) ELSE rest[s]]
  <2>10. Stamp(u, c).mem = [u.mem EXCEPT ![b] = done]
    <3>1. [s \in Slots |-> IF s \in DOMAIN put THEN BurnPage(half[s], put[s]) ELSE half[s]] = done
      <4> HIDE DEF half, rest
      <4> QED BY <2>9
    <3> HIDE DEF half, done, u, open
    <3> QED BY <2>7, <2>8, <3>1
  <2>11. Intended(f.mem, c) = [f.mem EXCEPT ![b] = done]
    BY <1>5 DEF Intended
  <2>12. [u.mem EXCEPT ![b] = done] = [f.mem EXCEPT ![b] = done]
    <3> HIDE DEF half, done, u, w, rest
    <3> QED BY <1>1, <2>3, <2>5 DEF MemVal
  <2> QED BY <2>10, <2>11, <2>12 DEF Apply
<1>6. c.op \in ones \cup {"BLK_PROGRAM", "MARK_SECT", "SECT_WRITE"}
  BY <1>1 DEF Ops, Reading
<1> QED BY <1>2, <1>3, <1>4, <1>5, <1>6

-----------------------------------------------------------------------------
(* A place in a job: where its commands have left the flash by then.       *)

\* The block locks after a command.
LEMMA LocksAfter ==
  ASSUME NEW f \in Flash, NEW c \in Cmd, NEW b \in Blocks
  PROVE  /\ c.blk = b /\ c.op \in Locking => Apply(f, c).prot[b]
         /\ c.blk = b /\ c.op = "BLK_UNLOCK" => ~Apply(f, c).prot[b]
         /\ ~(c.blk = b /\ c.op \in Locking \cup {"BLK_UNLOCK"}) => Apply(f, c).prot[b] = f.prot[b]
<1> DEFINE w == Wipe(f, c)
           u == Burn(w, c)
<1>1. w \in Flash /\ u \in Flash /\ c.blk \in Blocks
  BY PhaseTypes DEF Cmd
<1>2. /\ f.prot \in [Blocks -> BOOLEAN] /\ w.prot \in [Blocks -> BOOLEAN] /\ u.prot \in [Blocks -> BOOLEAN]
      /\ f = [mem |-> f.mem, prot |-> f.prot] /\ w = [mem |-> w.mem, prot |-> w.prot]
  BY <1>1 DEF Flash, ProtVal
<1>3. w.prot = CASE c.op = "BLK_LOCK"   -> [f.prot EXCEPT ![c.blk] = TRUE]
                 [] c.op = "BLK_UNLOCK" -> [f.prot EXCEPT ![c.blk] = FALSE]
                 [] OTHER               -> f.prot
  BY <1>2 DEF Wipe, FlashErase
<1>4. u.prot = IF c.op = "SECT_WRITE" THEN [w.prot EXCEPT ![c.blk] = FALSE] ELSE w.prot
  <2> HIDE DEF w
  <2> QED BY <1>2 DEF Burn
<1>5. Apply(f, c).prot = IF c.op \in {"SECT_WRITE", "MARK_SECT"}
                         THEN [[u.prot EXCEPT ![c.blk] = FALSE] EXCEPT ![c.blk] = TRUE] ELSE u.prot
  BY DEF Apply, Stamp
<1> HIDE DEF w, u
<1>6. CASE c.op \in {"SECT_WRITE", "MARK_SECT"}
  BY <1>1, <1>2, <1>3, <1>4, <1>5, <1>6 DEF Locking
<1>7. CASE c.op \in {"BLK_LOCK", "BLK_UNLOCK"}
  BY <1>1, <1>2, <1>3, <1>4, <1>5, <1>7 DEF Locking
<1>8. CASE c.op \notin {"SECT_WRITE", "MARK_SECT", "BLK_LOCK", "BLK_UNLOCK"}
  BY <1>1, <1>2, <1>3, <1>4, <1>5, <1>8 DEF Locking
<1> QED BY <1>6, <1>7, <1>8

\* A page stays blank unless a command puts something there.
LEMMA BlankAfter ==
  ASSUME NEW mem \in MemVal, NEW c \in Cmd, NEW b \in Blocks, NEW s \in Slots
  PROVE  /\ c.op = "BLK_ERASE" /\ c.blk = b => Intended(mem, c)[b][s] = Blank
         /\ ~(c.blk = b /\ s \in DOMAIN c.put) /\ mem[b][s] = Blank => Intended(mem, c)[b][s] = Blank
<1>1. DOMAIN mem = Blocks /\ DOMAIN mem[c.blk] = Slots /\ c.blk \in Blocks /\ BlankBlock[s] = Blank
  BY DEF MemVal, Cmd, BlankBlock
<1>2. \A new : [mem EXCEPT ![c.blk] = new][b] = IF b = c.blk THEN new ELSE mem[b]
  BY <1>1
<1> QED BY <1>1, <1>2 DEF Intended

\* What the first k - 1 commands of a stage have made ready.
Prepares(f, cmds, k) ==
  /\ \A b \in Blocks : UnlockedBy(cmds, k, b) => ~f.prot[b]
  /\ \A b \in Blocks, s \in Slots : BlankBy(cmds, k, b, s) => f.mem[b][s] = Blank

\* One command later: unlocked by it, or before it and not locked by it.
LEMMA UnlockedNext ==
  ASSUME NEW cmds \in Seq(Cmd), NEW k \in 1 .. Len(cmds), NEW b, UnlockedBy(cmds, k + 1, b)
  PROVE  \/ cmds[k].op = "BLK_UNLOCK" /\ cmds[k].blk = b
         \/ UnlockedBy(cmds, k, b) /\ ~(cmds[k].op \in Locking /\ cmds[k].blk = b)
<1>1. PICK n \in 1 .. (k + 1) - 1 :
        /\ cmds[n].op = "BLK_UNLOCK" /\ cmds[n].blk = b
        /\ \A m \in n + 1 .. (k + 1) - 1 : ~(cmds[m].op \in Locking /\ cmds[m].blk = b)
  BY DEF UnlockedBy
<1>2. CASE n < k
  <2>1. n \in 1 .. k - 1 /\ k \in n + 1 .. (k + 1) - 1
        /\ \A m \in n + 1 .. k - 1 : m \in n + 1 .. (k + 1) - 1
    BY <1>2
  <2> QED BY <1>1, <2>1 DEF UnlockedBy
<1>3. CASE n = k
  BY <1>1, <1>3
<1> QED BY <1>2, <1>3

\* A page left blank after k commands was blank before the k-th and is not
\* written by it, or is erased by it.
LEMMA BlankNext ==
  ASSUME NEW cmds \in Seq(Cmd), NEW k \in 1 .. Len(cmds), NEW b, NEW s, BlankBy(cmds, k + 1, b, s)
  PROVE  \/ cmds[k].op = "BLK_ERASE" /\ cmds[k].blk = b
         \/ BlankBy(cmds, k, b, s) /\ ~(cmds[k].blk = b /\ s \in DOMAIN cmds[k].put)
<1>1. PICK n \in 1 .. (k + 1) - 1 :
        /\ cmds[n].op = "BLK_ERASE" /\ cmds[n].blk = b
        /\ \A m \in n + 1 .. (k + 1) - 1 : ~(cmds[m].blk = b /\ s \in DOMAIN cmds[m].put)
  BY DEF BlankBy
<1>2. CASE n < k
  <2>1. n \in 1 .. k - 1 /\ k \in n + 1 .. (k + 1) - 1
        /\ \A m \in n + 1 .. k - 1 : m \in n + 1 .. (k + 1) - 1
    BY <1>2
  <2> QED BY <1>1, <2>1 DEF BlankBy
<1>3. CASE n = k
  BY <1>1, <1>3
<1> QED BY <1>2, <1>3

\* A command that does what is meant leaves the rest of the stage prepared.
LEMMA PreparesNext ==
  ASSUME NEW cmds \in Seq(Cmd), NEW k \in 1 .. Len(cmds), NEW f \in Flash, Prepares(f, cmds, k),
         Apply(f, cmds[k]).mem = Intended(f.mem, cmds[k])
  PROVE  Prepares(Apply(f, cmds[k]), cmds, k + 1)
<1> DEFINE c == cmds[k]
<1>1. c \in Cmd /\ f.mem \in MemVal
  BY DEF Flash
<1>2. ASSUME NEW b \in Blocks, UnlockedBy(cmds, k + 1, b)
      PROVE  ~Apply(f, c).prot[b]
  <2>1. CASE c.op = "BLK_UNLOCK" /\ c.blk = b
    BY <1>1, <2>1, LocksAfter
  <2>2. CASE ~(c.op = "BLK_UNLOCK" /\ c.blk = b)
    <3>1. UnlockedBy(cmds, k, b) /\ ~(c.op \in Locking /\ c.blk = b)
      BY <1>2, <2>2, UnlockedNext
    <3>2. ~f.prot[b]
      BY <3>1 DEF Prepares
    <3>3. Apply(f, c).prot[b] = f.prot[b]
      <4>1. ~(c.blk = b /\ c.op \in Locking \cup {"BLK_UNLOCK"})
        BY <2>2, <3>1
      <4> HIDE DEF c
      <4> QED BY <1>1, <4>1, LocksAfter
    <3> QED BY <3>2, <3>3
  <2> QED BY <2>1, <2>2
<1>3. ASSUME NEW b \in Blocks, NEW s \in Slots, BlankBy(cmds, k + 1, b, s)
      PROVE  Apply(f, c).mem[b][s] = Blank
  <2>1. CASE c.op = "BLK_ERASE" /\ c.blk = b
    BY <1>1, <2>1, BlankAfter
  <2>2. CASE ~(c.op = "BLK_ERASE" /\ c.blk = b)
    <3>1. BlankBy(cmds, k, b, s) /\ ~(c.blk = b /\ s \in DOMAIN c.put)
      BY <1>3, <2>2, BlankNext
    <3>2. f.mem[b][s] = Blank
      BY <3>1 DEF Prepares
    <3> QED BY <1>1, <3>1, <3>2, BlankAfter
  <2> QED BY <2>1, <2>2
<1> QED BY <1>2, <1>3 DEF Prepares

\* Nothing has been made ready before the first command.
LEMMA PreparesNone ==
  ASSUME NEW f, NEW cmds
  PROVE  Prepares(f, cmds, 1)
BY DEF Prepares, UnlockedBy, BlankBy

\* Stage i and command k of it are a place in job j, its end included.
InPlan(j, i, k) == /\ i \in 1 .. Len(j) + 1
                   /\ i <= Len(j) => k \in 1 .. Len(j[i].cmds) + 1

\* The memory the job should have made of mem when it has come there.
At(j, mem, i, k) == IF i <= Len(j)
                    THEN Replay(AfterStages(j, mem, i - 1), SubSeq(j[i].cmds, 1, k - 1))
                    ELSE AfterStages(j, mem, Len(j))

\* Flash f is that memory, with everything prepared that has been so far.
Right(f, j, mem, i, k) ==
  /\ f.mem = At(j, mem, i, k)
  /\ i <= Len(j) => Prepares(f, j[i].cmds, k)
  /\ i > 1 /\ k = 1 => Prepares(f, j[i - 1].cmds, Len(j[i - 1].cmds) + 1)

\* The stages of a job and their commands.
LEMMA JobType ==
  ASSUME NEW j \in Seq(Stage)
  PROVE  /\ Len(j) \in Nat /\ DOMAIN j = 1 .. Len(j)
         /\ \A i \in 1 .. Len(j) : /\ j[i].cmds \in Seq(Cmd) /\ Len(j[i].cmds) \in Nat
                                   /\ DOMAIN j[i].cmds = 1 .. Len(j[i].cmds)
                                   /\ \A k \in 1 .. Len(j[i].cmds) : j[i].cmds[k] \in Cmd
<1>1. Len(j) \in Nat /\ DOMAIN j = 1 .. Len(j) /\ \A i \in 1 .. Len(j) : j[i] \in Stage
  OBVIOUS
<1>2. \A i \in 1 .. Len(j) : j[i].cmds \in Seq(Cmd)
  BY <1>1 DEF Stage
<1>3. \A c \in Seq(Cmd) : Len(c) \in Nat /\ DOMAIN c = 1 .. Len(c) /\ \A k \in 1 .. Len(c) : c[k] \in Cmd
  OBVIOUS
<1> QED BY <1>1, <1>2, <1>3

\* A job starts in its plan.
LEMMA RightAtStart ==
  ASSUME NEW j \in Seq(Stage), NEW f \in Flash
  PROVE  InPlan(j, 1, 1) /\ Right(f, j, f.mem, 1, 1)
<1>1. f.mem \in MemVal
  BY DEF Flash
<1>2. AfterStages(j, f.mem, 0) = f.mem
  BY <1>1, StagesStep
<1>3. InPlan(j, 1, 1)
  BY JobType DEF InPlan
<1>4. CASE 1 <= Len(j)
  <2>1. j[1].cmds \in Seq(Cmd)
    BY <1>4, JobType
  <2>2. Replay(f.mem, SubSeq(j[1].cmds, 1, 0)) = f.mem
    BY <1>1, <2>1, ReplayStep
  <2> QED BY <1>2, <1>3, <1>4, <2>2, PreparesNone DEF Right, At
<1>5. CASE ~(1 <= Len(j))
  <2>1. Len(j) = 0
    BY <1>5, JobType
  <2> QED BY <1>2, <1>3, <2>1 DEF Right, At
<1> QED BY <1>4, <1>5

\* The next command of a planned job finds a flash ready for it.
LEMMA PlanMakesReady ==
  ASSUME NEW j \in Seq(Stage), Planned(j), NEW mem \in MemVal, NEW f \in Flash,
         NEW i \in 1 .. Len(j), NEW k \in 1 .. Len(j[i].cmds), Right(f, j, mem, i, k)
  PROVE  Ready(f, j[i].cmds[k])
<1> DEFINE c == j[i].cmds[k]
<1>1. /\ c \in Cmd /\ c.blk \in Blocks /\ Len(j) \in Nat /\ DOMAIN c.put \subseteq Slots
      /\ i \in DOMAIN j /\ k \in DOMAIN j[i].cmds
      /\ \A s \in DOMAIN c.put : c.put[s] \in PageVal
  <2>1. c \in Cmd /\ Len(j) \in Nat /\ i \in DOMAIN j /\ k \in DOMAIN j[i].cmds
    BY JobType
  <2> HIDE DEF c
  <2> QED BY <2>1 DEF Cmd, Puts
<1>2. Prepared(j, i, k)
  BY <1>1 DEF Planned
<1>3. Prepares(f, j[i].cmds, k)
  BY <1>1 DEF Right
<1>4. c.op \in {"BLK_ERASE", "BLK_PROGRAM"} \/ (c.op = "SECT_WRITE" /\ c.erase) => ~f.prot[c.blk]
  BY <1>1, <1>2, <1>3 DEF Prepared, Prepares
<1>5. c.op = "CHIP_ERASE" => \A b \in Blocks : ~f.prot[b]
  <2> SUFFICES ASSUME c.op = "CHIP_ERASE" PROVE \A b \in Blocks : ~f.prot[b]
    OBVIOUS
  <2>1. k = 1 /\ i > 1 /\ \A b \in Blocks : UnlockedBy(j[i - 1].cmds, Len(j[i - 1].cmds) + 1, b)
    BY <1>2 DEF Prepared
  <2>2. Prepares(f, j[i - 1].cmds, Len(j[i - 1].cmds) + 1)
    BY <2>1 DEF Right
  <2> QED BY <2>1, <2>2 DEF Prepares
<1>6. c.op = "MARK_SECT" => \A s \in DOMAIN c.put : c.put[s] = [data |-> Erased, mark |-> 0]
  BY <1>2 DEF Prepared
<1> HIDE DEF c
<1>7. Ready(f, c)
  BY <1>4, <1>5, <1>6 DEF Ready
<1> QED BY <1>7 DEF c

\* It takes the job one command further.
LEMMA RightGoesOn ==
  ASSUME NEW j \in Seq(Stage), Planned(j), NEW mem \in MemVal, NEW f \in Flash,
         NEW i \in 1 .. Len(j), NEW k \in 1 .. Len(j[i].cmds), Right(f, j, mem, i, k)
  PROVE  InPlan(j, i, k + 1) /\ Right(Apply(f, j[i].cmds[k]), j, mem, i, k + 1)
<1> DEFINE cmds == j[i].cmds
           was == AfterStages(j, mem, i - 1)
<1>1. cmds \in Seq(Cmd) /\ Len(cmds) \in Nat /\ Len(j) \in Nat /\ cmds[k] \in Cmd
  BY JobType
<1>2. was \in MemVal
  <2>1. i - 1 \in 0 .. Len(j)
    BY <1>1
  <2> QED BY <2>1, StagesStep
<1>3. Apply(f, cmds[k]).mem = Intended(f.mem, cmds[k])
  <2>1. Ready(f, cmds[k])
    BY PlanMakesReady
  <2> HIDE DEF cmds
  <2> QED BY <1>1, <2>1, WorksAsMeant
<1>4. f.mem = Replay(was, SubSeq(cmds, 1, k - 1)) /\ Prepares(f, cmds, k)
  BY <1>1 DEF Right, At
<1>5. (k + 1) - 1 = k /\ k + 1 # 1 /\ i <= Len(j)
  BY <1>1
<1>6. Apply(f, cmds[k]).mem = Replay(was, SubSeq(cmds, 1, (k + 1) - 1))
  <2> HIDE DEF cmds, was
  <2>1. Replay(was, SubSeq(cmds, 1, k)) = Intended(Replay(was, SubSeq(cmds, 1, k - 1)), cmds[k])
    BY <1>1, <1>2, ReplayStep DEF cmds
  <2> QED BY <1>3, <1>4, <1>5, <2>1
<1>7. Prepares(Apply(f, cmds[k]), cmds, k + 1)
  <2> HIDE DEF cmds
  <2> QED BY <1>1, <1>3, <1>4, PreparesNext DEF cmds
<1>8. InPlan(j, i, k + 1)
  BY <1>1 DEF InPlan
<1> QED BY <1>5, <1>6, <1>7, <1>8 DEF Right, At

\* The end of a stage is the start of the next.
LEMMA RightNextStage ==
  ASSUME NEW j \in Seq(Stage), NEW mem \in MemVal, NEW f, NEW i \in 1 .. Len(j)
  PROVE  /\ InPlan(j, i + 1, 1)
         /\ Right(f, j, mem, i, Len(j[i].cmds) + 1) => Right(f, j, mem, i + 1, 1)
<1> DEFINE cmds == j[i].cmds
<1>1. cmds \in Seq(Cmd) /\ Len(cmds) \in Nat /\ Len(j) \in Nat /\ (Len(cmds) + 1) - 1 = Len(cmds)
      /\ (i + 1) - 1 = i /\ i - 1 \in 0 .. Len(j) /\ i \in 0 .. Len(j) /\ i <= Len(j) /\ i + 1 > 1
  BY JobType
<1>2. InPlan(j, i + 1, 1)
  BY <1>1, JobType DEF InPlan
<1>3. AfterStages(j, mem, i - 1) \in MemVal /\ AfterStages(j, mem, i) \in MemVal
      /\ AfterStages(j, mem, i) = Replay(AfterStages(j, mem, i - 1), cmds)
  BY <1>1, StagesStep
<1> SUFFICES ASSUME Right(f, j, mem, i, Len(cmds) + 1) PROVE Right(f, j, mem, i + 1, 1)
  BY <1>2
<1>4. f.mem = AfterStages(j, mem, i) /\ Prepares(f, cmds, Len(cmds) + 1)
  <2>1. SubSeq(cmds, 1, Len(cmds)) = cmds
    BY <1>1, <1>3, ReplayStep
  <2>2. f.mem = Replay(AfterStages(j, mem, i - 1), SubSeq(cmds, 1, (Len(cmds) + 1) - 1))
        /\ Prepares(f, cmds, Len(cmds) + 1)
    BY <1>1 DEF Right, At
  <2> HIDE DEF cmds
  <2> QED BY <1>1, <1>3, <2>1, <2>2
<1>5. At(j, mem, i + 1, 1) = AfterStages(j, mem, i)
  <2>1. CASE i + 1 <= Len(j)
    <3>1. j[i + 1].cmds \in Seq(Cmd)
      BY <1>1, <2>1, JobType
    <3>2. Replay(AfterStages(j, mem, i), SubSeq(j[i + 1].cmds, 1, 0)) = AfterStages(j, mem, i)
      BY <1>3, <3>1, ReplayStep
    <3> QED BY <1>1, <2>1, <3>2 DEF At
  <2>2. CASE ~(i + 1 <= Len(j))
    <3>1. i = Len(j)
      BY <1>1, <2>2
    <3> QED BY <2>2, <3>1 DEF At
  <2> QED BY <2>1, <2>2
<1> HIDE DEF cmds
<1>6. Prepares(f, j[(i + 1) - 1].cmds, Len(j[(i + 1) - 1].cmds) + 1)
  BY <1>1, <1>4 DEF cmds
<1> QED BY <1>4, <1>5, <1>6, PreparesNone DEF Right

-----------------------------------------------------------------------------
(* The host's place in its job is the place the flash behind it has.       *)

\* g is where the job should have taken the flash, unless the host has given
\* a stage up or left a command out.
OnCourse(g) ==
  job # NoJob => /\ InPlan(job, si, ci) /\ FromMarks(job, base)
                 /\ failed = {} /\ skipped = {} => Right(g, job, base, si, ci)

DeliveryInv == Connected => \E g \in Flash : Behind(g) /\ OnCourse(g)

\* However a step moves the host and the flash behind it, they stay on course.
LEMMA MovesOnCourse ==
  ASSUME \A j \in Jobs : Planned(j), TypeOK, NEW g \in Flash, NEW h \in Flash, OnCourse(g), Moves(g, h)
  PROVE  OnCourse(h)'
<1>1. /\ Jobs \subseteq Seq(Stage) /\ NoJob \notin Jobs /\ base \in MemVal
      /\ si \in Nat \ {0} /\ ci \in Nat \ {0} /\ (job # NoJob => job \in Jobs)
  BY JobsAssumption DEF TypeOK
<1>2. CASE h = g /\ UNCHANGED <<job, si, ci, told, failed, skipped, base>>
  BY <1>2 DEF OnCourse
<1>3. CASE /\ InStage /\ h = Apply(g, Cur)
           /\ ci' = ci + 1 /\ UNCHANGED <<job, si, told, failed, skipped, base>>
  <2>1. CASE job = NoJob
    BY <1>3, <2>1 DEF OnCourse
  <2>2. CASE job # NoJob
    <3>1. /\ job \in Seq(Stage) /\ Planned(job) /\ si \in 1 .. Len(job)
          /\ ci \in 1 .. Len(job[si].cmds)
      <4>1. job \in Seq(Stage) /\ Planned(job) /\ Len(job) \in Nat /\ si \in 1 .. Len(job)
        BY <1>1, <1>3, <2>2, JobType DEF InStage
      <4>2. Len(job[si].cmds) \in Nat
        BY <4>1, JobType
      <4> QED BY <1>1, <1>3, <4>1, <4>2 DEF InStage
    <3>2. InPlan(job, si, ci + 1)
      <4>1. Len(job[si].cmds) \in Nat /\ Len(job) \in Nat
        BY <3>1, JobType
      <4> QED BY <3>1, <4>1 DEF InPlan
    <3>3. failed = {} /\ skipped = {} => Right(h, job, base, si, ci + 1)
      BY <1>1, <1>3, <2>2, <3>1, RightGoesOn DEF OnCourse, Cur
    <3> QED BY <1>3, <2>2, <3>2, <3>3 DEF OnCourse
  <2> QED BY <2>1, <2>2
<1>4. CASE h = g /\ InStage /\ Cur.op = "MARK_SECT" /\ Skip /\ UNCHANGED base
  <2>1. skipped' # {} /\ job' = job /\ si' = si /\ ci' = ci + 1 /\ base' = base
    BY <1>4 DEF Skip
  <2>2. CASE job # NoJob
    <3>1. job \in Seq(Stage) /\ si \in 1 .. Len(job)
      BY <1>1, <1>4, <2>2, JobType DEF InStage
    <3>2. Len(job[si].cmds) \in Nat /\ Len(job) \in Nat
      BY <3>1, JobType
    <3>3. InPlan(job, si, ci + 1)
      BY <1>1, <1>4, <3>1, <3>2 DEF InPlan, InStage
    <3> QED BY <2>1, <2>2, <3>3 DEF OnCourse
  <2> QED BY <2>1, <2>2 DEF OnCourse
<1>5. CASE h = g /\ job # NoJob /\ si <= Len(job) /\ GiveUp /\ UNCHANGED base
  <2>1. failed' # {} /\ base' = base /\ job' = job
        /\ ((si' = si /\ ci' = ci) \/ (si' = si + 1 /\ ci' = 1))
    BY <1>5 DEF GiveUp, NextStage, EndJob
  <2>2. job \in Seq(Stage) /\ si \in 1 .. Len(job)
    BY <1>1, <1>5, JobType
  <2>3. InPlan(job, si + 1, 1)
    BY <1>1, <2>2, RightNextStage
  <2> QED BY <1>5, <2>1, <2>3 DEF OnCourse
<1>6. CASE h = g /\ job # NoJob /\ StageDone /\ UNCHANGED base
  <2>1. /\ UNCHANGED <<job, failed, skipped, base>> /\ si' = si + 1 /\ ci' = 1
        /\ si <= Len(job) /\ ci > Len(job[si].cmds)
    BY <1>6 DEF StageDone, NextStage
  <2>2. job \in Seq(Stage) /\ si \in 1 .. Len(job)
    BY <1>1, <1>6, <2>1, JobType
  <2>3. Len(job[si].cmds) \in Nat
    BY <2>2, JobType
  <2>4. ci = Len(job[si].cmds) + 1
    BY <1>1, <1>6, <2>1, <2>2, <2>3 DEF OnCourse, InPlan
  <2>5. InPlan(job, si + 1, 1)
        /\ (Right(g, job, base, si, Len(job[si].cmds) + 1) => Right(g, job, base, si + 1, 1))
    BY <1>1, <2>2, RightNextStage
  <2> QED BY <1>6, <2>1, <2>4, <2>5 DEF OnCourse
<1>7. ASSUME NEW j \in Jobs, h = g, StartJob(j), base' = g.mem, FromMarks(j, g.mem)
      PROVE  OnCourse(h)'
  <2>1. job' = j /\ si' = 1 /\ ci' = 1 /\ j \in Seq(Stage)
    BY <1>1, <1>7 DEF StartJob
  <2>2. InPlan(j, 1, 1) /\ Right(g, j, g.mem, 1, 1)
    BY <2>1, RightAtStart
  <2> QED BY <1>7, <2>1, <2>2 DEF OnCourse
<1> QED BY <1>2, <1>3, <1>4, <1>5, <1>6, <1>7 DEF Moves

\* A phone that has just been booted is on course: nothing runs yet.
LEMMA InitDelivers ==
  ASSUME Init
  PROVE  DeliveryInv
<1>1. hst = "menu" /\ job = NoJob /\ h2d = <<>> /\ dst = "opcode"
  BY DEF Init, HostInit, WireInit, PreloaderInit
<1>2. flash \in Flash
  BY InitIInv DEF IInv, TypeOK
<1>3. Settled = flash
  BY <1>1, SettledIs DEF Underway, Finish
<1>4. Behind(flash)
  BY <1>1, <1>3, BehindAtRest
<1> QED BY <1>1, <1>2, <1>4 DEF DeliveryInv, OnCourse

\* Every step of a session keeps the delivery.
LEMMA NextDelivers ==
  ASSUME \A j \in Jobs : Planned(j), IInv, [Next]_vars, DeliveryInv
  PROVE  DeliveryInv'
<1> SUFFICES ASSUME Connected' PROVE \E g \in Flash : Behind(g)' /\ OnCourse(g)'
  BY DEF DeliveryInv
<1>1. CASE Connected
  <2>1. PICK g \in Flash : Behind(g) /\ OnCourse(g)
    BY <1>1 DEF DeliveryInv
  <2>2. PICK h \in Flash : Behind(h)' /\ Moves(g, h)
    BY <1>1, <2>1, Advance
  <2>3. OnCourse(h)'
    BY <2>1, <2>2, MovesOnCourse DEF IInv
  <2> QED BY <2>2, <2>3
<1>2. CASE ~Connected
  <2>1. Restart
    BY <1>2, Reconnected
  <2>2. PICK h \in Flash : Behind(h)'
    BY <2>1, RestartBehind
  <2>3. OnCourse(h)'
    BY <2>1 DEF Restart, OnCourse
  <2> QED BY <2>2, <2>3
<1> QED BY <1>1, <1>2

\* Between two commands the flash behind the host is the flash as it will be.
LEMMA DeliversThen ==
  ASSUME DeliveryInv
  PROVE  Delivered
<1> SUFFICES ASSUME hst \in {"issue", "back", "menu"}, job # NoJob, link = "up", dst # "gone",
                    failed = {}, skipped = {}
             PROVE  Settled.mem = Expected
  BY DEF Delivered
<1>1. PICK g \in Flash : Behind(g) /\ OnCourse(g)
  BY DEF DeliveryInv, Connected
<1>2. g = Settled
  BY <1>1, BehindAtRest
<1>3. Right(g, job, base, si, ci)
  BY <1>1 DEF OnCourse
<1> QED BY <1>2, <1>3 DEF Right, At, Expected

\* Whatever faults occur and whenever the user stops: as long as the host has
\* given nothing up, the flash holds, or will once the device is done, exactly
\* what the commands the host is past were meant to make of it.
THEOREM DeliveredAsMeant ==
  ASSUME \A j \in Jobs : Planned(j)
  PROVE  Spec => []Delivered
<1>1. Init => DeliveryInv
  BY InitDelivers
<1>2. IInv /\ DeliveryInv /\ [Next]_vars => DeliveryInv'
  BY NextDelivers
<1>3. DeliveryInv => Delivered
  BY DeliversThen
<1> QED BY <1>1, <1>2, <1>3, SessionInvariant, PTL DEF Spec

-----------------------------------------------------------------------------
(* The jobs of the menu are planned.                                       *)

\* The commands that need nothing.
Modest == {"JUMP", "BLK_LOCK", "BLK_UNLOCK"} \cup Reading

\* The stages main.c puts together.
StageOf(j, i) ==
  \/ \E first \in Blocks, images \in Seq(Puts) :
       first + Len(images) - 1 <= LastBlock /\ j[i] = BinStage(first, images)
  \/ \E acts : FreshActs(acts) /\ j[i] = TfsStage(acts)
  \/ \E acts : CleanActs(acts) /\ j[i] = CscStage(acts)
  \/ \E ctrl \in Seq(Blocks) : j[i] = MarksStage(ctrl)
  \/ \E lo, hi \in Blocks : lo <= hi /\ j[i] \in {DumpJob(lo, hi)[1], EraseJob(lo, hi)[1]}
  \/ j[i] \in {JumpStage, CompleteStage, OtpJob[1], IdJob[1], EraseChipJob[1], EraseChipJob[3]}
  \/ j[i] = EraseChipJob[2] /\ i > 1 /\ j[i - 1] = EraseChipJob[1]

\* A command without a payload.
LEMMA PlainType ==
  ASSUME NEW op \in Ops, NEW b \in Blocks
  PROVE  Plain(op, b) \in Cmd
<1>1. NoPut \in Puts
  BY DEF NoPut, Puts
<1> QED BY <1>1 DEF Plain, Cmd

\* op on each block of a range, in order.
LEMMA SweepIs ==
  ASSUME NEW op \in Ops, NEW lo \in Blocks, NEW hi \in Blocks, lo <= hi
  PROVE  /\ Sweep(op, lo, hi) \in Seq(Cmd) /\ Len(Sweep(op, lo, hi)) = hi - lo + 1
         /\ \A n \in 1 .. hi - lo + 1 : /\ Sweep(op, lo, hi)[n].op = op
                                        /\ Sweep(op, lo, hi)[n].blk = lo + n - 1
                                        /\ DOMAIN Sweep(op, lo, hi)[n].put = {}
<1>1. hi - lo + 1 \in Nat /\ \A n \in 1 .. hi - lo + 1 : lo + n - 1 \in Blocks
  BY ChipAssumption DEF Blocks
<1>2. \A b \in Blocks : Plain(op, b) \in Cmd
  BY PlainType
<1>3. \A b : Plain(op, b).op = op /\ Plain(op, b).blk = b /\ DOMAIN Plain(op, b).put = {}
  BY DEF Plain, NoPut
<1> DEFINE N == hi - lo + 1
<1>4. Sweep(op, lo, hi) = [i \in 1 .. N |-> Plain(op, lo + i - 1)]
  BY DEF Sweep
<1>5. Sweep(op, lo, hi) \in [1 .. N -> Cmd]
  BY <1>1, <1>2, <1>4
<1> HIDE DEF N
<1>6. Sweep(op, lo, hi) \in Seq(Cmd) /\ Len(Sweep(op, lo, hi)) = N
  BY <1>1, <1>5 DEF N
<1> QED BY <1>1, <1>3, <1>4, <1>6 DEF N

\* Every command of cs comes right after the unlock of its block.
LEMMA UnlockingIs ==
  ASSUME NEW cs \in Seq(Cmd)
  PROVE  /\ Len(Unlocking(cs)) = 2 * Len(cs)
         /\ \A k \in 1 .. 2 * Len(cs) :
              \/ Unlocking(cs)[k].op = "BLK_UNLOCK"
              \/ /\ k - 1 \in 1 .. 2 * Len(cs) /\ Unlocking(cs)[k - 1].op = "BLK_UNLOCK"
                 /\ \E m \in 1 .. Len(cs) : Unlocking(cs)[k] = cs[m]
                                            /\ Unlocking(cs)[k - 1].blk = cs[m].blk
<1> DEFINE N == 2 * Len(cs)
           u == Unlocking(cs)
<1>1. Len(cs) \in Nat /\ N \in Nat
  OBVIOUS
<1>2. u = [i \in 1 .. N |-> IF i % 2 = 1 THEN Plain("BLK_UNLOCK", cs[(i + 1) \div 2].blk)
                            ELSE cs[(i + 1) \div 2]]
  BY DEF Unlocking
<1>3. Len(u) = N
  BY <1>1, <1>2
<1>4. ASSUME NEW k \in 1 .. N, k % 2 = 1
      PROVE  u[k].op = "BLK_UNLOCK"
  BY <1>2, <1>4 DEF Plain
<1>5. ASSUME NEW k \in 1 .. N, k % 2 # 1
      PROVE  /\ k - 1 \in 1 .. N /\ u[k - 1].op = "BLK_UNLOCK"
             /\ \E m \in 1 .. Len(cs) : u[k] = cs[m] /\ u[k - 1].blk = cs[m].blk
  <2> DEFINE m == (k + 1) \div 2
  <2>1. k - 1 \in 1 .. N /\ (k - 1) % 2 = 1 /\ m \in 1 .. Len(cs) /\ ((k - 1) + 1) \div 2 = m
    BY <1>1, <1>5
  <2>2. u[k] = cs[m] /\ u[k - 1] = Plain("BLK_UNLOCK", cs[m].blk)
    BY <1>2, <1>5, <2>1
  <2> HIDE DEF m, u
  <2> QED BY <2>1, <2>2 DEF Plain
<1> QED BY <1>3, <1>4, <1>5

\* Two stretches of commands, one after the other.
LEMMA Joined ==
  ASSUME NEW s \in Seq(Cmd), NEW t \in Seq(Cmd)
  PROVE  /\ s \o t \in Seq(Cmd) /\ Len(s \o t) = Len(s) + Len(t)
         /\ Len(s) \in Nat /\ Len(t) \in Nat
         /\ \A k \in 1 .. Len(s) : (s \o t)[k] = s[k]
         /\ \A k \in 1 .. Len(t) : (s \o t)[Len(s) + k] = t[k]
         /\ \A k \in 1 .. Len(s \o t) : k \in 1 .. Len(s) \/ k - Len(s) \in 1 .. Len(t)
OBVIOUS

\* A stage that only reads, or only sets locks, needs nothing.
LEMMA ModestPrepared ==
  ASSUME NEW j, NEW i, NEW k, j[i].cmds[k].op \in Modest
  PROVE  Prepared(j, i, k)
BY DEF Prepared, Modest, Reading

\* A stage that unlocks each block it erases or programs.
LEMMA UnlockingPrepared ==
  ASSUME NEW j, NEW i, NEW cs \in Seq(Cmd), j[i].cmds = Unlocking(cs),
         \A m \in 1 .. Len(cs) : cs[m].op \in {"BLK_ERASE", "BLK_PROGRAM"},
         NEW k \in 1 .. 2 * Len(cs)
  PROVE  Prepared(j, i, k)
<1> DEFINE u == Unlocking(cs)
<1>1. CASE u[k].op = "BLK_UNLOCK"
  BY <1>1, ModestPrepared DEF Modest
<1>2. CASE u[k].op # "BLK_UNLOCK"
  <2>1. PICK m \in 1 .. Len(cs) : /\ k - 1 \in 1 .. 2 * Len(cs) /\ u[k - 1].op = "BLK_UNLOCK"
                                  /\ u[k] = cs[m] /\ u[k - 1].blk = cs[m].blk
    BY <1>2, UnlockingIs
  <2>2. UnlockedBy(u, k, u[k].blk)
    <3>1. k - 1 \in 1 .. k - 1 /\ (k - 1) + 1 .. k - 1 = {}
      BY <2>1
    <3> QED BY <2>1, <3>1 DEF UnlockedBy
  <2>3. u[k].op \in {"BLK_ERASE", "BLK_PROGRAM"}
    BY <2>1
  <2> HIDE DEF u
  <2> QED BY <2>2, <2>3 DEF Prepared, u
<1> QED BY <1>1, <1>2

\* The size of the TFS area.
Area == TfsLast - TfsFirst + 1

\* The commands that open the TFS area, erase it and lock it again.
LEMMA AreaSweeps ==
  ASSUME NEW op \in {"BLK_UNLOCK", "BLK_ERASE", "BLK_LOCK"}
  PROVE  /\ Area \in Nat
         /\ Sweep(op, TfsFirst, TfsLast) \in Seq(Cmd) /\ Len(Sweep(op, TfsFirst, TfsLast)) = Area
         /\ \A n \in 1 .. Area : /\ Sweep(op, TfsFirst, TfsLast)[n].op = op
                                 /\ Sweep(op, TfsFirst, TfsLast)[n].blk = TfsFirst + n - 1
                                 /\ DOMAIN Sweep(op, TfsFirst, TfsLast)[n].put = {}
<1>1. op \in Ops
  BY DEF Ops
<1>2. Area \in Nat /\ TfsFirst \in Int /\ TfsLast \in Int
  BY TfsAssumption, ChipAssumption DEF Area, Blocks
<1> QED BY <1>1, <1>2, SweepIs, TfsAssumption DEF Area

\* A block of the area is one of those the sweeps go through.
LEMMA AreaBlocks ==
  ASSUME NEW b \in TfsBlocks
  PROVE  \E n \in 1 .. Area : b = TfsFirst + n - 1
<1>1. TfsFirst \in Int /\ TfsLast \in Int
  BY TfsAssumption, ChipAssumption DEF Blocks
<1>2. b - TfsFirst + 1 \in 1 .. Area /\ b = TfsFirst + (b - TfsFirst + 1) - 1
  BY <1>1 DEF TfsBlocks, Area
<1> QED BY <1>2

\* The commands of a .tfs, in their order.
LEMMA TfsStageIs ==
  ASSUME NEW acts \in Seq(Cmd)
  PROVE  LET cmds == TfsStage(acts).cmds
         IN /\ Area \in Nat /\ Len(acts) \in Nat /\ Len(cmds) = 3 * Area + Len(acts)
            /\ \A n \in 1 .. Area :
                 /\ cmds[n].op = "BLK_UNLOCK" /\ cmds[n].blk = TfsFirst + n - 1
                 /\ cmds[Area + n].op = "BLK_ERASE" /\ cmds[Area + n].blk = TfsFirst + n - 1
                 /\ DOMAIN cmds[n].put = {} /\ DOMAIN cmds[Area + n].put = {}
                 /\ cmds[2 * Area + Len(acts) + n].op = "BLK_LOCK"
                 /\ cmds[2 * Area + Len(acts) + n].blk = TfsFirst + n - 1
            /\ \A n \in 1 .. Len(acts) : cmds[2 * Area + n] = acts[n]
<1> DEFINE open == ProtectRange(FALSE, TfsFirst, TfsLast)
           wipe == Sweep("BLK_ERASE", TfsFirst, TfsLast)
           shut == ProtectRange(TRUE, TfsFirst, TfsLast)
<1>1. /\ Area \in Nat /\ Len(acts) \in Nat
      /\ open \in Seq(Cmd) /\ wipe \in Seq(Cmd) /\ shut \in Seq(Cmd)
      /\ Len(open) = Area /\ Len(wipe) = Area /\ Len(shut) = Area
      /\ \A n \in 1 .. Area :
           /\ open[n].op = "BLK_UNLOCK" /\ open[n].blk = TfsFirst + n - 1 /\ DOMAIN open[n].put = {}
           /\ wipe[n].op = "BLK_ERASE" /\ wipe[n].blk = TfsFirst + n - 1 /\ DOMAIN wipe[n].put = {}
           /\ shut[n].op = "BLK_LOCK" /\ shut[n].blk = TfsFirst + n - 1
  BY AreaSweeps DEF ProtectRange
<1>2. TfsStage(acts).cmds = open \o wipe \o acts \o shut
  BY DEF TfsStage
<1> HIDE DEF open, wipe, shut
<1> DEFINE two == open \o wipe
           three == two \o acts
<1>3. /\ two \in Seq(Cmd) /\ Len(two) = 2 * Area
      /\ \A n \in 1 .. Area : two[n] = open[n] /\ two[Area + n] = wipe[n]
  <2>1. /\ two \in Seq(Cmd) /\ Len(two) = Len(open) + Len(wipe)
        /\ \A k \in 1 .. Len(open) : two[k] = open[k]
        /\ \A k \in 1 .. Len(wipe) : two[Len(open) + k] = wipe[k]
    <3>1. open \in Seq(Cmd) /\ wipe \in Seq(Cmd)
      BY <1>1
    <3> QED BY <3>1, Joined
  <2> HIDE DEF two
  <2> QED BY <1>1, <2>1
<1> HIDE DEF two
<1>4. /\ three \in Seq(Cmd) /\ Len(three) = 2 * Area + Len(acts)
      /\ \A n \in 1 .. 2 * Area : three[n] = two[n]
      /\ \A n \in 1 .. Len(acts) : three[2 * Area + n] = acts[n]
  <2>1. /\ three \in Seq(Cmd) /\ Len(three) = Len(two) + Len(acts)
        /\ \A k \in 1 .. Len(two) : three[k] = two[k]
        /\ \A k \in 1 .. Len(acts) : three[Len(two) + k] = acts[k]
    <3>1. two \in Seq(Cmd) /\ acts \in Seq(Cmd)
      BY <1>1, <1>3
    <3> QED BY <3>1, Joined
  <2> HIDE DEF three
  <2> QED BY <1>1, <1>3, <2>1
<1> HIDE DEF three
<1> DEFINE cmds == three \o shut
<1>5. /\ Len(cmds) = 3 * Area + Len(acts)
      /\ \A n \in 1 .. 2 * Area + Len(acts) : cmds[n] = three[n]
      /\ \A n \in 1 .. Area : cmds[2 * Area + Len(acts) + n] = shut[n]
  <2>1. /\ cmds \in Seq(Cmd) /\ Len(cmds) = Len(three) + Len(shut)
        /\ \A k \in 1 .. Len(three) : cmds[k] = three[k]
        /\ \A k \in 1 .. Len(shut) : cmds[Len(three) + k] = shut[k]
    <3>1. three \in Seq(Cmd) /\ shut \in Seq(Cmd)
      BY <1>1, <1>4
    <3> QED BY <3>1, Joined
  <2> HIDE DEF cmds
  <2> QED BY <1>1, <1>4, <2>1
<1>6. TfsStage(acts).cmds = cmds
  BY <1>2 DEF two, three
<1> HIDE DEF cmds
<1>7. ASSUME NEW n \in 1 .. Area
      PROVE  cmds[n] = open[n] /\ cmds[Area + n] = wipe[n]
  <2>1. /\ n \in 1 .. 2 * Area + Len(acts) /\ Area + n \in 1 .. 2 * Area + Len(acts)
        /\ n \in 1 .. 2 * Area /\ Area + n \in 1 .. 2 * Area
    BY <1>1
  <2> QED BY <1>3, <1>4, <1>5, <2>1
<1>8. ASSUME NEW n \in 1 .. Len(acts)
      PROVE  cmds[2 * Area + n] = acts[n]
  <2>1. 2 * Area + n \in 1 .. 2 * Area + Len(acts)
    BY <1>1
  <2> QED BY <1>4, <1>5, <2>1
<1> QED BY <1>1, <1>5, <1>6, <1>7, <1>8

\* The same of a .csc, which erases nothing at first.
LEMMA CscStageIs ==
  ASSUME NEW acts \in Seq(Cmd)
  PROVE  LET cmds == CscStage(acts).cmds
         IN /\ Area \in Nat /\ Len(acts) \in Nat /\ Len(cmds) = 2 * Area + Len(acts)
            /\ \A n \in 1 .. Area :
                 /\ cmds[n].op = "BLK_UNLOCK" /\ cmds[n].blk = TfsFirst + n - 1
                 /\ cmds[Area + Len(acts) + n].op = "BLK_LOCK"
                 /\ cmds[Area + Len(acts) + n].blk = TfsFirst + n - 1
            /\ \A n \in 1 .. Len(acts) : cmds[Area + n] = acts[n]
<1> DEFINE open == ProtectRange(FALSE, TfsFirst, TfsLast)
           shut == ProtectRange(TRUE, TfsFirst, TfsLast)
<1>1. /\ Area \in Nat /\ Len(acts) \in Nat
      /\ open \in Seq(Cmd) /\ shut \in Seq(Cmd) /\ Len(open) = Area /\ Len(shut) = Area
      /\ \A n \in 1 .. Area :
           /\ open[n].op = "BLK_UNLOCK" /\ open[n].blk = TfsFirst + n - 1
           /\ shut[n].op = "BLK_LOCK" /\ shut[n].blk = TfsFirst + n - 1
  BY AreaSweeps DEF ProtectRange
<1>2. CscStage(acts).cmds = open \o acts \o shut
  BY DEF CscStage
<1> HIDE DEF open, shut
<1> DEFINE two == open \o acts
<1>3. /\ two \in Seq(Cmd) /\ Len(two) = Area + Len(acts)
      /\ \A n \in 1 .. Area : two[n] = open[n]
      /\ \A n \in 1 .. Len(acts) : two[Area + n] = acts[n]
  <2>1. /\ two \in Seq(Cmd) /\ Len(two) = Len(open) + Len(acts)
        /\ \A k \in 1 .. Len(open) : two[k] = open[k]
        /\ \A k \in 1 .. Len(acts) : two[Len(open) + k] = acts[k]
    <3>1. open \in Seq(Cmd) /\ acts \in Seq(Cmd)
      BY <1>1
    <3> QED BY <3>1, Joined
  <2> HIDE DEF two
  <2> QED BY <1>1, <2>1
<1> HIDE DEF two
<1> DEFINE cmds == two \o shut
<1>4. /\ Len(cmds) = 2 * Area + Len(acts)
      /\ \A n \in 1 .. Area + Len(acts) : cmds[n] = two[n]
      /\ \A n \in 1 .. Area : cmds[Area + Len(acts) + n] = shut[n]
  <2>1. /\ cmds \in Seq(Cmd) /\ Len(cmds) = Len(two) + Len(shut)
        /\ \A k \in 1 .. Len(two) : cmds[k] = two[k]
        /\ \A k \in 1 .. Len(shut) : cmds[Len(two) + k] = shut[k]
    <3>1. two \in Seq(Cmd) /\ shut \in Seq(Cmd)
      BY <1>1, <1>3
    <3> QED BY <3>1, Joined
  <2> HIDE DEF cmds
  <2> QED BY <1>1, <1>3, <2>1
<1>5. CscStage(acts).cmds = cmds
  BY <1>2 DEF two
<1> HIDE DEF cmds
<1>6. ASSUME NEW n \in 1 .. Area
      PROVE  cmds[n] = open[n]
  <2>1. n \in 1 .. Area + Len(acts)
    BY <1>1
  <2> QED BY <1>3, <1>4, <2>1
<1>7. ASSUME NEW n \in 1 .. Len(acts)
      PROVE  cmds[Area + n] = acts[n]
  <2>1. Area + n \in 1 .. Area + Len(acts)
    BY <1>1
  <2> QED BY <1>3, <1>4, <2>1
<1> QED BY <1>1, <1>4, <1>5, <1>6, <1>7

\* In a .tfs every block is unlocked before it is erased, and every page
\* blank when it is written.
LEMMA TfsPrepared ==
  ASSUME NEW j, NEW i, NEW acts, FreshActs(acts), j[i] = TfsStage(acts),
         NEW k \in 1 .. 3 * Area + Len(acts)
  PROVE  Prepared(j, i, k)
<1> DEFINE cmds == TfsStage(acts).cmds
           A == Len(acts)
<1>1. /\ Area \in Nat /\ A \in Nat /\ Len(cmds) = 3 * Area + A
      /\ \A n \in 1 .. Area :
           /\ cmds[n].op = "BLK_UNLOCK" /\ cmds[n].blk = TfsFirst + n - 1
           /\ cmds[Area + n].op = "BLK_ERASE" /\ cmds[Area + n].blk = TfsFirst + n - 1
           /\ DOMAIN cmds[n].put = {} /\ DOMAIN cmds[Area + n].put = {}
           /\ cmds[2 * Area + A + n].op = "BLK_LOCK"
      /\ \A n \in 1 .. A : cmds[2 * Area + n] = acts[n]
  BY TfsStageIs DEF FreshActs
<1>2. j[i].cmds = cmds /\ j[i].name = "tfs"
  BY DEF TfsStage
<1>3. Area \in Nat /\ A \in Nat /\ k \in Int
  BY <1>1
<1> HIDE DEF cmds, A
<1>4. CASE k \in 1 .. Area
  <2>1. cmds[k].op = "BLK_UNLOCK"
    BY <1>1, <1>4
  <2> QED BY <1>2, <2>1, ModestPrepared DEF Modest
<1>5. CASE k - Area \in 1 .. Area
  <2> DEFINE n == k - Area
  <2>1. n \in 1 .. Area /\ k = Area + n
    BY <1>1, <1>5
  <2> HIDE DEF n
  <2>2. cmds[k].op = "BLK_ERASE" /\ cmds[n].op = "BLK_UNLOCK" /\ cmds[n].blk = cmds[k].blk
    BY <1>1, <2>1
  <2>3. \A m \in n + 1 .. k - 1 : cmds[m].op \notin Locking
    <3> SUFFICES ASSUME NEW m \in n + 1 .. k - 1 PROVE cmds[m].op \notin Locking
      OBVIOUS
    <3>1. m \in 1 .. Area \/ m - Area \in 1 .. Area
      BY <1>1, <2>1
    <3>2. m \in 1 .. Area => cmds[m].op = "BLK_UNLOCK"
      BY <1>1
    <3>3. m - Area \in 1 .. Area => cmds[m].op = "BLK_ERASE"
      <4>1. m = Area + (m - Area)
        BY <1>1, <2>1
      <4> QED BY <1>1, <4>1
    <3> QED BY <3>1, <3>2, <3>3 DEF Locking
  <2>4. n \in 1 .. k - 1
    BY <1>1, <2>1
  <2>5. UnlockedBy(cmds, k, cmds[k].blk)
    BY <2>2, <2>3, <2>4 DEF UnlockedBy
  <2> QED BY <1>2, <2>2, <2>5 DEF Prepared
<1>6. CASE k - 2 * Area \in 1 .. A
  <2> DEFINE a == k - 2 * Area
             c == acts[a]
  <2>1. a \in 1 .. A /\ cmds[k] = c /\ k = 2 * Area + a
    BY <1>1, <1>6
  <2>2. /\ c.op \in {"SECT_WRITE", "MARK_SECT"} /\ c.blk \in TfsBlocks
        /\ c.op = "SECT_WRITE" =>
             /\ ~c.erase
             /\ \A m \in 1 .. a - 1 : acts[m].blk = c.blk => DOMAIN acts[m].put \cap DOMAIN c.put = {}
        /\ c.op = "MARK_SECT" => \A s \in DOMAIN c.put : c.put[s] = [data |-> Erased, mark |-> 0]
    BY <2>1 DEF FreshActs, A
  <2> HIDE DEF a, c
  <2>3. ASSUME c.op = "SECT_WRITE", NEW s \in DOMAIN c.put
        PROVE  BlankBy(cmds, k, c.blk, s)
    <3>1. PICK b \in 1 .. Area : c.blk = TfsFirst + b - 1
      BY <2>2, AreaBlocks
    <3> DEFINE n == Area + b
    <3>2. n \in 1 .. k - 1
      BY <1>3, <2>1
    <3>3. n \in 1 .. k - 1 /\ cmds[n].op = "BLK_ERASE" /\ cmds[n].blk = c.blk
      BY <1>1, <3>1, <3>2
    <3>4. ASSUME NEW m \in n + 1 .. k - 1
          PROVE  ~(cmds[m].blk = c.blk /\ s \in DOMAIN cmds[m].put)
      <4>1. m - Area \in 1 .. Area \/ m - 2 * Area \in 1 .. a - 1
        BY <1>1, <2>1, <3>1
      <4>2. CASE m - Area \in 1 .. Area
        <5>1. m = Area + (m - Area)
          BY <1>1, <3>1
        <5>2. DOMAIN cmds[m].put = {}
          BY <1>1, <4>2, <5>1
        <5> QED BY <5>2
      <4>3. CASE m - 2 * Area \in 1 .. a - 1
        <5> DEFINE x == m - 2 * Area
        <5>1. m = 2 * Area + x /\ x \in 1 .. A /\ x \in 1 .. a - 1
          <6>1. m \in Int
            OBVIOUS
          <6> QED BY <1>3, <2>1, <4>3, <6>1
        <5> HIDE DEF x
        <5>2. cmds[m] = acts[x]
          BY <1>1, <5>1
        <5> QED BY <2>2, <2>3, <5>1, <5>2
      <4> QED BY <4>1, <4>2, <4>3
    <3> HIDE DEF n
    <3> QED BY <3>3, <3>4 DEF BlankBy
  <2> QED BY <1>2, <2>1, <2>2, <2>3 DEF Prepared
<1>7. CASE k - (2 * Area + A) \in 1 .. Area
  <2> DEFINE n == k - (2 * Area + A)
  <2>1. k = 2 * Area + A + n /\ n \in 1 .. Area
    BY <1>3, <1>7
  <2> HIDE DEF n
  <2>2. cmds[k].op = "BLK_LOCK"
    BY <1>1, <2>1
  <2> QED BY <1>2, <2>2, ModestPrepared DEF Modest
<1>8. k \in 1 .. Area \/ k - Area \in 1 .. Area \/ k - 2 * Area \in 1 .. A \/ k - (2 * Area + A) \in 1 .. Area
  BY <1>1 DEF A
<1> QED BY <1>4, <1>5, <1>6, <1>7, <1>8

\* In a .csc every block is unlocked when a sector write erases it.
LEMMA CscPrepared ==
  ASSUME NEW j, NEW i, NEW acts, CleanActs(acts), j[i] = CscStage(acts),
         NEW k \in 1 .. 2 * Area + Len(acts)
  PROVE  Prepared(j, i, k)
<1> DEFINE cmds == CscStage(acts).cmds
           A == Len(acts)
<1>1. /\ Area \in Nat /\ A \in Nat /\ Len(cmds) = 2 * Area + A
      /\ \A n \in 1 .. Area : /\ cmds[n].op = "BLK_UNLOCK" /\ cmds[n].blk = TfsFirst + n - 1
                              /\ cmds[Area + A + n].op = "BLK_LOCK"
      /\ \A n \in 1 .. A : cmds[Area + n] = acts[n]
  BY CscStageIs DEF CleanActs
<1>2. j[i].cmds = cmds /\ j[i].name = "csc"
  BY DEF CscStage
<1>3. Area \in Nat /\ A \in Nat /\ k \in Int
  BY <1>1
<1> HIDE DEF cmds, A
<1>4. CASE k \in 1 .. Area
  <2>1. cmds[k].op = "BLK_UNLOCK"
    BY <1>1, <1>4
  <2> QED BY <1>2, <2>1, ModestPrepared DEF Modest
<1>5. CASE k - Area \in 1 .. A
  <2> DEFINE a == k - Area
             c == acts[a]
  <2>1. a \in 1 .. A /\ cmds[k] = c /\ k = Area + a
    BY <1>1, <1>5
  <2>2. /\ c.op \in {"SECT_WRITE", "MARK_SECT"} /\ c.blk \in TfsBlocks
        /\ c.op = "SECT_WRITE" /\ c.erase => \A m \in 1 .. a - 1 : acts[m].blk # c.blk
        /\ c.op = "MARK_SECT" => \A s \in DOMAIN c.put : c.put[s] = [data |-> Erased, mark |-> 0]
    BY <2>1 DEF CleanActs, A
  <2> HIDE DEF a, c
  <2>3. ASSUME c.op = "SECT_WRITE", c.erase
        PROVE  UnlockedBy(cmds, k, c.blk)
    <3>1. PICK n \in 1 .. Area : c.blk = TfsFirst + n - 1
      BY <2>2, AreaBlocks
    <3>2. n \in 1 .. k - 1 /\ cmds[n].op = "BLK_UNLOCK" /\ cmds[n].blk = c.blk
      BY <1>1, <2>1, <3>1
    <3>3. ASSUME NEW m \in n + 1 .. k - 1
          PROVE  ~(cmds[m].op \in Locking /\ cmds[m].blk = c.blk)
      <4>1. m \in 1 .. Area \/ m - Area \in 1 .. a - 1
        BY <1>1, <2>1, <3>1
      <4>2. CASE m \in 1 .. Area
        BY <1>1, <4>2 DEF Locking
      <4>3. CASE m - Area \in 1 .. a - 1
        <5> DEFINE x == m - Area
        <5>1. m = Area + x /\ x \in 1 .. A /\ x \in 1 .. a - 1
          <6>1. m \in Int
            OBVIOUS
          <6> QED BY <1>3, <2>1, <4>3, <6>1
        <5> HIDE DEF x
        <5>2. cmds[m] = acts[x]
          BY <1>1, <5>1
        <5> QED BY <2>2, <2>3, <5>1, <5>2
      <4> QED BY <4>1, <4>2, <4>3
    <3> QED BY <3>2, <3>3 DEF UnlockedBy
  <2> QED BY <1>2, <2>1, <2>2, <2>3 DEF Prepared
<1>6. CASE k - (Area + A) \in 1 .. Area
  <2> DEFINE n == k - (Area + A)
  <2>1. k = Area + A + n /\ n \in 1 .. Area
    BY <1>3, <1>6
  <2> HIDE DEF n
  <2>2. cmds[k].op = "BLK_LOCK"
    BY <1>1, <2>1
  <2> QED BY <1>2, <2>2, ModestPrepared DEF Modest
<1>7. k \in 1 .. Area \/ k - Area \in 1 .. A \/ k - (Area + A) \in 1 .. Area
  BY <1>1 DEF A
<1> QED BY <1>4, <1>5, <1>6, <1>7

\* A sweep over a range of blocks with a command that needs nothing.
LEMMA SweepPrepared ==
  ASSUME NEW j, NEW i, NEW op \in Ops \cap Modest, NEW lo \in Blocks, NEW hi \in Blocks, lo <= hi,
         j[i].cmds = Sweep(op, lo, hi), NEW k \in 1 .. Len(j[i].cmds)
  PROVE  Prepared(j, i, k)
<1>1. j[i].cmds[k].op = op
  BY SweepIs
<1> QED BY <1>1, ModestPrepared

\* Erase chip: every block has just been unlocked.
LEMMA ChipPrepared ==
  ASSUME NEW j, NEW i, i > 1, j[i] = EraseChipJob[2], j[i - 1] = EraseChipJob[1]
  PROVE  Prepared(j, i, 1)
<1> DEFINE open == Sweep("BLK_UNLOCK", 0, LastBlock)
<1>1. j[i].cmds[1].op = "CHIP_ERASE"
  <2>1. j[i].cmds = <<Plain("CHIP_ERASE", 0)>>
    BY DEF EraseChipJob
  <2>2. Plain("CHIP_ERASE", 0).op = "CHIP_ERASE"
    BY DEF Plain
  <2> QED BY <2>1, <2>2
<1>2. j[i - 1].cmds = open
  BY DEF EraseChipJob, ProtectRange
<1>3. Len(open) = LastBlock + 1 /\ LastBlock \in Nat
      /\ \A n \in 1 .. LastBlock + 1 : open[n].op = "BLK_UNLOCK" /\ open[n].blk = n - 1
  <2>1. 0 \in Blocks /\ LastBlock \in Blocks /\ 0 <= LastBlock /\ LastBlock \in Nat /\ "BLK_UNLOCK" \in Ops
    BY ChipAssumption DEF Blocks, Ops
  <2>2. /\ Len(open) = LastBlock - 0 + 1
        /\ \A n \in 1 .. LastBlock - 0 + 1 : open[n].op = "BLK_UNLOCK" /\ open[n].blk = 0 + n - 1
    BY <2>1, SweepIs
  <2> QED BY <2>1, <2>2
<1> HIDE DEF open
<1>4. ASSUME NEW b \in Blocks
      PROVE  UnlockedBy(open, Len(open) + 1, b)
  <2> DEFINE n == b + 1
  <2>1. n \in 1 .. LastBlock + 1 /\ n - 1 = b /\ (Len(open) + 1) - 1 = LastBlock + 1
    BY <1>3 DEF Blocks
  <2> HIDE DEF n
  <2>2. open[n].op = "BLK_UNLOCK" /\ open[n].blk = b
    BY <1>3, <2>1
  <2>3. \A m \in n + 1 .. LastBlock + 1 : open[m].op \notin Locking
    <3> SUFFICES ASSUME NEW m \in n + 1 .. LastBlock + 1 PROVE open[m].op \notin Locking
      OBVIOUS
    <3>1. m \in 1 .. LastBlock + 1
      BY <1>3, <2>1
    <3> QED BY <1>3, <3>1 DEF Locking
  <2> QED BY <2>1, <2>2, <2>3 DEF UnlockedBy
<1> QED BY <1>1, <1>2, <1>4 DEF Prepared

\* A job made of main.c's stages issues no command before what it needs.
LEMMA MenuPlanned ==
  ASSUME NEW j \in Seq(Stage), \A i \in DOMAIN j : StageOf(j, i)
  PROVE  Planned(j)
<1> SUFFICES ASSUME NEW i \in 1 .. Len(j), NEW k \in 1 .. Len(j[i].cmds)
             PROVE  Prepared(j, i, k)
  BY JobType DEF Planned
<1> DEFINE cmds == j[i].cmds
<1>1. StageOf(j, i) /\ cmds \in Seq(Cmd) /\ cmds[k] \in Cmd /\ Len(cmds) \in Nat
  BY JobType
<1>2. ASSUME NEW first \in Blocks, NEW images \in Seq(Puts),
             first + Len(images) - 1 <= LastBlock, j[i] = BinStage(first, images)
      PROVE  Prepared(j, i, k)
  <2> DEFINE N == Len(images)
             cs == [m \in 1 .. N |-> [op |-> "BLK_PROGRAM", blk |-> first + m - 1,
                                      put |-> images[m], erase |-> FALSE]]
  <2>1. N \in Nat /\ \A m \in 1 .. N : images[m] \in Puts
    OBVIOUS
  <2>2. \A m \in 1 .. N : first + m - 1 \in Blocks
    BY <1>2, <2>1, ChipAssumption DEF Blocks
  <2>3. cs \in [1 .. N -> Cmd]
    BY <2>1, <2>2 DEF Cmd, Ops
  <2>4. \A m \in 1 .. N : cs[m].op = "BLK_PROGRAM"
    OBVIOUS
  <2>5. cmds = Unlocking(cs)
    BY <1>2 DEF BinStage
  <2> HIDE DEF cs, N
  <2>6. cs \in Seq(Cmd) /\ Len(cs) = N
    BY <2>1, <2>3
  <2>7. k \in 1 .. 2 * Len(cs)
    BY <2>5, <2>6, UnlockingIs
  <2> QED BY <2>4, <2>5, <2>6, <2>7, UnlockingPrepared
<1>3. ASSUME NEW acts, FreshActs(acts), j[i] = TfsStage(acts)
      PROVE  Prepared(j, i, k)
  <2>1. Len(cmds) = 3 * Area + Len(acts)
    BY <1>3, TfsStageIs DEF FreshActs
  <2> QED BY <1>3, <2>1, TfsPrepared
<1>4. ASSUME NEW acts, CleanActs(acts), j[i] = CscStage(acts)
      PROVE  Prepared(j, i, k)
  <2>1. Len(cmds) = 2 * Area + Len(acts)
    BY <1>4, CscStageIs DEF CleanActs
  <2> QED BY <1>4, <2>1, CscPrepared
<1>5. ASSUME NEW ctrl \in Seq(Blocks), j[i] = MarksStage(ctrl)
      PROVE  Prepared(j, i, k)
  <2> DEFINE one == <<Plain("READ_SECT_MARKS", TfsFirst)>>
             more == [n \in 1 .. Len(ctrl) |-> Plain("SECT_READ", ctrl[n])]
  <2>1. cmds = one \o more
    BY <1>5 DEF MarksStage
  <2>2. /\ Len(one) = 1 /\ one[1].op = "READ_SECT_MARKS"
        /\ Len(ctrl) \in Nat /\ DOMAIN more = 1 .. Len(ctrl)
        /\ \A n \in 1 .. Len(ctrl) : more[n].op = "SECT_READ"
    BY DEF Plain
  <2>3. Len(more) = Len(ctrl)
    BY <2>2
  <2>4. one \in Seq(Cmd) /\ more \in Seq(Cmd)
    <3>1. /\ Plain("READ_SECT_MARKS", TfsFirst) \in Cmd
          /\ \A n \in 1 .. Len(ctrl) : Plain("SECT_READ", ctrl[n]) \in Cmd
      BY TfsAssumption, PlainType DEF Ops
    <3> QED BY <2>2, <3>1
  <2> HIDE DEF one, more
  <2>5. /\ \A n \in 1 .. Len(one) : cmds[n] = one[n]
        /\ \A n \in 1 .. Len(more) : cmds[Len(one) + n] = more[n]
        /\ k \in 1 .. Len(one) \/ k - Len(one) \in 1 .. Len(more)
    BY <2>1, <2>4, Joined
  <2>6. cmds[k].op \in {"READ_SECT_MARKS", "SECT_READ"}
    <3>1. CASE k \in 1 .. Len(one)
      BY <2>2, <2>5, <3>1
    <3>2. CASE k - Len(one) \in 1 .. Len(more)
      <4> DEFINE n == k - Len(one)
      <4>1. n \in 1 .. Len(more) /\ k = Len(one) + n
        BY <2>2, <3>2
      <4> HIDE DEF n
      <4> QED BY <2>2, <2>3, <2>5, <4>1
    <3> QED BY <2>5, <3>1, <3>2
  <2> QED BY <2>6, ModestPrepared DEF Modest, Reading
<1>6. ASSUME NEW lo \in Blocks, NEW hi \in Blocks, lo <= hi, j[i] = DumpJob(lo, hi)[1]
      PROVE  Prepared(j, i, k)
  <2>1. cmds = Sweep("BLK_READ", lo, hi) /\ "BLK_READ" \in Ops \cap Modest
    BY <1>6 DEF DumpJob, Ops, Modest, Reading
  <2> QED BY <1>6, <2>1, SweepPrepared
<1>7. ASSUME NEW lo \in Blocks, NEW hi \in Blocks, lo <= hi, j[i] = EraseJob(lo, hi)[1]
      PROVE  Prepared(j, i, k)
  <2> DEFINE cs == Sweep("BLK_ERASE", lo, hi)
  <2>1. cmds = Unlocking(cs) /\ "BLK_ERASE" \in Ops
    BY <1>7 DEF EraseJob, Ops
  <2>2. cs \in Seq(Cmd) /\ \A m \in 1 .. Len(cs) : cs[m].op = "BLK_ERASE"
    BY <1>7, <2>1, SweepIs
  <2> HIDE DEF cs
  <2>3. k \in 1 .. 2 * Len(cs)
    BY <2>1, <2>2, UnlockingIs
  <2> QED BY <2>1, <2>2, <2>3, UnlockingPrepared
<1>8. CASE j[i] \in {EraseChipJob[1], EraseChipJob[3]}
  <2>1. cmds = Sweep("BLK_UNLOCK", 0, LastBlock) \/ cmds = Sweep("BLK_LOCK", 0, LastBlock)
    BY <1>8 DEF EraseChipJob, ProtectRange
  <2>2. 0 \in Blocks /\ LastBlock \in Blocks /\ 0 <= LastBlock
        /\ "BLK_UNLOCK" \in Ops \cap Modest /\ "BLK_LOCK" \in Ops \cap Modest
    BY ChipAssumption DEF Blocks, Ops, Modest
  <2> QED BY <2>1, <2>2, SweepPrepared
<1>9. CASE j[i] = EraseChipJob[2] /\ i > 1 /\ j[i - 1] = EraseChipJob[1]
  <2>1. Len(cmds) = 1
    BY <1>9 DEF EraseChipJob
  <2>2. k = 1
    BY <2>1
  <2> QED BY <1>9, <2>2, ChipPrepared
<1>10. CASE j[i] \in {JumpStage, CompleteStage, OtpJob[1], IdJob[1]}
  <2> DEFINE jump == Plain("JUMP", 0)
             otp == Plain("OTP_READ", 0)
             info == Plain("GET_INFO", 0)
  <2>1. cmds \in {<<>>, <<jump>>, <<otp>>, <<info>>}
    BY <1>10 DEF JumpStage, CompleteStage, OtpJob, IdJob
  <2>2. jump.op \in Modest /\ otp.op \in Modest /\ info.op \in Modest
    BY DEF Plain, Modest, Reading
  <2> HIDE DEF cmds, jump, otp, info
  <2>3. CASE cmds = <<>>
    BY <2>3 DEF cmds
  <2>4. \A x : Len(<<x>>) = 1 /\ <<x>>[1] = x
    OBVIOUS
  <2>5. cmds # <<>> => cmds[k].op \in Modest
    BY <2>1, <2>2, <2>4 DEF cmds
  <2> QED BY <2>3, <2>5, ModestPrepared DEF cmds
<1> QED BY <1>1, <1>2, <1>3, <1>4, <1>5, <1>6, <1>7, <1>8, <1>9, <1>10 DEF StageOf

\* The same of every session whose jobs are made of main.c's stages, however
\* large the flash, the images and the file systems.
THEOREM MenuDelivers ==
  ASSUME \A j \in Jobs : \A i \in DOMAIN j : StageOf(j, i)
  PROVE  Spec => []Delivered
<1>1. \A j \in Jobs : Planned(j)
  BY MenuPlanned, JobsAssumption
<1> QED BY <1>1, DeliveredAsMeant
=============================================================================
