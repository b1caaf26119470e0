--------------------------- MODULE TfsFilesProofs ----------------------------
(***************************************************************************)
(* The files of the phone, flash after flash, and its control chain, which *)
(* the next flash can put in order.                                        *)
(***************************************************************************)
EXTENDS TfsCodecProofs

-----------------------------------------------------------------------------
(* The control chain goes on sector by sector, and from the end of a block *)
(* to a block that is farther on.                                          *)

InRuns(c) == \A i \in 1 .. Len(c) - 1 :
  c[i] < c[i + 1] /\ (c[i] # LastOf(BlockOf(c[i])) => c[i + 1] = c[i] + 1)
\* The blocks that chain c may go on to are behind the one it is in.
Ahead(h, c) == \A b \in FreeBlocks(h) : CtrlBlock(c, h.fctrl) < b

OrderHeld ==
  /\ disk # None => InRuns(disk.chain) /\ Ahead(Parsed(disk), disk.chain)
  /\ Working => InRuns(chain) /\ Ahead(hdr, chain)
OrderInv == Plainly => OrderHeld

LEMMA AheadThen ==
  ASSUME NEW g, NEW c, Ahead(g, c), NEW h, NEW d, FreeSectors(h) \subseteq FreeSectors(g),
         CtrlBlock(d, h.fctrl) = CtrlBlock(c, g.fctrl)
  PROVE  Ahead(h, d)
<1>1. \A b \in FreeBlocks(h) : b \in FreeBlocks(g)
  <2> SUFFICES ASSUME NEW b \in 0 .. NumBlocks - 1, \A s \in SectorsOf(b) : h.type[s] = "free"
               PROVE  \A s \in SectorsOf(b) : g.type[s] = "free"
    BY DEF FreeBlocks
  <2>1. SectorsOf(b) \subseteq Sectors
    BY BlocksAre
  <2> QED BY <2>1 DEF FreeSectors
<1> QED BY <1>1 DEF Ahead

LEMMA RunsAppend ==
  ASSUME NEW c \in Seq(Sectors), InRuns(c), NEW s \in Sectors,
         c # <<>> => /\ LastIn(c) < s
                     /\ LastIn(c) # LastOf(BlockOf(LastIn(c))) => s = LastIn(c) + 1
  PROVE  InRuns(Append(c, s))
<1> DEFINE n == Len(c)
           d == Append(c, s)
<1>1. n \in Nat /\ Len(d) = n + 1 /\ d[n + 1] = s /\ \A i \in 1 .. n : d[i] = c[i]
  OBVIOUS
<1> HIDE DEF d
<1>2. ASSUME NEW i \in 1 .. n
      PROVE  d[i] < d[i + 1] /\ (d[i] # LastOf(BlockOf(d[i])) => d[i + 1] = d[i] + 1)
  <2>1. CASE i = n
    <3>1. c # <<>> /\ d[i] = LastIn(c) /\ d[i + 1] = s
      BY <1>1, <2>1 DEF LastIn
    <3> QED BY <3>1
  <2>2. CASE i # n
    <3>1. i \in 1 .. n - 1 /\ i + 1 \in 1 .. n
      BY <1>1, <2>2
    <3>2. d[i] = c[i] /\ d[i + 1] = c[i + 1]
      BY <1>1, <3>1
    <3> QED BY <3>1, <3>2 DEF InRuns
  <2> QED BY <2>1, <2>2
<1> QED BY <1>1, <1>2 DEF InRuns, d

\* A step that leaves the chain and frees nothing.
LEMMA OrderStays ==
  ASSUME OrderHeld, Working, disk' \in {disk, None}, chain' = chain,
         FreeSectors(hdr') \subseteq FreeSectors(hdr), hdr'.fctrl = hdr.fctrl
  PROVE  OrderHeld'
<1>1. InRuns(chain) /\ Ahead(hdr, chain)
  BY DEF OrderHeld
<1> DEFINE h == hdr'
<1>2. FreeSectors(h) \subseteq FreeSectors(hdr) /\ CtrlBlock(chain, h.fctrl) = CtrlBlock(chain, hdr.fctrl)
  OBVIOUS
<1> HIDE DEF h
<1>3. Ahead(h, chain)
  BY <1>1, <1>2, AheadThen
<1> QED BY <1>1, <1>3 DEF OrderHeld, h

LEMMA OrderLeft ==
  ASSUME OrderHeld, pc' \in {"idle", "lost"}, disk' \in {disk, None}
  PROVE  OrderHeld'
  BY DEF OrderHeld, Working

LEMMA OrderBeginTfs ==
  ASSUME OrderHeld, BeginTfs
  PROVE  OrderHeld'
<1>1. disk' = disk /\ hdr' = FreshHeader /\ chain' = <<>>
  BY DEF BeginTfs, phoneVars
<1>2. Ahead(FreshHeader, <<>>)
  <2> SUFFICES ASSUME NEW b \in FreeBlocks(FreshHeader)
               PROVE  BlockOf(FirstOf(1)) < b
    BY DEF Ahead, CtrlBlock, FreshHeader
  <2>1. b \in 0 .. NumBlocks - 1 /\ \A s \in SectorsOf(b) : FreshHeader.type[s] = "free"
    BY DEF FreeBlocks
  <2>2. FirstOf(b) \in SectorsOf(b) /\ FirstOf(b) \in Sectors
    BY <2>1, BlocksAre
  <2>3. FirstOf(b) >= FirstOf(2)
    BY <2>1, <2>2 DEF FreshHeader
  <2>4. 1 \in 0 .. NumBlocks - 1 /\ FirstOf(1) \in SectorsOf(1)
    BY BlockSizeIs, BlocksAre
  <2>5. BlockOf(FirstOf(1)) = 1
    BY <2>4, OfBlock
  <2>6. b >= 2
    <3> SUFFICES ASSUME b <= 1 PROVE FALSE
      BY <2>1, BlockSizeIs
    <3>1. b * BlockSize <= 1 * BlockSize /\ b * BlockSize \in Nat /\ (1 + 1) * BlockSize = 1 * BlockSize + BlockSize
          /\ 1 * BlockSize \in Nat
      BY <2>1, BlockSizeIs, Products
    <3>2. FirstOf(b) = b * BlockSize /\ FirstOf(2) = (1 + 1) * BlockSize
      BY DEF FirstOf
    <3> HIDE DEF FirstOf
    <3> QED BY <2>3, <3>1, <3>2, BlockSizeIs
  <2> QED BY <2>1, <2>5, <2>6, BlockSizeIs
<1>3. InRuns(<<>>)
  BY DEF InRuns
<1> QED BY <1>1, <1>2, <1>3 DEF OrderHeld

LEMMA OrderBeginCsc ==
  ASSUME ListHeld, OrderHeld, Plainly', BeginCsc
  PROVE  OrderHeld'
<1>1. /\ disk # None /\ disk' = disk /\ hdr' = Parsed(disk) /\ chain' = <<>> /\ InOrder(disk)
  BY DEF BeginCsc, phoneVars, Wreck, Taken, Plainly
<1>2. DiskSound /\ disk.fctrl = Parsed(disk).fctrl
  BY <1>1 DEF ListHeld, DiskSound
<1>3. CtrlBlock(<<>>, disk.fctrl) = CtrlBlock(disk.chain, disk.fctrl)
  BY <1>1, <1>2, SameBlock
<1>4. InRuns(disk.chain) /\ Ahead(Parsed(disk), disk.chain)
  BY <1>1 DEF OrderHeld
<1>5. Ahead(Parsed(disk), <<>>)
  BY <1>2, <1>3, <1>4, AheadThen
<1>6. InRuns(<<>>)
  BY DEF InRuns
<1> QED BY <1>1, <1>4, <1>5, <1>6 DEF OrderHeld

-----------------------------------------------------------------------------
(* What the steps of a patch do on their plain path.                       *)

\* What only Act, Seal and a new flash change, and the chain.
Quiet == /\ gen' = gen /\ csc' = csc /\ cell' = cell /\ disk' = disk
         /\ chain' = chain /\ erasing' = erasing /\ hit' = hit

LEMMA StoreDoes ==
  ASSUME ListHeld, Plainly', Store
  PROVE  /\ pc = "file" /\ pc' = "file" /\ Quiet /\ files' = files /\ todo' = todo /\ marks' = marks
         /\ Sound(hdr, chain, files) /\ AtFile /\ todo # <<>> /\ at.i < Head(todo).len
         /\ Head(todo) \in [file : Files, len : Nat]
         /\ at' = [i |-> at.i + 1, frst |-> at.frst]
         /\ acts' = Append(acts, [op |-> "write", sect |-> hdr.free,
                                  what |-> <<Head(todo).file, gen, at.i>>])
         /\ hdr.free \in FreeSectors(hdr) /\ FreeSectors(hdr') = FreeSectors(hdr) \ {hdr.free}
         /\ hdr'.fctrl = hdr.fctrl /\ hdr'.free = hdr.next[hdr.free]
         /\ hdr'.type = [hdr.type EXCEPT ![hdr.free] = IF at.i = 0 THEN "first" ELSE "cont"]
         /\ hdr'.next = [hdr.next EXCEPT ![hdr.free] = IF at.i = Head(todo).len - 1 THEN Nil
                                                       ELSE hdr.next[hdr.free]]
<1> DEFINE x == hdr.free
           ty == IF at.i = 0 THEN "first" ELSE "cont"
           to == IF at.i = Head(todo).len - 1 THEN Nil ELSE hdr.next[x]
<1>1. hdr.free # Nil
  BY ListStore, SectsIs
<1>2. /\ pc = "file" /\ pc' = "file" /\ Quiet /\ files' = files /\ todo' = todo /\ marks' = marks
      /\ todo # <<>> /\ at.i < Head(todo).len
      /\ acts' = Append(acts, [op |-> "write", sect |-> x, what |-> <<Head(todo).file, gen, at.i>>])
      /\ hdr' = [hdr EXCEPT !.type[x] = ty, !.next[x] = to, !.free = hdr.next[x]]
      /\ at' = [at EXCEPT !.i = @ + 1]
  BY <1>1 DEF Store, phoneVars, InFile, Quiet
<1>3. Sound(hdr, chain, files) /\ AtFile
  BY <1>2 DEF ListHeld, Working
<1>4. hdr \in Header /\ Ascends(hdr)
  BY <1>3 DEF Sound
<1>5. x \in FreeSectors(hdr) /\ x \in Sectors
  BY <1>1, <1>4, HeaderIs DEF Ascends, After
<1>6. /\ hdr' = [free |-> hdr.next[x], last |-> hdr.last, fctrl |-> hdr.fctrl,
                 type |-> [hdr.type EXCEPT ![x] = ty], next |-> [hdr.next EXCEPT ![x] = to]]
  <2>1. hdr = [free |-> hdr.free, last |-> hdr.last, fctrl |-> hdr.fctrl,
               type |-> hdr.type, next |-> hdr.next]
    BY <1>4, HeaderIs
  <2> HIDE DEF ty, to, x
  <2> QED BY <1>2, <2>1
<1>7. Head(todo) \in [file : Files, len : Nat]
  <2>1. \A T : todo \in Seq(T) /\ todo # <<>> => Head(todo) \in T
    OBVIOUS
  <2> QED BY <1>2, <1>3, <2>1 DEF AtFile
<1>8. at' = [i |-> at.i + 1, frst |-> at.frst]
  BY <1>2, <1>3 DEF AtFile
<1>9. FreeSectors(hdr') = FreeSectors(hdr) \ {x}
  <2>1. hdr'.type = [hdr.type EXCEPT ![x] = ty] /\ ty # "free"
    BY <1>6
  <2> DEFINE k == hdr'
  <2> HIDE DEF k, x, ty
  <2> QED BY <1>4, <1>5, <2>1, HeaderIs DEF FreeSectors, k
<1> QED BY <1>2, <1>3, <1>5, <1>6, <1>7, <1>8, <1>9

LEMMA EndFileDoes ==
  ASSUME ListHeld, Plainly', EndFile
  PROVE  LET f == Head(todo).file
             old == files[f]
         IN /\ pc = "file" /\ pc' = "file" /\ Quiet /\ acts' = acts /\ marks' = marks
            /\ Sound(hdr, chain, files) /\ AtFile /\ todo # <<>> /\ at.i = Head(todo).len
            /\ Head(todo) \in [file : Files, len : Nat]
            /\ todo' = Tail(todo) /\ at' = [i |-> 0, frst |-> hdr'.free]
            /\ old # None => old.frst \in Sectors /\ at.i # 0
            /\ files' = [files EXCEPT ![f] = [frst |-> IF old = None /\ at.i = 0 THEN None ELSE at.frst,
                                              len |-> at.i, gen |-> gen]]
            /\ FreeSectors(hdr') = FreeSectors(hdr) /\ hdr'.fctrl = hdr.fctrl /\ hdr'.free = hdr.free
            /\ hdr'.next = hdr.next
            /\ hdr'.type = IF old = None THEN hdr.type ELSE [hdr.type EXCEPT ![old.frst] = "unused"]
<1> DEFINE f == Head(todo).file
           h == WithLast(hdr)
           old == files[f]
           k == hdr'
<1>1. /\ pc = "file" /\ pc' = "file" /\ Quiet /\ acts' = acts /\ marks' = marks
      /\ todo # <<>> /\ at.i = Head(todo).len
      /\ old # None => old.frst \in Sectors /\ at.i # 0
      /\ k = IF old = None THEN h ELSE [h EXCEPT !.type[old.frst] = "unused"]
      /\ files' = [files EXCEPT ![f] = [frst |-> IF old = None /\ at.i = 0 THEN None ELSE at.frst,
                                        len |-> at.i, gen |-> gen]]
      /\ todo' = Tail(todo) /\ at' = [i |-> 0, frst |-> hdr'.free]
  <2>1. ~Wreck("empty") /\ ~Wreck("clean") /\ ~Taken("empty")
    BY DEF Wreck, Taken, Plainly
  <2> QED BY <2>1 DEF EndFile, InFile, Enter, phoneVars, Quiet
<1>2. Sound(hdr, chain, files) /\ AtFile
  BY <1>1 DEF ListHeld, Working
<1>3. hdr \in Header /\ DOMAIN files = Files
  BY <1>2 DEF Sound
<1>4. Head(todo) \in [file : Files, len : Nat]
  <2>1. \A T : todo \in Seq(T) /\ todo # <<>> => Head(todo) \in T
    OBVIOUS
  <2> QED BY <1>1, <1>2, <2>1 DEF AtFile
<1> HIDE DEF f, k
<1>5. /\ h \in Header /\ h.fctrl = hdr.fctrl /\ h.type = hdr.type /\ h.next = hdr.next
      /\ h.free = hdr.free /\ FreeSectors(h) = FreeSectors(hdr)
  BY <1>3, WithLastIs
<1> HIDE DEF h
<1>6. /\ k.fctrl = hdr.fctrl /\ k.free = hdr.free /\ k.next = hdr.next
      /\ k.type = IF old = None THEN hdr.type ELSE [hdr.type EXCEPT ![old.frst] = "unused"]
  <2>1. h = [free |-> h.free, last |-> h.last, fctrl |-> h.fctrl, type |-> h.type, next |-> h.next]
    BY <1>5, HeaderIs
  <2> HIDE DEF old
  <2> QED BY <1>1, <1>5, <2>1
<1>7. old # None => old.frst \notin FreeSectors(hdr)
  <2> SUFFICES ASSUME old # None PROVE old.frst \in FirstsOf(files)
    BY <1>2 DEF Sound
  <2>1. f \in Files
    BY <1>4 DEF f
  <2> QED BY <1>1, <2>1 DEF FirstsOf
<1> HIDE DEF old
<1>8. FreeSectors(k) = FreeSectors(hdr)
  BY <1>1, <1>3, <1>6, <1>7, HeaderIs DEF FreeSectors
<1> QED BY <1>1, <1>2, <1>4, <1>6, <1>8 DEF f, k, old

LEMMA InvalidateDoes ==
  ASSUME ListHeld, Plainly', Invalidate
  PROVE  LET x == IF csc THEN disk.chain[1] ELSE 0
         IN /\ pc = "file" /\ pc' = "place" /\ Quiet /\ files' = files /\ todo = <<>>
            /\ Sound(hdr, chain, files) /\ AtFile
            /\ acts' = acts \o MarkActs({s \in Sectors : marks[s] = 240})
            /\ FreeSectors(hdr') = FreeSectors(hdr) /\ hdr'.fctrl = hdr.fctrl
            /\ hdr'.next = hdr.next /\ hdr'.type = [hdr.type EXCEPT ![x] = "unused"]
<1> DEFINE x == IF csc THEN disk.chain[1] ELSE 0
           k == hdr'
<1>1. /\ pc = "file" /\ pc' = "place" /\ Quiet /\ files' = files /\ todo = <<>>
      /\ k = [hdr EXCEPT !.type[x] = "unused"]
      /\ acts' = acts \o MarkActs({s \in Sectors : marks[s] = 240})
  <2>1. ~Wreck("full") /\ ~Wreck("stray")
    BY DEF Wreck, Taken, Plainly
  <2> QED BY <2>1 DEF Invalidate, phoneVars, Quiet
<1>2. Sound(hdr, chain, files) /\ AtFile
  BY <1>1 DEF ListHeld, Working
<1>3. hdr \in Header
  BY <1>2 DEF Sound
<1>4. x \notin FreeSectors(hdr)
  BY <1>2 DEF AtFile
<1> HIDE DEF x, k
<1>5. k.fctrl = hdr.fctrl /\ k.next = hdr.next /\ k.type = [hdr.type EXCEPT ![x] = "unused"]
  <2>1. hdr = [free |-> hdr.free, last |-> hdr.last, fctrl |-> hdr.fctrl,
               type |-> hdr.type, next |-> hdr.next]
    BY <1>3, HeaderIs
  <2> QED BY <1>1, <2>1
<1>6. FreeSectors(k) = FreeSectors(hdr)
  BY <1>3, <1>4, <1>5, HeaderIs DEF FreeSectors
<1> QED BY <1>1, <1>2, <1>5, <1>6 DEF x, k

LEMMA PlaceDoes ==
  ASSUME ListHeld, Plainly', Place
  PROVE  /\ pc = "place" /\ pc' = "place" /\ gen' = gen /\ csc' = csc /\ cell' = cell /\ disk' = disk
         /\ erasing' = erasing /\ hit' = hit /\ files' = files /\ acts' = acts
         /\ Sound(hdr, chain, files)
         /\ \E g, s, ty : PlacesIn(g, s, ty) /\ chain' = Append(chain, s)
<1> DEFINE b == LeastOf(FreeBlocks(hdr))
<1>1. ~Wreck("stray")
  BY DEF Wreck, Taken, Plainly
<1>2. ~(Crossing /\ FreeBlocks(hdr) = {})
  <2> SUFFICES ASSUME Crossing /\ FreeBlocks(hdr) = {} PROVE FALSE
    OBVIOUS
  <2>1. "clean" \in hit'
    BY <1>1 DEF Place
  <2> QED BY <2>1 DEF Plainly
<1>3. ~(Crossing /\ hdr.free = FirstOf(b))
  <2>1. hit' = hit \cup {} \cup (IF Crossing /\ hdr.free = FirstOf(b) THEN {"head"} ELSE {})
    BY <1>1, <1>2 DEF Place
  <2> QED BY <2>1 DEF Plainly
<1>4. hit' = hit /\ erasing' = erasing /\ cell' = cell /\ acts' = acts
  BY <1>1, <1>2, <1>3 DEF Place, phoneVars
<1>5. PICK g, s, ty : PlacesIn(g, s, ty) /\ chain' = Append(chain, s)
  BY PlaceGoes
<1>6. pc = "place" /\ Sound(hdr, chain, files)
  BY PlaceGoes DEF ListHeld, Working
<1> QED BY <1>4, <1>5, <1>6, PlaceGoes

LEMMA PopDoes ==
  ASSUME ListHeld, Plainly', Pop
  PROVE  /\ pc = "pop" /\ pc' = "pop" /\ Quiet /\ files' = files /\ acts' = acts
         /\ Sound(hdr, chain, files)
         /\ hdr.free \in FreeSectors(hdr) /\ FreeSectors(hdr') = FreeSectors(hdr) \ {hdr.free}
         /\ hdr'.fctrl = hdr.fctrl /\ hdr'.next = hdr.next
         /\ hdr'.type = [hdr.type EXCEPT ![hdr.free] = "unused"]
<1> DEFINE x == hdr.free
           k == hdr'
<1>1. /\ pc = "pop" /\ pc' = "pop" /\ hdr.free # Nil /\ Quiet /\ files' = files /\ acts' = acts
      /\ k = [hdr EXCEPT !.type[x] = "unused", !.free = hdr.next[x]]
  <2>1. hdr.free # Nil
    BY DEF Pop, Taken, Plainly
  <2> QED BY <2>1 DEF Pop, phoneVars, Quiet
<1>2. Sound(hdr, chain, files)
  BY <1>1 DEF ListHeld, Working
<1>3. hdr \in Header /\ Ascends(hdr)
  BY <1>2 DEF Sound
<1>4. x \in FreeSectors(hdr) /\ x \in Sectors
  BY <1>1, <1>3, HeaderIs DEF Ascends, After
<1> HIDE DEF x, k
<1>5. k.fctrl = hdr.fctrl /\ k.next = hdr.next /\ k.type = [hdr.type EXCEPT ![x] = "unused"]
  <2>1. hdr = [free |-> hdr.free, last |-> hdr.last, fctrl |-> hdr.fctrl,
               type |-> hdr.type, next |-> hdr.next]
    BY <1>3, HeaderIs
  <2> QED BY <1>1, <2>1
<1>6. FreeSectors(k) = FreeSectors(hdr) \ {x}
  BY <1>3, <1>4, <1>5, HeaderIs DEF FreeSectors
<1> QED BY <1>1, <1>2, <1>4, <1>5, <1>6 DEF x, k

CtrlActs == [i \in DOMAIN chain |-> [op |-> IF chain[i] \in erasing THEN "erase" ELSE "write",
                                     sect |-> chain[i], what |-> <<"ctrl", gen, i>>]]

LEMMA SealDoes ==
  ASSUME ListHeld, Plainly', Seal
  PROVE  /\ pc = "pop" /\ pc' = "flash" /\ gen' = gen /\ csc' = csc /\ chain' = chain
         /\ erasing' = erasing /\ hit' = hit /\ files' = files /\ acts' = acts \o CtrlActs
         /\ IF csc THEN cell' = cell /\ disk' = disk
            ELSE cell' = [s \in Sectors |-> {}] /\ disk' = None
         /\ Sound(hdr, chain, files) /\ chain # <<>>
         /\ FreeSectors(hdr') = FreeSectors(hdr) /\ hdr'.fctrl = hdr.fctrl /\ hdr'.type = hdr.type
         /\ \A s \in Sectors \ ToSet(chain) : hdr'.next[s] = hdr.next[s]
<1> DEFINE nextOf(i) == IF i = Len(chain) THEN Nil ELSE chain[i + 1]
           place(s) == CHOOSE i \in DOMAIN chain : chain[i] = s
           links == [s \in Sectors |-> IF s \in ToSet(chain) THEN nextOf(place(s)) ELSE hdr.next[s]]
           g == [hdr EXCEPT !.next = links]
           k == hdr'
<1>1. /\ pc = "pop" /\ k = WithLast(g) /\ pc' = "flash" /\ chain' = chain /\ files' = files
      /\ gen' = gen /\ csc' = csc /\ erasing' = erasing /\ hit' = hit /\ acts' = acts \o CtrlActs
      /\ IF csc THEN cell' = cell /\ disk' = disk
         ELSE cell' = [s \in Sectors |-> {}] /\ disk' = None
  <2>1. ~Wreck("full") /\ ~Wreck("stray")
    BY DEF Wreck, Taken, Plainly
  <2> QED BY <2>1 DEF Seal, CtrlActs
<1>2. Sound(hdr, chain, files) /\ chain # <<>>
  BY <1>1 DEF ListHeld, Working
<1>3. hdr \in Header /\ chain \in Seq(Sectors) /\ OneByOne(chain)
  BY <1>2 DEF Sound, Chained
<1>4. \A s \in Sectors \ ToSet(chain) : links[s] = hdr.next[s]
  <2> HIDE DEF nextOf, place
  <2> QED OBVIOUS
<1>5. links \in [Sectors -> Sectors \cup {Nil}]
  <2>1. ASSUME NEW s \in Sectors
        PROVE  links[s] \in Sectors \cup {Nil}
    <3>1. CASE s \in ToSet(chain)
      <4>1. PICK i \in DOMAIN chain : chain[i] = s
        BY <3>1 DEF ToSet
      <4>2. i # Len(chain) => i + 1 \in DOMAIN chain
        BY <1>3, <4>1
      <4>3. nextOf(i) \in Sectors \cup {Nil}
        BY <1>3, <4>2
      <4>4. place(s) = i
        BY <1>3, <4>1 DEF OneByOne
      <4>5. links[s] = nextOf(place(s))
        <5> HIDE DEF nextOf, place
        <5> QED BY <3>1
      <4> HIDE DEF links, nextOf, place
      <4> QED BY <4>3, <4>4, <4>5
    <3>2. CASE s \notin ToSet(chain)
      <4> HIDE DEF links
      <4> QED BY <1>3, <1>4, <3>2, HeaderIs
    <3> QED BY <3>1, <3>2
  <2>2. links = [s \in Sectors |-> links[s]]
    <3> HIDE DEF nextOf, place
    <3> QED OBVIOUS
  <2> HIDE DEF links
  <2> QED BY <2>1, <2>2
<1> HIDE DEF links
<1>6. g = [free |-> hdr.free, last |-> hdr.last, fctrl |-> hdr.fctrl, type |-> hdr.type, next |-> links]
  <2>1. hdr = [free |-> hdr.free, last |-> hdr.last, fctrl |-> hdr.fctrl,
               type |-> hdr.type, next |-> hdr.next]
    BY <1>3, HeaderIs
  <2> QED BY <2>1
<1> HIDE DEF g
<1>7. g \in Header
  BY <1>3, <1>5, <1>6, HeaderIs DEF Header
<1> HIDE DEF k
<1>8. k.type = hdr.type /\ k.next = links /\ k.fctrl = hdr.fctrl /\ FreeSectors(k) = FreeSectors(hdr)
  <2>1. k.type = hdr.type /\ k.next = links /\ k.fctrl = hdr.fctrl
    BY <1>1, <1>6, <1>7, WithLastIs
  <2> QED BY <2>1 DEF FreeSectors
<1> QED BY <1>1, <1>2, <1>4, <1>8 DEF k

LEMMA FlashedDoes ==
  ASSUME ListHeld, Plainly', Flashed, ReadBack'
  PROVE  /\ pc = "flash" /\ pc' = "idle" /\ acts = <<>> /\ acts' = acts /\ cell' = cell /\ hit' = hit
         /\ disk'.chain = chain /\ disk'.files = files /\ disk'.gen = gen
         /\ Sound(hdr, chain, files) /\ chain # <<>>
         /\ disk' # None =>
              /\ Parsed(disk').fctrl = hdr.fctrl
              /\ FreeSectors(Parsed(disk')) = FreeSectors(hdr) /\ Firsts(Parsed(disk')) = Firsts(hdr)
              /\ \A s \in Firsts(hdr) : Walk(Parsed(disk').next, s) = Walk(hdr.next, s)
<1> DEFINE d == disk'
           h == Parsed(d)
<1>1. /\ pc = "flash" /\ pc' = "idle" /\ acts = <<>> /\ acts' = acts /\ cell' = cell /\ hit' = hit
      /\ d.chain = chain /\ d.files = files /\ d.gen = gen /\ d.fctrl = hdr.fctrl
      /\ hdr' = hdr /\ gen' = gen
  BY DEF Flashed, patchVars
<1>2. Sound(hdr, chain, files) /\ chain # <<>>
  BY <1>1 DEF ListHeld, Working
<1>3. h.fctrl = d.fctrl
  BY DEF Parsed
<1>4. d # None =>
        /\ FreeSectors(h) = FreeSectors(hdr') /\ Firsts(h) = Firsts(hdr')
        /\ \A s \in Firsts(hdr') : Walk(h.next, s) = Walk(hdr'.next, s)
  BY <1>1 DEF ReadBack, Plainly
<1> HIDE DEF d, h
<1>5. d # None =>
        /\ FreeSectors(h) = FreeSectors(hdr) /\ Firsts(h) = Firsts(hdr)
        /\ \A s \in Firsts(hdr) : Walk(h.next, s) = Walk(hdr.next, s)
  BY <1>1, <1>4
<1> QED BY <1>1, <1>2, <1>3, <1>5 DEF d, h

-----------------------------------------------------------------------------
(* So the chain stays in runs that ascend.                                 *)

LEMMA OrderPlace ==
  ASSUME ListHeld, OrderHeld, Plainly', Place
  PROVE  OrderHeld'
<1>1. /\ pc = "place" /\ disk' = disk /\ Sound(hdr, chain, files)
      /\ \E g, s, ty : PlacesIn(g, s, ty) /\ chain' = Append(chain, s)
  BY PlaceDoes
<1>2. PICK g, s, ty : PlacesIn(g, s, ty) /\ chain' = Append(chain, s)
  BY <1>1
<1>3. InRuns(chain) /\ Ahead(hdr, chain)
  BY <1>1 DEF OrderHeld, Working
<1>4. /\ s \in Sectors /\ g \in Header /\ Rest(s, BlockOf(s)) \cap FreeSectors(g) = {}
      /\ ty # "free"
      /\ hdr' = [free |-> g.free, last |-> g.last, fctrl |-> s + 1,
                 type |-> [g.type EXCEPT ![s] = ty], next |-> g.next]
      /\ IF Crossing
         THEN /\ BlockOf(s) \in FreeBlocks(hdr) /\ s = FirstOf(BlockOf(s))
              /\ \A b \in FreeBlocks(hdr) : BlockOf(s) <= b
         ELSE s = hdr.fctrl /\ g = hdr
  BY <1>2 DEF PlacesIn
<1>5. Chained(chain, hdr.fctrl) /\ hdr \in Header /\ chain \in Seq(Sectors)
  BY <1>1 DEF Sound, Chained
<1>6. FreeSectors(g) \subseteq FreeSectors(hdr)
  <2> SUFFICES ASSUME NEW x \in FreeSectors(g) PROVE x \in FreeSectors(hdr)
    OBVIOUS
  <2>1. x \in Sectors /\ g.type[x] = "free"
    BY DEF FreeSectors
  <2>2. Apart(hdr, g)
    BY <1>2 DEF PlacesIn
  <2> QED BY <2>1, <2>2 DEF Apart, FreeSectors
<1> DEFINE x == LastIn(chain)
<1>7. chain # <<>> => x \in Sectors /\ hdr.fctrl = x + 1
  BY <1>5 DEF Chained, LastIn
<1>8. chain # <<>> => x < s /\ (x # LastOf(BlockOf(x)) => s = x + 1)
  <2> SUFFICES ASSUME chain # <<>> PROVE x < s /\ (x # LastOf(BlockOf(x)) => s = x + 1)
    OBVIOUS
  <2>1. x \in Nat /\ s \in Nat
    BY <1>4, <1>7, SectsIs
  <2>2. CASE Crossing
    <3>1. CtrlBlock(chain, hdr.fctrl) = BlockOf(x) /\ BlockOf(x) < BlockOf(s)
      BY <1>3, <1>4, <2>2 DEF CtrlBlock, Ahead
    <3> HIDE DEF x
    <3> DEFINE p == BlockOf(x)
               q == BlockOf(s)
    <3>2. /\ p \in Nat /\ q \in Nat
          /\ x < p * BlockSize + BlockSize /\ q * BlockSize <= s
      BY <2>1, BlockIs
    <3> HIDE DEF p, q
    <3>3. /\ p * BlockSize \in Nat /\ q * BlockSize \in Nat
          /\ (p + 1) * BlockSize <= q * BlockSize
          /\ (p + 1) * BlockSize = p * BlockSize + BlockSize
      <4>1. p + 1 \in Nat /\ p + 1 <= q /\ p <= q
        BY <3>1, <3>2 DEF p, q
      <4> QED BY <3>2, <4>1, Products
    <3>4. x < s
      BY <2>1, <3>2, <3>3, BlockSizeIs
    <3>5. x = LastOf(BlockOf(x))
      <4>1. (x + 1) % BlockSize = 0
        BY <1>7, <2>2 DEF Crossing, x
      <4> SUFFICES ASSUME x # LastOf(BlockOf(x)) PROVE FALSE
        OBVIOUS
      <4>2. x + 1 \in Sectors /\ BlockOf(x + 1) = BlockOf(x)
        BY <1>7, NextSector
      <4>3. x + 1 = FirstOf(BlockOf(x + 1))
        BY <4>1, <4>2, BlockOfIs
      <4>4. FirstOf(BlockOf(x)) <= x
        BY <1>7, BlockOfIs
      <4> HIDE DEF x
      <4> QED BY <2>1, <4>2, <4>3, <4>4
    <3> QED BY <3>4, <3>5
  <2>3. CASE ~Crossing
    <3>1. s = x + 1
      BY <1>4, <1>7, <2>3
    <3> HIDE DEF x
    <3> QED BY <2>1, <3>1
  <2> QED BY <2>2, <2>3
<1>9. InRuns(chain')
  <2> HIDE DEF x
  <2>1. chain # <<>> => LastIn(chain) < s
                        /\ (LastIn(chain) # LastOf(BlockOf(LastIn(chain))) => s = LastIn(chain) + 1)
    BY <1>8 DEF x
  <2>2. InRuns(Append(chain, s))
    BY <1>3, <1>4, <1>5, <2>1, RunsAppend
  <2> QED BY <1>2, <2>2
<1> DEFINE k == hdr'
           c == chain'
<1>10. CtrlBlock(c, k.fctrl) = BlockOf(s)
  <2>1. c # <<>> /\ LastIn(c) = s
    BY <1>2, <1>4, <1>5 DEF LastIn
  <2> QED BY <2>1 DEF CtrlBlock
<1>11. FreeSectors(k) \subseteq FreeSectors(g)
  <2>1. k.type = [g.type EXCEPT ![s] = ty]
    BY <1>4
  <2> HIDE DEF k
  <2> QED BY <1>4, <2>1, HeaderIs DEF FreeSectors
<1> HIDE DEF k, c
<1>12. ASSUME NEW b \in FreeBlocks(k)
       PROVE  BlockOf(s) < b
  <2>1. b \in 0 .. NumBlocks - 1 /\ SectorsOf(b) \subseteq FreeSectors(k)
    <3>1. b \in 0 .. NumBlocks - 1 /\ \A t \in SectorsOf(b) : k.type[t] = "free"
      BY DEF FreeBlocks
    <3> QED BY <3>1, BlocksAre DEF FreeSectors
  <2>2. SectorsOf(b) \subseteq FreeSectors(hdr) /\ SectorsOf(b) \subseteq FreeSectors(g)
    BY <1>6, <1>11, <2>1
  <2>3. b \in FreeBlocks(hdr)
    BY <2>1, <2>2 DEF FreeBlocks, FreeSectors
  <2>4. BlockOf(s) # b
    <3>1. s \in Rest(s, BlockOf(s)) /\ s \in SectorsOf(BlockOf(s))
      <4>1. s \in Nat
        BY <1>4, SectsIs
      <4>2. s >= s
        BY <4>1
      <4> QED BY <1>4, <4>2, BlockOfIs DEF Rest
    <3> QED BY <1>4, <2>2, <3>1
  <2>5. BlockOf(s) \in Nat /\ b \in Nat
    BY <1>4, <2>1, BlockOfIs
  <2>6. BlockOf(s) <= b
    <3>1. CASE Crossing
      BY <1>4, <2>3, <3>1
    <3>2. CASE ~Crossing
      <4>1. CtrlBlock(chain, hdr.fctrl) < b
        BY <1>3, <2>3 DEF Ahead
      <4>2. CtrlBlock(chain, hdr.fctrl) = BlockOf(s)
        <5>1. CASE chain = <<>>
          BY <1>4, <3>2, <5>1 DEF CtrlBlock
        <5>2. CASE chain # <<>>
          <6>1. (x + 1) % BlockSize # 0 /\ s = x + 1
            BY <1>4, <1>7, <3>2, <5>2 DEF Crossing
          <6>2. BlockOf(x + 1) = BlockOf(x)
            BY <1>7, <5>2, <6>1, NextSector
          <6> QED BY <5>2, <6>1, <6>2 DEF CtrlBlock
        <5> QED BY <5>1, <5>2
      <4> QED BY <2>5, <4>1, <4>2
    <3> QED BY <3>1, <3>2
  <2> QED BY <2>4, <2>5, <2>6
<1>13. Ahead(k, c)
  BY <1>10, <1>12 DEF Ahead
<1> QED BY <1>1, <1>3, <1>9, <1>13 DEF OrderHeld, k, c, Working

LEMMA OrderFlashed ==
  ASSUME ListHeld, OrderHeld, Plainly', Flashed, ReadBack'
  PROVE  OrderHeld'
<1> DEFINE d == disk'
           h == Parsed(d)
<1>1. /\ pc = "flash" /\ pc' = "idle" /\ d.chain = chain
      /\ d # None => h.fctrl = hdr.fctrl /\ FreeSectors(h) = FreeSectors(hdr)
  BY FlashedDoes
<1>2. InRuns(chain) /\ Ahead(hdr, chain)
  BY <1>1 DEF OrderHeld, Working
<1> HIDE DEF h, d
<1>3. d # None => Ahead(h, chain)
  <2> SUFFICES ASSUME d # None PROVE Ahead(h, chain)
    OBVIOUS
  <2>1. FreeSectors(h) \subseteq FreeSectors(hdr) /\ CtrlBlock(chain, h.fctrl) = CtrlBlock(chain, hdr.fctrl)
    BY <1>1
  <2> QED BY <1>2, <2>1, AheadThen
<1> QED BY <1>1, <1>2, <1>3 DEF OrderHeld, Working, d, h

LEMMA OrderInit ==
  ASSUME Init
  PROVE  OrderInv
  BY DEF Init, OrderInv, OrderHeld, Working

LEMMA OrderNext ==
  ASSUME ListInv, OrderInv, ReadBack', [Next]_vars
  PROVE  OrderInv'
<1> SUFFICES ASSUME Plainly' PROVE OrderHeld'
  BY DEF OrderInv
<1>0. ASSUME Plainly PROVE ListHeld /\ OrderHeld
  BY <1>0 DEF ListInv, OrderInv
<1>1. CASE BeginTfs
  <2>1. Plainly
    BY <1>1 DEF BeginTfs, Taken, Plainly
  <2> QED BY <1>0, <1>1, <2>1, OrderBeginTfs
<1>2. CASE BeginCsc
  <2>1. Plainly
    BY <1>2 DEF BeginCsc, Wreck, Taken, Plainly
  <2> QED BY <1>0, <1>2, <2>1, OrderBeginCsc
<1>3. CASE Store
  <2>1. Plainly
    BY <1>3 DEF Store, Taken, Plainly
  <2>2. ListHeld /\ OrderHeld
    BY <1>0, <2>1
  <2>3. /\ pc = "file" /\ disk' = disk /\ chain' = chain /\ hdr'.fctrl = hdr.fctrl
        /\ FreeSectors(hdr') \subseteq FreeSectors(hdr)
    BY <1>3, <2>2, StoreDoes DEF Quiet
  <2> QED BY <2>2, <2>3, OrderStays DEF Working
<1>4. CASE EndFile
  <2>1. Plainly
    BY <1>4 DEF EndFile, Wreck, Taken, Plainly
  <2>2. ListHeld /\ OrderHeld
    BY <1>0, <2>1
  <2>3. /\ pc = "file" /\ disk' = disk /\ chain' = chain /\ hdr'.fctrl = hdr.fctrl
        /\ FreeSectors(hdr') \subseteq FreeSectors(hdr)
    BY <1>4, <2>2, EndFileDoes DEF Quiet
  <2> QED BY <2>2, <2>3, OrderStays DEF Working
<1>5. CASE Invalidate
  <2>1. Plainly
    BY <1>5 DEF Invalidate, Wreck, Taken, Plainly
  <2>2. ListHeld /\ OrderHeld
    BY <1>0, <2>1
  <2>3. /\ pc = "file" /\ disk' = disk /\ chain' = chain /\ hdr'.fctrl = hdr.fctrl
        /\ FreeSectors(hdr') \subseteq FreeSectors(hdr)
    BY <1>5, <2>2, InvalidateDoes DEF Quiet
  <2> QED BY <2>2, <2>3, OrderStays DEF Working
<1>6. CASE Place
  <2>1. Plainly
    BY <1>6 DEF Place, Wreck, Taken, Plainly
  <2> QED BY <1>0, <1>6, <2>1, OrderPlace
<1>7. CASE Placed
  <2>1. Plainly /\ pc = "place" /\ disk' = disk /\ chain' = chain /\ hdr' = hdr
    BY <1>7 DEF Placed, Wreck, Taken, Plainly, patchVars, phoneVars
  <2> QED BY <1>0, <2>1, OrderStays DEF Working
<1>8. CASE Pop
  <2>1. Plainly
    BY <1>8 DEF Pop, Taken, Plainly
  <2>2. ListHeld /\ OrderHeld
    BY <1>0, <2>1
  <2>3. /\ pc = "pop" /\ disk' = disk /\ chain' = chain /\ hdr'.fctrl = hdr.fctrl
        /\ FreeSectors(hdr') \subseteq FreeSectors(hdr)
    BY <1>8, <2>2, PopDoes DEF Quiet
  <2> QED BY <2>2, <2>3, OrderStays DEF Working
<1>9. CASE Seal
  <2>1. Plainly
    BY <1>9 DEF Seal, Wreck, Taken, Plainly
  <2>2. ListHeld /\ OrderHeld
    BY <1>0, <2>1
  <2>3. /\ pc = "pop" /\ disk' \in {disk, None} /\ chain' = chain /\ hdr'.fctrl = hdr.fctrl
        /\ FreeSectors(hdr') \subseteq FreeSectors(hdr)
    BY <1>9, <2>2, SealDoes
  <2> QED BY <2>2, <2>3, OrderStays DEF Working
<1>10. CASE NoSpace \/ Fragmented \/ NothingToPop
  <2>1. Abandon
    BY <1>10 DEF NoSpace, Fragmented, NothingToPop
  <2>2. pc' = "idle" /\ disk' = disk /\ Plainly
    BY <2>1 DEF Abandon, phoneVars, Plainly
  <2> QED BY <1>0, <2>2, OrderLeft
<1>11. CASE Act
  <2>1. Plainly /\ pc = "flash" /\ disk' = disk /\ chain' = chain /\ hdr' = hdr
    BY <1>11 DEF Act, patchVars, Plainly
  <2> QED BY <1>0, <2>1, OrderStays DEF Working
<1>12. CASE Flashed
  <2>1. Plainly
    BY <1>12 DEF Flashed, Plainly
  <2> QED BY <1>0, <1>12, <2>1, OrderFlashed
<1>13. CASE PowerCut
  <2>1. pc' = "idle" /\ disk' \in {disk, None} /\ Plainly
    BY <1>13 DEF PowerCut, Taken, Plainly
  <2> QED BY <1>0, <2>1, OrderLeft
<1>14. CASE UNCHANGED vars
  <2>1. /\ pc' = pc /\ hdr' = hdr /\ chain' = chain /\ disk' = disk /\ hit' = hit
    BY <1>14 DEF vars, patchVars, phoneVars
  <2> QED BY <1>0, <2>1 DEF OrderHeld, Working, Plainly
<1> QED BY <1>1, <1>2, <1>3, <1>4, <1>5, <1>6, <1>7, <1>8, <1>9, <1>10, <1>11, <1>12, <1>13, <1>14
        DEF Next, Patch

-----------------------------------------------------------------------------
(* What pages hold, and will hold when the actions to come are done.       *)

\* What actions ds burn into sector s.
Burnt(ds, s) == {ds[k].what : k \in {j \in DOMAIN ds : ds[j].sect = s}}
Done(w, ds) == [s \in Sectors |-> w[s] \cup Burnt(ds, s)]
\* A .tfs is flashed into an area that is erased first.
Base == IF csc \/ pc = "flash" THEN cell ELSE [s \in Sectors |-> {}]
Will == Done(Base, acts)

\* The pages that have control in them and nothing else, and those that have one
\* piece of a file.
Ctrl(w) == {s \in Sectors : w[s] # {} /\ \A x \in w[s] : IsCtrl(x)}
Stored(w) == {s \in Sectors : \E f \in Files : \E g, i : w[s] = {<<f, g, i>>}}

LEMMA BurntMore ==
  ASSUME NEW R, NEW ds \in Seq(R), NEW bs \in Seq(R), NEW s
  PROVE  Burnt(ds \o bs, s) = Burnt(ds, s) \cup Burnt(bs, s)
<1> DEFINE cs == ds \o bs
           n == Len(ds)
           m == Len(bs)
<1>0. DOMAIN ds = 1 .. n /\ DOMAIN bs = 1 .. m /\ DOMAIN cs = 1 .. n + m
  BY ConcatProperties, LenProperties
<1>1. /\ n \in Nat /\ m \in Nat
      /\ \A k \in 1 .. n + m : cs[k] = IF k <= n THEN ds[k] ELSE bs[k - n]
  BY ConcatProperties, LenProperties
<1> HIDE DEF cs, n, m
<1>2. \A x : x \in Burnt(ds, s) <=> \E k \in 1 .. n : ds[k].sect = s /\ ds[k].what = x
  BY <1>0 DEF Burnt
<1>7. \A x : x \in Burnt(bs, s) <=> \E k \in 1 .. m : bs[k].sect = s /\ bs[k].what = x
  BY <1>0 DEF Burnt
<1>3. \A x : x \in Burnt(cs, s) <=> \E k \in 1 .. n + m : cs[k].sect = s /\ cs[k].what = x
  BY <1>0 DEF Burnt
<1>4. ASSUME NEW x \in Burnt(cs, s)
      PROVE  x \in Burnt(ds, s) \cup Burnt(bs, s)
  <2>1. PICK k \in 1 .. n + m : cs[k].sect = s /\ cs[k].what = x
    BY <1>3, <1>4
  <2>2. CASE k <= n
    <3>1. k \in 1 .. n
      BY <1>1, <2>1, <2>2
    <3>2. cs[k] = ds[k]
      BY <1>1, <2>1, <2>2
    <3>3. x \in Burnt(ds, s)
      BY <1>2, <2>1, <3>1, <3>2, Zenon
    <3> QED BY <3>3
  <2>3. CASE ~(k <= n)
    <3>1. k - n \in 1 .. m
      BY <1>1, <2>1, <2>3
    <3>2. cs[k] = bs[k - n]
      BY <1>1, <2>1, <2>3
    <3> QED BY <1>7, <2>1, <3>1, <3>2
  <2> QED BY <2>2, <2>3
<1>5. ASSUME NEW x \in Burnt(ds, s)
      PROVE  x \in Burnt(cs, s)
  <2>1. PICK k \in 1 .. n : ds[k].sect = s /\ ds[k].what = x
    BY <1>2, <1>5, Zenon
  <2>2. k \in 1 .. n + m
    BY <1>1, <2>1
  <2>3. cs[k] = ds[k]
    BY <1>1, <2>1, <2>2
  <2> QED BY <1>3, <2>1, <2>2, <2>3
<1>6. ASSUME NEW x \in Burnt(bs, s)
      PROVE  x \in Burnt(cs, s)
  <2>1. PICK k \in 1 .. m : bs[k].sect = s /\ bs[k].what = x
    BY <1>6, <1>7, Zenon
  <2>2. n + k \in 1 .. n + m /\ ~(n + k <= n) /\ n + k - n = k
    BY <1>1, <2>1
  <2>3. cs[n + k] = bs[k]
    BY <1>1, <2>2
  <2> QED BY <1>3, <2>1, <2>2, <2>3
<1> QED BY <1>4, <1>5, <1>6 DEF cs

LEMMA BurntOne ==
  ASSUME NEW a, NEW s
  PROVE  Burnt(<<a>>, s) = IF s = a.sect THEN {a.what} ELSE {}
<1>1. DOMAIN <<a>> = 1 .. 1 /\ <<a>>[1] = a
  OBVIOUS
<1>2. 1 .. 1 = {1}
  OBVIOUS
<1>3. \A x : x \in Burnt(<<a>>, s) <=> \E k \in 1 .. 1 : <<a>>[k].sect = s /\ <<a>>[k].what = x
  BY <1>1 DEF Burnt
<1>4. \A x : x \in Burnt(<<a>>, s) <=> a.sect = s /\ a.what = x
  BY <1>1, <1>2, <1>3
<1> QED BY <1>4

LEMMA DoneNone ==
  ASSUME NEW w, NEW s \in Sectors
  PROVE  Done(w, <<>>)[s] = w[s]
<1>1. Burnt(<<>>, s) = {}
  BY DEF Burnt
<1> QED BY <1>1 DEF Done

LEMMA DoneConcat ==
  ASSUME NEW R, NEW ds \in Seq(R), NEW bs \in Seq(R), NEW w, NEW s \in Sectors
  PROVE  Done(w, ds \o bs)[s] = Done(w, ds)[s] \cup Burnt(bs, s)
<1>1. Burnt(ds \o bs, s) = Burnt(ds, s) \cup Burnt(bs, s)
  BY BurntMore
<1> QED BY <1>1 DEF Done

LEMMA DoneAppend ==
  ASSUME NEW R, NEW ds \in Seq(R), NEW a \in R, NEW w, NEW s \in Sectors
  PROVE  Done(w, Append(ds, a))[s] = Done(w, ds)[s] \cup (IF s = a.sect THEN {a.what} ELSE {})
<1>1. <<a>> \in Seq(R)
  OBVIOUS
<1>2. Append(ds, a) = ds \o <<a>>
  BY AppendIsConcat
<1>3. Done(w, ds \o <<a>>)[s] = Done(w, ds)[s] \cup Burnt(<<a>>, s)
  <2> DEFINE bs == <<a>>
  <2>1. bs \in Seq(R)
    BY <1>1
  <2> HIDE DEF bs
  <2>2. Done(w, ds \o bs)[s] = Done(w, ds)[s] \cup Burnt(bs, s)
    BY <2>1, DoneConcat
  <2> QED BY <2>2 DEF bs
<1> QED BY <1>2, <1>3, BurntOne

\* The first action done, the others to come.
LEMMA DoneHead ==
  ASSUME NEW R, NEW ds \in Seq(R), ds # <<>>, NEW w, NEW v,
         \A s \in Sectors : v[s] = w[s] \cup (IF s = Head(ds).sect THEN {Head(ds).what} ELSE {}),
         NEW s \in Sectors
  PROVE  Done(v, Tail(ds))[s] = Done(w, ds)[s]
<1> DEFINE a == Head(ds)
           bs == Tail(ds)
<1>1. a \in R /\ bs \in Seq(R)
  BY HeadTailProperties
<1>2. ds = <<a>> \o bs
  OBVIOUS
<1>0. <<a>> \in Seq(R)
  BY <1>1
<1>3. v[s] = w[s] \cup (IF s = a.sect THEN {a.what} ELSE {})
  OBVIOUS
<1> HIDE DEF bs, a
<1>4. Burnt(ds, s) = Burnt(<<a>>, s) \cup Burnt(bs, s)
  <2> DEFINE cs == <<a>>
  <2>1. cs \in Seq(R) /\ ds = cs \o bs
    BY <1>0, <1>2
  <2> HIDE DEF cs
  <2>2. Burnt(cs \o bs, s) = Burnt(cs, s) \cup Burnt(bs, s)
    BY <1>1, <2>1, BurntMore
  <2> QED BY <2>1, <2>2 DEF cs
<1>5. v[s] = w[s] \cup Burnt(<<a>>, s)
  BY <1>3, BurntOne
<1> QED BY <1>4, <1>5 DEF bs, Done

LEMMA StoredIs ==
  ASSUME NEW w, NEW s \in Stored(w)
  PROVE  s \in Sectors /\ w[s] # {} /\ s \notin Ctrl(w)
<1>1. PICK f \in Files : \E g, i : w[s] = {<<f, g, i>>}
  BY DEF Stored
<1>2. PICK g, i : w[s] = {<<f, g, i>>}
  BY <1>1
<1>3. <<f, g, i>>[1] # "ctrl"
  BY <1>1, BatchesAssumption
<1> QED BY <1>2, <1>3 DEF Stored, Ctrl, IsCtrl

-----------------------------------------------------------------------------
(* Files in pages.                                                         *)

\* In the pages w the first n sectors of a list hold what flash g has stored
\* of file f.
Laid(h, w, f, frst, g, n) ==
  \A i \in 0 .. n - 1 : LET s == Walk(h.next, frst)[i]
                        IN s \in Sectors /\ w[s] = {<<f, g, i>>} /\ (i = 0 => h.type[s] = "first")
Held(h, w, fs) ==
  \A f \in Files : fs[f] # None =>
    /\ fs[f].len \in 0 .. NumSects /\ (fs[f].len = 0 => fs[f].frst \notin Sectors)
    /\ Laid(h, w, f, fs[f].frst, fs[f].gen, fs[f].len)

\* From table h and pages w to k and v nothing changes where a file is.
Keeps(h, w, k, v) ==
  \A s \in Stored(w) : /\ v[s] = w[s] /\ k.next[s] = h.next[s]
                       /\ h.type[s] = "first" => k.type[s] = "first"

LEMMA LaidStays ==
  ASSUME NEW h, NEW w, NEW k, NEW v, NEW f \in Files, NEW frst, NEW g, NEW n \in 0 .. NumSects,
         Laid(h, w, f, frst, g, n), Keeps(h, w, k, v)
  PROVE  Laid(k, v, f, frst, g, n) /\ Walk(k.next, frst)[n] = Walk(h.next, frst)[n]
<1> DEFINE to == Walk(h.next, frst)
           on == Walk(k.next, frst)
<1>1. Steps(to, h.next, frst) /\ Steps(on, k.next, frst)
  BY WalkIs
<1> HIDE DEF to, on
<1>2. n \in Nat /\ n <= NumSects /\ NumSects \in Nat
  BY SectsIs
<1>3. \A i \in 0 .. n - 1 : to[i] \in Sectors /\ w[to[i]] = {<<f, g, i>>} /\ (i = 0 => h.type[to[i]] = "first")
  BY DEF Laid, to
<1>9. ASSUME NEW i \in 0 .. n - 1
      PROVE  /\ v[to[i]] = {<<f, g, i>>} /\ k.next[to[i]] = h.next[to[i]]
             /\ i = 0 => k.type[to[i]] = "first"
  <2>1. to[i] \in Stored(w)
    BY <1>3 DEF Stored
  <2> QED BY <1>3, <2>1 DEF Keeps
<1> DEFINE T == {j \in 0 .. n : on[j] = to[j]}
<1>4. 0 \in T
  BY <1>1, <1>2 DEF Steps
<1>5. ASSUME NEW j \in T, j \in 0 .. n - 1
      PROVE  j + 1 \in T
  <2>1. j + 1 \in 1 .. NumSects /\ j + 1 \in 0 .. n /\ j + 1 - 1 = j /\ j \in Nat
    BY <1>2, <1>5
  <2>2. on[j] = to[j] /\ to[j] \in Sectors /\ k.next[to[j]] = h.next[to[j]]
    BY <1>3, <1>5, <1>9, <2>1
  <2>3. on[j + 1] = k.next[on[j]] /\ to[j + 1] = h.next[to[j]]
    BY <1>1, <2>1, <2>2 DEF Steps
  <2> QED BY <2>1, <2>2, <2>3
<1>6. 0 .. n \subseteq T
  <2> HIDE DEF T
  <2> QED BY <1>2, <1>4, <1>5, UptoSets
<1>7. ASSUME NEW i \in 0 .. n - 1
      PROVE  on[i] \in Sectors /\ v[on[i]] = {<<f, g, i>>} /\ (i = 0 => k.type[on[i]] = "first")
  <2>1. i \in Nat /\ on[i] = to[i]
    BY <1>2, <1>6
  <2> QED BY <1>3, <1>9, <2>1
<1>8. on[n] = to[n]
  BY <1>2, <1>6
<1> QED BY <1>7, <1>8 DEF Laid, to, on

\* Only types change, and the first of the list stays a first one.
LEMMA LaidAlike ==
  ASSUME NEW h, NEW w, NEW k, NEW f, NEW frst, NEW g, NEW n, Laid(h, w, f, frst, g, n),
         k.next = h.next, frst \in Sectors /\ h.type[frst] = "first" => k.type[frst] = "first"
  PROVE  Laid(k, w, f, frst, g, n)
<1> DEFINE to == Walk(h.next, frst)
<1>1. Walk(k.next, frst) = to /\ to[0] = frst
  BY WalkIs DEF Steps
<1> HIDE DEF to
<1>2. \A i \in 0 .. n - 1 : to[i] \in Sectors /\ w[to[i]] = {<<f, g, i>>} /\ (i = 0 => h.type[to[i]] = "first")
  BY DEF Laid, to
<1>3. \A i \in 0 .. n - 1 : i = 0 => k.type[to[i]] = "first"
  BY <1>1, <1>2
<1> QED BY <1>1, <1>2, <1>3 DEF Laid

LEMMA HeldStays ==
  ASSUME NEW h, NEW w, NEW k, NEW v, NEW fs, Held(h, w, fs), Keeps(h, w, k, v)
  PROVE  Held(k, v, fs)
<1> SUFFICES ASSUME NEW f \in Files, fs[f] # None
             PROVE  Laid(k, v, f, fs[f].frst, fs[f].gen, fs[f].len)
  BY DEF Held
<1>1. fs[f].len \in 0 .. NumSects /\ Laid(h, w, f, fs[f].frst, fs[f].gen, fs[f].len)
  BY DEF Held
<1> QED BY <1>1, LaidStays

-----------------------------------------------------------------------------
(* What keeps the files: the inductive invariant.                          *)

Cleanly == hit \subseteq {"cut", "torn"}

\* Where a .csc may write, and what the phone keeps all through it.
Old == Spare(Parsed(disk), disk.chain)
Kept == [s \in Sectors |-> IF s \in Old \cup ToSet(disk.chain) THEN {} ELSE cell[s]]

\* The actions there may be.
Allowed == {a \in Written : /\ pc # "flash" => ~IsCtrl(a.what)
                            /\ pc = "file" => a.op = "write"
                            /\ csc => a.sect \in IF a.op = "mark" THEN ToSet(disk.chain) ELSE Old}
\* No sector is marked twice, and a mark comes before all control.
Once(ds) == \A j, k \in DOMAIN ds : ds[j].op = "mark" /\ ds[k].op = "mark" /\ ds[j].sect = ds[k].sect => j = k
MarksFirst(ds) == \A j, k \in DOMAIN ds : ds[k].op = "mark" /\ IsCtrl(ds[j].what) => k < j
Pending(ds, s) == \E k \in DOMAIN ds : ds[k].op = "mark" /\ ds[k].sect = s

\* The files are in the pages as they will be, and the control with them.
InWork ==
  /\ acts \in Seq(Allowed) /\ erasing = {}
  /\ \A s \in Spare(hdr, chain) : Will[s] = {}
  /\ Held(hdr, Will, files)
  /\ pc \in {"place", "pop"} => Ctrl(Will) = {} /\ \A s \in ToSet(chain) : Will[s] = {}
  /\ pc = "flash" => /\ Ctrl(Will) = ToSet(chain)
                     /\ \A i \in DOMAIN chain : Will[chain[i]] = {<<"ctrl", gen, i>>}

\* A .csc leaves the file system there is alone until it marks its control.
InPlace ==
  /\ Untorn /\ disk # None /\ Once(acts) /\ ToSet(chain) \subseteq Old
  /\ pc = "flash" =>
       /\ MarksFirst(acts)
       /\ \A i \in DOMAIN disk.chain : Pending(acts, disk.chain[i]) =>
            cell[disk.chain[i]] = {<<"ctrl", disk.gen, i>>}
       /\ (\E k \in DOMAIN acts : acts[k].op = "mark") => Ctrl(cell) \subseteq ToSet(disk.chain)

Filing ==
  /\ {s \in Sectors : marks[s] = 240} = Ctrl(Will)
  /\ Ctrl(Will) = IF csc THEN ToSet(disk.chain) ELSE {}
  /\ ~csc => Will[0] = {}
  /\ todo # <<>> => /\ Laid(hdr, Will, Head(todo).file, at.frst, gen, at.i)
                    /\ at.i < Head(todo).len => Walk(hdr.next, at.frst)[at.i] = hdr.free
  /\ at.i > 0 => at.frst \notin FirstsOf(files)
  /\ at.i + Cardinality(FreeSectors(hdr)) <= NumSects

KeepHeld ==
  /\ disk # None => Held(Parsed(disk), Kept, disk.files) /\ (pc # "flash" => Readable(disk))
  /\ pc = "idle" => acts = <<>>
  /\ Working => InWork /\ (csc => InPlace)
  /\ pc = "file" => Filing
  /\ pc = "flash" /\ ~csc => disk = None
KeepInv == Cleanly => KeepHeld

-----------------------------------------------------------------------------
(* Each action keeps the files.                                            *)

LEMMA WritesOnce ==
  ASSUME NEW ds, \A k \in DOMAIN ds : ds[k].op = "write"
  PROVE  Once(ds)
  BY DEF Once

\* What a .csc has free lies in what the old control has.
LEMMA SpareIsOld ==
  ASSUME BlankInv, Untorn, csc, pc \in {"file", "place", "pop"}
  PROVE  Spare(hdr, chain) \subseteq Old
  BY DEF BlankInv, BlankHeld, Old

\* A step of the patch, in which nothing is sent.
LEMMA KeepCalm ==
  ASSUME KeepHeld, pc \in {"file", "place", "pop"}, pc' \in {"file", "place", "pop"},
         cell' = cell, disk' = disk, csc' = csc, hit' = hit, InWork',
         csc => Once(acts') /\ ToSet(chain') \subseteq Old, pc' = "file" => Filing'
  PROVE  KeepHeld'
<1>1. Working /\ Working' /\ pc # "flash" /\ pc' # "flash" /\ pc' # "idle"
  BY DEF Working
<1>2. Old' = Old /\ Kept' = Kept
  BY DEF Old, Kept
<1>3. csc => Untorn /\ disk # None
  BY <1>1 DEF KeepHeld, InPlace
<1>4. csc' => InPlace'
  <2>1. Untorn' <=> Untorn
    BY DEF Untorn
  <2> HIDE DEF Once
  <2> QED BY <1>1, <1>2, <1>3, <2>1 DEF InPlace
<1>5. disk' # None => Held(Parsed(disk'), Kept', disk'.files) /\ Readable(disk)'
  <2>1. disk # None => Held(Parsed(disk), Kept, disk.files) /\ Readable(disk)
    BY <1>1 DEF KeepHeld
  <2>2. Readable(disk)' <=> Readable(disk)
    BY DEF Readable, ChipMark
  <2> QED BY <1>2, <2>1, <2>2
<1> QED BY <1>1, <1>4, <1>5 DEF KeepHeld

LEMMA KeepStore ==
  ASSUME ListHeld, WeaveHeld, BlankInv, KeepHeld, Cleanly', Store
  PROVE  KeepHeld'
<1> DEFINE x == hdr.free
           f == Head(todo).file
           n == Head(todo).len
           m == at.i
           a == [op |-> "write", sect |-> x, what |-> <<f, gen, m>>]
           h == hdr'
           w == Will
           v == Will'
<1>0. Plainly'
  BY DEF Cleanly, Plainly
<1>1. /\ pc = "file" /\ pc' = "file" /\ Quiet /\ files' = files /\ todo' = todo /\ marks' = marks
      /\ Sound(hdr, chain, files) /\ AtFile /\ todo # <<>> /\ m < n
      /\ Head(todo) \in [file : Files, len : Nat]
      /\ at' = [i |-> m + 1, frst |-> at.frst] /\ acts' = Append(acts, a)
      /\ x \in FreeSectors(hdr) /\ FreeSectors(h) = FreeSectors(hdr) \ {x}
      /\ h.fctrl = hdr.fctrl /\ h.free = hdr.next[x]
      /\ h.type = [hdr.type EXCEPT ![x] = IF m = 0 THEN "first" ELSE "cont"]
      /\ h.next = [hdr.next EXCEPT ![x] = IF m = n - 1 THEN Nil ELSE hdr.next[x]]
  BY <1>0, StoreDoes
<1>2. InWork /\ Filing /\ (csc => InPlace)
  BY <1>1 DEF KeepHeld, Working
<1>3. /\ hdr \in Header /\ x \in Sectors /\ x \in Spare(hdr, chain) /\ m \in Nat /\ n \in Nat /\ f \in Files
      /\ gen \in Nat
  BY <1>1, HeaderIs DEF Sound, Spare, AtFile, WeaveHeld
<1>4. a \in Allowed
  <2>1. a \in Written
    <3>1. <<f, gen, m>> \in (Files \cup {"ctrl"}) \X Nat \X Nat
      BY <1>3
    <3> QED BY <1>3, <3>1 DEF Written, Whats
  <2>2. ~IsCtrl(a.what)
    <3>1. <<f, gen, m>>[1] # "ctrl"
      BY <1>3, BatchesAssumption
    <3> QED BY <3>1 DEF IsCtrl
  <2>3. csc => x \in Old
    BY <1>1, <1>2, <1>3, SpareIsOld DEF InPlace
  <2> QED BY <2>1, <2>2, <2>3 DEF Allowed
<1>5. acts \in Seq(Allowed) /\ acts' \in Seq(Allowed) /\ Allowed' = Allowed
  <2>1. acts \in Seq(Allowed)
    BY <1>2 DEF InWork
  <2>2. Append(acts, a) \in Seq(Allowed)
    BY <1>4, <2>1, SeqsOver
  <2>3. Allowed' = Allowed
    BY <1>1 DEF Allowed, Old, Quiet
  <2> QED BY <1>1, <2>1, <2>2, <2>3
<1>6. \A s \in Sectors : v[s] = w[s] \cup (IF s = x THEN {<<f, gen, m>>} ELSE {})
  <2> SUFFICES ASSUME NEW s \in Sectors
               PROVE  v[s] = w[s] \cup (IF s = x THEN {<<f, gen, m>>} ELSE {})
    OBVIOUS
  <2>1. v = Done(Base, Append(acts, a))
    BY <1>1 DEF Will, Base, Quiet
  <2>2. a.sect = x /\ a.what = <<f, gen, m>>
    OBVIOUS
  <2> HIDE DEF a, x, f, m, w, v
  <2>3. Done(Base, Append(acts, a))[s] = Done(Base, acts)[s] \cup (IF s = a.sect THEN {a.what} ELSE {})
    BY <1>4, <1>5, DoneAppend
  <2> QED BY <2>1, <2>2, <2>3 DEF w, Will
<1>7. w[x] = {}
  BY <1>2, <1>3 DEF InWork
<1>8. v[x] = {<<f, gen, m>>} /\ \A s \in Sectors \ {x} : v[s] = w[s]
  BY <1>3, <1>6, <1>7
<1> HIDE DEF w, v, a, h
<1>9. Keeps(hdr, w, h, v)
  <2> SUFFICES ASSUME NEW s \in Stored(w)
               PROVE  v[s] = w[s] /\ h.next[s] = hdr.next[s] /\ (hdr.type[s] = "first" => h.type[s] = "first")
    BY DEF Keeps
  <2>1. s \in Sectors /\ s # x
    BY <1>7, StoredIs
  <2> QED BY <1>1, <1>3, <1>8, <2>1, HeaderIs
<1>10. Held(h, v, files)
  BY <1>2, <1>9, HeldStays DEF InWork, w
<1>11. Cardinality(FreeSectors(h)) \in Nat /\ Cardinality(FreeSectors(hdr)) = Cardinality(FreeSectors(h)) + 1
  <2> DEFINE F == FreeSectors(hdr)
             G == FreeSectors(h)
  <2>1. IsFiniteSet(F) /\ x \in F /\ G = F \ {x}
    BY <1>1, <1>3, HeaderIs, SetOfSectors
  <2> HIDE DEF F, G
  <2>2. IsFiniteSet(G) /\ Cardinality(G) \in Nat
    BY <2>1, FS_RemoveElement, FS_CardinalityType
  <2>3. Cardinality(G) = Cardinality(F) - 1 /\ Cardinality(F) \in Nat
    BY <2>1, FS_RemoveElement, FS_CardinalityType
  <2> QED BY <2>2, <2>3 DEF F, G
<1>12. m + 1 + Cardinality(FreeSectors(h)) <= NumSects /\ m \in 0 .. NumSects /\ m + 1 \in 1 .. NumSects
  BY <1>2, <1>3, <1>11, SectsIs DEF Filing
<1>13. /\ Laid(hdr, w, f, at.frst, gen, m) /\ Walk(hdr.next, at.frst)[m] = x
       /\ {s \in Sectors : marks[s] = 240} = Ctrl(w) /\ Ctrl(w) = (IF csc THEN ToSet(disk.chain) ELSE {})
       /\ ~csc => w[0] = {}
  BY <1>1, <1>2 DEF Filing, w
<1> DEFINE on == Walk(h.next, at.frst)
<1>14. Laid(h, v, f, at.frst, gen, m) /\ on[m] = x
  BY <1>3, <1>9, <1>12, <1>13, LaidStays
<1>15. Laid(h, v, f, at.frst, gen, m + 1)
  <2> HIDE DEF on
  <2>1. \A j \in 0 .. m - 1 : on[j] \in Sectors /\ v[on[j]] = {<<f, gen, j>>} /\ (j = 0 => h.type[on[j]] = "first")
    BY <1>14 DEF Laid, on
  <2>2. m = 0 => h.type[on[m]] = "first"
    BY <1>1, <1>3, <1>14, HeaderIs
  <2> SUFFICES ASSUME NEW j \in 0 .. (m + 1) - 1
               PROVE  on[j] \in Sectors /\ v[on[j]] = {<<f, gen, j>>} /\ (j = 0 => h.type[on[j]] = "first")
    BY DEF Laid, on
  <2>3. CASE j = m
    BY <1>3, <1>8, <1>14, <2>2, <2>3
  <2>4. CASE j # m
    <3>1. j \in 0 .. m - 1
      BY <1>3, <2>4
    <3> QED BY <2>1, <3>1
  <2> QED BY <2>3, <2>4
<1>16. m + 1 < n => on[m + 1] = h.free
  <2> SUFFICES ASSUME m + 1 < n PROVE on[m + 1] = h.free
    OBVIOUS
  <2>1. Steps(on, h.next, at.frst)
    BY WalkIs
  <2>2. h.next[x] = hdr.next[x]
    BY <1>1, <1>3, HeaderIs
  <2> HIDE DEF on
  <2>3. on[m + 1] = h.next[on[m]]
    BY <1>3, <1>12, <1>14, <2>1 DEF Steps
  <2> QED BY <1>1, <1>14, <2>2, <2>3
<1>17. at.frst \notin FirstsOf(files)
  <2>1. CASE m = 0
    <3>1. at.frst \in FreeSectors(hdr)
      BY <1>1, <2>1 DEF AtFile
    <3> QED BY <1>1, <3>1 DEF Sound
  <2>2. CASE m > 0
    BY <1>2, <2>2 DEF Filing
  <2> QED BY <1>3, <2>1, <2>2
<1>18. Ctrl(v) = Ctrl(w)
  <2>1. <<f, gen, m>>[1] # "ctrl"
    BY <1>3, BatchesAssumption
  <2>2. x \notin Ctrl(v)
    BY <1>8, <2>1 DEF Ctrl, IsCtrl
  <2>3. x \notin Ctrl(w)
    BY <1>7 DEF Ctrl
  <2>4. \A s \in Sectors \ {x} : s \in Ctrl(v) <=> s \in Ctrl(w)
    BY <1>8 DEF Ctrl
  <2> QED BY <2>2, <2>3, <2>4 DEF Ctrl
<1>19. ~csc => v[0] = {}
  <2> SUFFICES ASSUME ~csc PROVE v[0] = {}
    OBVIOUS
  <2>1. 0 \in Begun
    BY <1>1 DEF Begun
  <2>2. 0 \in Sectors /\ 0 \notin Spare(hdr, chain)
    BY <1>1, <2>1 DEF WeaveHeld, Knit, Working
  <2> QED BY <1>3, <1>8, <1>13, <2>2
<1>20. Filing'
  <2>1. at'.i = m + 1 /\ at'.frst = at.frst /\ Head(todo') = Head(todo) /\ marks' = marks /\ files' = files
        /\ csc' = csc /\ disk' = disk /\ gen' = gen
    BY <1>1 DEF Quiet
  <2> HIDE DEF f, n, m, x
  <2> QED BY <2>1, <1>12, <1>13, <1>15, <1>16, <1>17, <1>18, <1>19 DEF Filing, f, n, m, on, h, v
<1>21. \A s \in Spare(h, chain') : v[s] = {}
  <2>1. Spare(h, chain') = Spare(hdr, chain) \ {x}
    BY <1>0, ListStore DEF h
  <2>2. \A s \in Spare(hdr, chain) : w[s] = {} /\ s \in Sectors
    BY <1>2, <1>3, HeaderIs DEF InWork, w, Spare, Rest
  <2> QED BY <1>8, <2>1, <2>2
<1>22. InWork'
  BY <1>1, <1>2, <1>5, <1>10, <1>21 DEF InWork, Quiet, v, h
<1>23. Once(acts')
  <2>1. \A k \in DOMAIN acts' : acts'[k] \in Allowed
    BY <1>5
  <2>2. \A k \in DOMAIN acts' : acts'[k].op = "write"
    BY <1>1, <2>1 DEF Allowed
  <2> QED BY <2>2, WritesOnce
<1>24. csc => ToSet(chain') \subseteq Old
  BY <1>1, <1>2 DEF InPlace, Quiet
<1> QED BY <1>1, <1>20, <1>22, <1>23, <1>24, KeepCalm DEF Quiet

LEMMA SectorsAtMost ==
  ASSUME NEW S, S \subseteq Sectors
  PROVE  Cardinality(S) \in Nat /\ Cardinality(S) <= NumSects
<1>1. IsFiniteSet(Sectors) /\ Cardinality(Sectors) = NumSects
  <2>1. 0 \in Int /\ NumSects - 1 \in Int /\ NumSects \in Nat
    BY SectsIs
  <2>2. IsFiniteSet(0 .. NumSects - 1)
        /\ Cardinality(0 .. NumSects - 1) = IF 0 > NumSects - 1 THEN 0 ELSE NumSects - 1 - 0 + 1
    BY <2>1, FS_Interval
  <2> QED BY <2>1, <2>2, SectsIs DEF Sectors
<1>2. S \in SUBSET Sectors
  OBVIOUS
<1>3. Cardinality(S) \in Nat
  BY SetOfSectors
<1> QED BY <1>1, <1>2, <1>3, FS_Subset

\* A step that leaves the actions as they are.
LEMMA KeepQuiet ==
  ASSUME KeepHeld, pc \in {"file", "place", "pop"}, pc' \in {"file", "place", "pop"},
         pc = "file" <=> pc' = "file", cell' = cell, disk' = disk, csc' = csc, hit' = hit,
         erasing' = erasing, acts' = acts,
         Spare(hdr', chain') \subseteq Spare(hdr, chain), Held(hdr', Will, files'),
         pc' # "file" => \A s \in ToSet(chain') : Will[s] = {},
         csc => ToSet(chain') \subseteq Old, pc' = "file" => Filing'
  PROVE  KeepHeld'
<1>1. InWork /\ (csc => InPlace)
  BY DEF KeepHeld, Working
<1>2. Will' = Will /\ Allowed' = Allowed
  BY DEF Will, Base, Allowed, Old
<1>3. InWork'
  <2>1. /\ acts \in Seq(Allowed) /\ erasing = {} /\ \A s \in Spare(hdr, chain) : Will[s] = {}
        /\ pc \in {"place", "pop"} => Ctrl(Will) = {}
    BY <1>1 DEF InWork
  <2> QED BY <1>2, <2>1 DEF InWork
<1>4. csc => Once(acts')
  BY <1>1 DEF InPlace
<1> QED BY <1>3, <1>4, KeepCalm

LEMMA KeepEndFile ==
  ASSUME ListHeld, WeaveHeld, BlankInv, KeepHeld, Cleanly', EndFile
  PROVE  KeepHeld'
<1> DEFINE f == Head(todo).file
           old == files[f]
           m == at.i
           h == hdr'
           w == Will
           fs == files'
           to == Walk(hdr.next, at.frst)
<1>0. Plainly'
  BY DEF Cleanly, Plainly
<1>1. /\ pc = "file" /\ pc' = "file" /\ Quiet /\ acts' = acts /\ marks' = marks
      /\ Sound(hdr, chain, files) /\ AtFile /\ todo # <<>> /\ m = Head(todo).len
      /\ Head(todo) \in [file : Files, len : Nat]
      /\ todo' = Tail(todo) /\ at' = [i |-> 0, frst |-> h.free]
      /\ old # None => old.frst \in Sectors /\ m # 0
      /\ fs = [files EXCEPT ![f] = [frst |-> IF old = None /\ m = 0 THEN None ELSE at.frst,
                                    len |-> m, gen |-> gen]]
      /\ FreeSectors(h) = FreeSectors(hdr) /\ h.fctrl = hdr.fctrl /\ h.free = hdr.free
      /\ h.next = hdr.next
      /\ h.type = IF old = None THEN hdr.type ELSE [hdr.type EXCEPT ![old.frst] = "unused"]
  BY <1>0, EndFileDoes
<1>2. InWork /\ Filing /\ (csc => InPlace)
  BY <1>1 DEF KeepHeld, Working
<1>3. /\ hdr \in Header /\ m \in Nat /\ f \in Files /\ DOMAIN files = Files
      /\ Cardinality(FreeSectors(hdr)) \in Nat /\ Cardinality(FreeSectors(hdr)) <= NumSects
  BY <1>1, HeaderIs, SectorsAtMost DEF Sound, AtFile
<1>4. Will' = w
  BY <1>1 DEF Will, Base, Quiet
<1>5. /\ Laid(hdr, w, f, at.frst, gen, m) /\ (m > 0 => at.frst \notin FirstsOf(files))
      /\ m + Cardinality(FreeSectors(hdr)) <= NumSects /\ Held(hdr, w, files)
      /\ {s \in Sectors : marks[s] = 240} = Ctrl(w) /\ Ctrl(w) = (IF csc THEN ToSet(disk.chain) ELSE {})
      /\ ~csc => w[0] = {}
  BY <1>1, <1>2 DEF Filing, InWork
<1>6. m \in 0 .. NumSects
  BY <1>3, <1>5, SectsIs
<1> HIDE DEF w, h, fs
\* The new entry.
<1>7. at.frst \in Sectors /\ hdr.type[at.frst] = "first" /\ m > 0 => h.type[at.frst] = "first"
  <2> SUFFICES ASSUME at.frst \in Sectors, hdr.type[at.frst] = "first", m > 0, old # None
               PROVE  h.type[at.frst] = "first"
    BY <1>1
  <2>1. old.frst \in FirstsOf(files)
    BY <1>1, <1>3 DEF FirstsOf
  <2>2. at.frst # old.frst
    BY <1>5, <2>1
  <2> HIDE DEF old
  <2> QED BY <1>1, <1>3, <2>2, HeaderIs
<1>8. Laid(h, w, f, at.frst, gen, m)
  <2>1. CASE m = 0
    <3>1. 0 .. 0 - 1 = {}
      OBVIOUS
    <3> QED BY <2>1, <3>1 DEF Laid
  <2>2. CASE m > 0
    <3>1. h.next = hdr.next
          /\ (at.frst \in Sectors /\ hdr.type[at.frst] = "first" => h.type[at.frst] = "first")
      BY <1>1, <1>7, <2>2
    <3> HIDE DEF m, f
    <3> QED BY <1>5, <3>1, LaidAlike
  <2> QED BY <1>3, <2>1, <2>2
<1>9. fs[f] # None => /\ fs[f].len \in 0 .. NumSects /\ (fs[f].len = 0 => fs[f].frst \notin Sectors)
                      /\ Laid(h, w, f, fs[f].frst, fs[f].gen, fs[f].len)
  <2> DEFINE frst == IF old = None /\ m = 0 THEN None ELSE at.frst
  <2>1. fs[f].len = m /\ fs[f].frst = frst /\ fs[f].gen = gen
    <3> HIDE DEF f, m, old
    <3> QED BY <1>1, <1>3
  <2>2. m = 0 => frst \notin Sectors
    BY <1>1, BatchesAssumption
  <2>3. Laid(h, w, f, frst, gen, m)
    <3>1. CASE m = 0
      <4>1. 0 .. 0 - 1 = {}
        OBVIOUS
      <4> QED BY <3>1, <4>1 DEF Laid
    <3>2. CASE m > 0
      <4>1. frst = at.frst
        BY <3>2
      <4> HIDE DEF frst
      <4> QED BY <1>8, <4>1
    <3> QED BY <1>3, <3>1, <3>2
  <2> HIDE DEF frst, f, m
  <2> QED BY <1>6, <2>1, <2>2, <2>3
\* The others.
<1>10. ASSUME NEW g \in Files, g # f, files[g] # None
       PROVE  /\ files[g].len \in 0 .. NumSects /\ (files[g].len = 0 => files[g].frst \notin Sectors)
              /\ Laid(h, w, g, files[g].frst, files[g].gen, files[g].len)
  <2> DEFINE e == files[g]
  <2>1. /\ e.len \in 0 .. NumSects /\ (e.len = 0 => e.frst \notin Sectors)
        /\ Laid(hdr, w, g, e.frst, e.gen, e.len)
    BY <1>5, <1>10 DEF Held
  <2>2. old # None => w[old.frst] = {<<f, old.gen, 0>>}
    <3> SUFFICES ASSUME old # None PROVE w[old.frst] = {<<f, old.gen, 0>>}
      OBVIOUS
    <3>1. /\ old.len \in 0 .. NumSects /\ (old.len = 0 => old.frst \notin Sectors)
          /\ Laid(hdr, w, f, old.frst, old.gen, old.len)
      BY <1>3, <1>5 DEF Held
    <3>2. Walk(hdr.next, old.frst)[0] = old.frst
      BY WalkIs DEF Steps
    <3> HIDE DEF old, f
    <3>3. 0 \in 0 .. old.len - 1
      BY <1>1, <3>1
    <3> QED BY <3>1, <3>2, <3>3 DEF Laid
  <2>3. e.len # 0 => w[e.frst] = {<<g, e.gen, 0>>}
    <3>1. Walk(hdr.next, e.frst)[0] = e.frst
      BY WalkIs DEF Steps
    <3> HIDE DEF e
    <3> SUFFICES ASSUME e.len # 0 PROVE w[e.frst] = {<<g, e.gen, 0>>}
      OBVIOUS
    <3>2. 0 \in 0 .. e.len - 1
      BY <2>1
    <3> QED BY <2>1, <3>1, <3>2 DEF Laid
  <2>4. old # None /\ e.len # 0 => e.frst # old.frst
    <3>1. <<g, e.gen, 0>> # <<f, old.gen, 0>>
      BY <1>10
    <3> HIDE DEF old, e, f
    <3> QED BY <2>2, <2>3, <3>1
  <2>5. Laid(h, w, g, e.frst, e.gen, e.len)
    <3> HIDE DEF e, old
    <3>1. CASE e.len = 0
      <4>1. 0 .. 0 - 1 = {}
        OBVIOUS
      <4> QED BY <3>1, <4>1 DEF Laid
    <3>2. CASE e.len # 0
      <4>1. e.frst \in Sectors /\ hdr.type[e.frst] = "first" => h.type[e.frst] = "first"
        BY <1>1, <1>3, <2>4, <3>2, HeaderIs
      <4> QED BY <1>1, <2>1, <4>1, LaidAlike
    <3> QED BY <3>1, <3>2
  <2> QED BY <2>1, <2>5
<1>11. Held(h, w, fs)
  <2> SUFFICES ASSUME NEW g \in Files, fs[g] # None
               PROVE  /\ fs[g].len \in 0 .. NumSects /\ (fs[g].len = 0 => fs[g].frst \notin Sectors)
                      /\ Laid(h, w, g, fs[g].frst, fs[g].gen, fs[g].len)
    BY DEF Held
  <2>1. CASE g = f
    BY <1>9, <2>1
  <2>2. CASE g # f
    <3>1. fs[g] = files[g]
      BY <1>1, <1>3, <2>2
    <3> QED BY <1>10, <2>2, <3>1
  <2> QED BY <2>1, <2>2
<1>12. Filing'
  <2>1. at'.i = 0 /\ at'.frst = h.free /\ marks' = marks /\ csc' = csc /\ disk' = disk
    BY <1>1 DEF Quiet
  <2>2. Walk(h.next, h.free)[0] = h.free
    BY WalkIs DEF Steps
  <2>3. 0 .. 0 - 1 = {} /\ ~(0 > 0)
    OBVIOUS
  <2>4. \A g : Laid(h, w, g, h.free, gen', 0)
    BY <2>3 DEF Laid
  <2>5. 0 + Cardinality(FreeSectors(h)) <= NumSects
    BY <1>1, <1>3, SectsIs
  <2> HIDE DEF m, f
  <2> QED BY <1>4, <1>5, <2>1, <2>2, <2>3, <2>4, <2>5 DEF Filing, h, fs, w
<1>13. Spare(h, chain') = Spare(hdr, chain)
  BY <1>0, ListEndFile DEF h
<1>14. csc => ToSet(chain') \subseteq Old
  BY <1>1, <1>2 DEF InPlace, Quiet
<1> QED BY <1>1, <1>2, <1>11, <1>12, <1>13, <1>14, KeepQuiet DEF Quiet, w, h, fs

\* What the marks are.
MarksOf(S) == {a \in Written : a.op = "mark" /\ a.sect \in S /\ a.what = <<"void">>}
LEMMA MarksAre ==
  ASSUME NEW S, S \subseteq Sectors
  PROVE  /\ MarkActs(S) \in Seq(MarksOf(S)) /\ Once(MarkActs(S))
         /\ \A s \in Sectors : Burnt(MarkActs(S), s) = IF s \in S THEN {<<"void">>} ELSE {}
<1> DEFINE n == Cardinality(S)
           f == MarkActs(S)
<1>1. n \in Nat
  BY SetOfSectors
<1>2. f = [k \in 1 .. n |-> [op |-> "mark", sect |-> Ascending(S)[k], what |-> <<"void">>]]
  BY DEF MarkActs
<1>3. \A k \in 1 .. n : Ascending(S)[k] \in S /\ Cardinality({t \in S : t < Ascending(S)[k]}) = k - 1
  BY AscendingIn
<1>4. ASSUME NEW s \in S
      PROVE  \E k \in 1 .. n : Ascending(S)[k] = s
  BY AscendingAll
<1> DEFINE x(k) == Ascending(S)[k]
<1>5. DOMAIN f = 1 .. n /\ \A k \in 1 .. n : f[k].op = "mark" /\ f[k].sect = x(k) /\ f[k].what = <<"void">>
                                             /\ f[k] = [op |-> "mark", sect |-> x(k), what |-> <<"void">>]
  BY <1>2
<1> HIDE DEF f, n, x
<1>6. ASSUME NEW k \in 1 .. n
      PROVE  f[k] \in MarksOf(S)
  <2>1. x(k) \in S /\ x(k) \in Sectors
    BY <1>3 DEF x
  <2>2. [op |-> "mark", sect |-> x(k), what |-> <<"void">>] \in Written
    BY <2>1 DEF Written, Whats
  <2> QED BY <1>5, <2>1, <2>2 DEF MarksOf
<1>7. f \in Seq(MarksOf(S))
  <2>1. f = [k \in 1 .. n |-> f[k]]
    BY <1>2, <1>5
  <2> QED BY <1>1, <1>6, <2>1
<1>8. ASSUME NEW j \in 1 .. n, NEW k \in 1 .. n, x(j) = x(k)
      PROVE  j = k
  <2>1. j - 1 = k - 1
    BY <1>3, <1>8 DEF x
  <2> QED BY <2>1
<1>9. Once(f)
  BY <1>5, <1>8 DEF Once
<1>10. ASSUME NEW s \in Sectors
       PROVE  Burnt(f, s) = IF s \in S THEN {<<"void">>} ELSE {}
  <2>1. Burnt(f, s) = {f[k].what : k \in {j \in 1 .. n : f[j].sect = s}}
    BY <1>5 DEF Burnt
  <2>2. \A k \in 1 .. n : f[k].what = <<"void">> /\ f[k].sect = x(k) /\ x(k) \in S
    BY <1>3, <1>5 DEF x
  <2>3. CASE s \in S
    <3>1. PICK k \in 1 .. n : x(k) = s
      BY <1>4, <2>3 DEF x
    <3>2. <<"void">> \in Burnt(f, s)
      BY <2>1, <2>2, <3>1
    <3>3. \A y \in Burnt(f, s) : y = <<"void">>
      BY <2>1, <2>2
    <3> QED BY <2>3, <3>2, <3>3
  <2>4. CASE s \notin S
    <3>1. \A k \in 1 .. n : f[k].sect # s
      BY <2>2, <2>4
    <3> QED BY <2>1, <2>4, <3>1
  <2> QED BY <2>3, <2>4
<1> QED BY <1>7, <1>9, <1>10 DEF f

\* Two stretches of actions of which one has no marks.
LEMMA OnceOn ==
  ASSUME NEW R, NEW ds \in Seq(R), NEW es \in Seq(R), Once(ds), Once(es),
         (\A k \in DOMAIN ds : ds[k].op = "write") \/ (\A k \in DOMAIN es : es[k].op = "write")
  PROVE  Once(ds \o es)
<1> DEFINE cs == ds \o es
           n == Len(ds)
           m == Len(es)
<1>1. DOMAIN ds = 1 .. n /\ DOMAIN es = 1 .. m /\ DOMAIN cs = 1 .. n + m
  BY ConcatProperties, LenProperties
<1>2. /\ n \in Nat /\ m \in Nat
      /\ \A k \in 1 .. n + m : cs[k] = IF k <= n THEN ds[k] ELSE es[k - n]
  BY ConcatProperties, LenProperties
<1> HIDE DEF cs, n, m
<1>3. ASSUME NEW k \in 1 .. n + m
      PROVE  \/ k \in 1 .. n /\ cs[k] = ds[k]
             \/ k - n \in 1 .. m /\ cs[k] = es[k - n] /\ k > n
  <2>1. CASE k <= n
    <3>1. cs[k] = ds[k]
      BY <1>2, <2>1
    <3> QED BY <1>2, <2>1, <3>1
  <2>2. CASE ~(k <= n)
    <3>1. cs[k] = es[k - n]
      BY <1>2, <2>2
    <3>2. k - n \in 1 .. m /\ k > n
      BY <1>2, <2>2
    <3> QED BY <3>1, <3>2
  <2> QED BY <2>1, <2>2
<1> SUFFICES ASSUME NEW j \in 1 .. n + m, NEW k \in 1 .. n + m,
                    cs[j].op = "mark", cs[k].op = "mark", cs[j].sect = cs[k].sect
             PROVE  j = k
  BY <1>1 DEF Once, cs
<1>4. CASE \A i \in DOMAIN ds : ds[i].op = "write"
  <2>1. \A i \in 1 .. n : ds[i].op # "mark"
    BY <1>1, <1>4
  <2>2. /\ j - n \in 1 .. m /\ cs[j] = es[j - n] /\ j > n
        /\ k - n \in 1 .. m /\ cs[k] = es[k - n] /\ k > n
    BY <1>3, <2>1
  <2>3. j - n = k - n
    BY <1>1, <2>2 DEF Once
  <2> QED BY <1>2, <2>3
<1>5. CASE \A i \in DOMAIN es : es[i].op = "write"
  <2>1. \A i \in 1 .. m : es[i].op # "mark"
    BY <1>1, <1>5
  <2>2. /\ j \in 1 .. n /\ cs[j] = ds[j]
        /\ k \in 1 .. n /\ cs[k] = ds[k]
    BY <1>3, <2>1
  <2> QED BY <1>1, <2>2 DEF Once
<1> QED BY <1>4, <1>5

LEMMA KeepInvalidate ==
  ASSUME ListHeld, WeaveHeld, KeepHeld, Cleanly', Invalidate
  PROVE  KeepHeld'
<1> DEFINE x == IF csc THEN disk.chain[1] ELSE 0
           h == hdr'
           w == Will
           v == Will'
           C == Ctrl(w)
           es == MarkActs(C)
           R == Allowed'
<1>0. Plainly'
  BY DEF Cleanly, Plainly
<1>1. /\ pc = "file" /\ pc' = "place" /\ Quiet /\ files' = files
      /\ Sound(hdr, chain, files) /\ AtFile
      /\ acts' = acts \o MarkActs({s \in Sectors : marks[s] = 240})
      /\ FreeSectors(h) = FreeSectors(hdr) /\ h.next = hdr.next
      /\ h.type = [hdr.type EXCEPT ![x] = "unused"]
  BY <1>0, InvalidateDoes
<1>2. InWork /\ Filing /\ (csc => InPlace)
  BY <1>1 DEF KeepHeld, Working
<1>3. /\ hdr \in Header /\ C \subseteq Sectors /\ chain = <<>>
      /\ acts' = acts \o es /\ C = (IF csc THEN ToSet(disk.chain) ELSE {}) /\ (~csc => w[0] = {})
      /\ Held(hdr, w, files) /\ acts \in Seq(Allowed) /\ erasing = {}
      /\ \A s \in Spare(hdr, chain) : w[s] = {}
  BY <1>1, <1>2 DEF Sound, AtFile, Filing, InWork, Ctrl
<1>4. /\ es \in Seq(MarksOf(C)) /\ Once(es)
      /\ \A s \in Sectors : Burnt(es, s) = IF s \in C THEN {<<"void">>} ELSE {}
  BY <1>3, MarksAre
<1>5. acts \in Seq(R) /\ es \in Seq(R)
  <2>1. Old' = Old /\ pc' = "place" /\ csc' = csc /\ disk' = disk
    BY <1>1 DEF Old, Quiet
  <2>2. Allowed \subseteq R
    BY <1>1, <2>1 DEF Allowed
  <2>3. MarksOf(C) \subseteq R
    <3> HIDE DEF C
    <3> SUFFICES ASSUME NEW a \in MarksOf(C) PROVE a \in R
      OBVIOUS
    <3>1. a \in Written /\ a.op = "mark" /\ a.sect \in C /\ a.what = <<"void">>
      BY DEF MarksOf
    <3>2. <<"void">>[1] # "ctrl"
      OBVIOUS
    <3>3. ~IsCtrl(a.what)
      BY <3>1, <3>2 DEF IsCtrl
    <3> QED BY <1>3, <2>1, <3>1, <3>3 DEF Allowed
  <2> HIDE DEF R, es, C
  <2> QED BY <1>3, <1>4, <2>2, <2>3, SeqsOver
<1>6. acts' \in Seq(R)
  <2> HIDE DEF R, es
  <2> QED BY <1>3, <1>5, SeqsOver
<1>7. \A s \in Sectors : v[s] = w[s] \cup (IF s \in C THEN {<<"void">>} ELSE {})
  <2> SUFFICES ASSUME NEW s \in Sectors
               PROVE  v[s] = w[s] \cup (IF s \in C THEN {<<"void">>} ELSE {})
    OBVIOUS
  <2>1. v = Done(Base, acts \o es) /\ w = Done(Base, acts)
    BY <1>1, <1>3 DEF Will, Base, Quiet
  <2> HIDE DEF R, es, C, w, v
  <2>2. Done(Base, acts \o es)[s] = Done(Base, acts)[s] \cup Burnt(es, s)
    BY <1>5, DoneConcat
  <2> QED BY <1>4, <2>1, <2>2
<1> HIDE DEF w, v, C, es, R, h
<1>8. x \notin Stored(w)
  <2>1. CASE csc
    <3>1. disk # None
      BY <1>1, <2>1 DEF AtFile
    <3>2. disk.chain \in Seq(Sectors) /\ disk.chain # <<>>
      BY <3>1 DEF ListHeld, DiskSound, Sound, Chained
    <3>3. disk.chain[1] \in ToSet(disk.chain)
      BY <3>2 DEF ToSet
    <3>4. x \in Ctrl(w)
      BY <1>3, <2>1, <3>3 DEF C
    <3> QED BY <3>4, StoredIs
  <2>2. CASE ~csc
    BY <1>3, <2>2, StoredIs
  <2> QED BY <2>1, <2>2
<1>9. Keeps(hdr, w, h, v)
  <2> SUFFICES ASSUME NEW s \in Stored(w)
               PROVE  v[s] = w[s] /\ h.next[s] = hdr.next[s] /\ (hdr.type[s] = "first" => h.type[s] = "first")
    BY DEF Keeps
  <2>1. s \in Sectors /\ s # x /\ s \notin C
    BY <1>8, StoredIs DEF C
  <2> HIDE DEF x
  <2>2. v[s] = w[s]
    BY <1>7, <2>1
  <2>3. h.type[s] = hdr.type[s] /\ h.next[s] = hdr.next[s]
    BY <1>1, <1>3, <2>1, HeaderIs
  <2> QED BY <2>2, <2>3
<1>10. Held(h, v, files)
  BY <1>3, <1>9, HeldStays
<1>11. Ctrl(v) = {}
  <2> SUFFICES ASSUME NEW s \in Ctrl(v) PROVE FALSE
    OBVIOUS
  <2>1. s \in Sectors /\ v[s] # {} /\ \A y \in v[s] : IsCtrl(y)
    BY DEF Ctrl
  <2>2. CASE s \in C
    <3>1. <<"void">> \in v[s] /\ <<"void">>[1] # "ctrl"
      BY <1>7, <2>1, <2>2
    <3> QED BY <2>1, <3>1 DEF IsCtrl
  <2>3. CASE s \notin C
    <3>1. v[s] = w[s]
      BY <1>7, <2>1, <2>3
    <3> QED BY <2>1, <2>3, <3>1 DEF C, Ctrl
  <2> QED BY <2>2, <2>3
<1>12. \A s \in Spare(h, chain') : v[s] = {}
  <2>1. Spare(h, chain') = Spare(hdr, chain)
    BY <1>0, ListInvalidate DEF h
  <2>2. \A s \in Spare(hdr, chain) : s \in Sectors /\ s \notin C
    BY <1>3, HeaderIs DEF Spare, Rest, C, Ctrl
  <2> QED BY <1>3, <1>7, <2>1, <2>2
<1>13. ToSet(chain') = {}
  BY <1>1, <1>3 DEF Quiet, ToSet
<1>14. InWork'
  <2>1. erasing' = {} /\ files' = files /\ pc' = "place"
    BY <1>1, <1>3 DEF Quiet
  <2> QED BY <1>6, <1>10, <1>11, <1>12, <1>13, <2>1 DEF InWork, R, v, h
<1>15. Once(acts')
  <2>1. Once(acts)
    <3>1. \A k \in DOMAIN acts : acts[k] \in Allowed
      BY <1>3
    <3>2. \A k \in DOMAIN acts : acts[k].op = "write"
      BY <1>1, <3>1 DEF Allowed
    <3> QED BY <3>2, WritesOnce
  <2>2. \A k \in DOMAIN acts : acts[k].op = "write"
    <3>1. \A k \in DOMAIN acts : acts[k] \in Allowed
      BY <1>3
    <3> QED BY <1>1, <3>1 DEF Allowed
  <2> QED BY <1>3, <1>4, <1>5, <2>1, <2>2, OnceOn
<1> QED BY <1>1, <1>13, <1>14, <1>15, KeepCalm DEF Quiet

\* One more control sector.
LEMMA KeepPlace ==
  ASSUME ListHeld, BlankInv, KeepHeld, Cleanly', Place
  PROVE  KeepHeld'
<1> DEFINE h == hdr'
           w == Will
<1>0. Plainly'
  BY DEF Cleanly, Plainly
<1>1. /\ pc = "place" /\ pc' = "place" /\ csc' = csc /\ cell' = cell /\ disk' = disk
      /\ erasing' = erasing /\ hit' = hit /\ files' = files /\ acts' = acts
      /\ Sound(hdr, chain, files)
      /\ \E g, s, ty : PlacesIn(g, s, ty) /\ chain' = Append(chain, s)
  BY <1>0, PlaceDoes
<1>2. PICK g, s, ty : PlacesIn(g, s, ty) /\ chain' = Append(chain, s)
  BY <1>1
<1>3. InWork /\ (csc => InPlace)
  BY <1>1 DEF KeepHeld, Working
<1>4. /\ hdr \in Header /\ g \in Header /\ s \in Sectors
      /\ FreeSectors(g) \cup Rest(s, BlockOf(s)) \subseteq Spare(hdr, chain) /\ Apart(hdr, g)
      /\ h = [free |-> g.free, last |-> g.last, fctrl |-> s + 1,
              type |-> [g.type EXCEPT ![s] = ty], next |-> g.next]
      /\ chain \in Seq(Sectors)
  BY <1>1, <1>2 DEF PlacesIn, Sound, Chained
<1>5. s \in Spare(hdr, chain)
  <2>1. s \in Nat
    BY <1>4, SectsIs
  <2>2. s >= s
    BY <2>1
  <2>3. s \in Rest(s, BlockOf(s))
    BY <1>4, <2>2 DEF Rest
  <2> QED BY <1>4, <2>3
<1>6. /\ \A t \in Spare(hdr, chain) : w[t] = {} 
      /\ \A t \in ToSet(chain) : w[t] = {}
      /\ Held(hdr, w, files)
  BY <1>1, <1>3 DEF InWork
<1> HIDE DEF w, h
<1>7. h.type = [g.type EXCEPT ![s] = ty] /\ h.next = g.next
  BY <1>4
<1>8. Keeps(hdr, w, h, w)
  <2> SUFFICES ASSUME NEW t \in Stored(w)
               PROVE  h.next[t] = hdr.next[t] /\ (hdr.type[t] = "first" => h.type[t] = "first")
    BY DEF Keeps
  <2>1. t \in Sectors /\ t \notin Spare(hdr, chain)
    BY <1>6, StoredIs
  <2>2. t # s /\ t \notin FreeSectors(hdr)
    BY <1>5, <2>1 DEF Spare
  <2>3. g.type[t] = hdr.type[t] /\ g.next[t] = hdr.next[t]
    BY <1>4, <2>1, <2>2 DEF Apart
  <2> QED BY <1>4, <1>7, <2>1, <2>2, <2>3, HeaderIs
<1>9. Held(h, w, files)
  BY <1>6, <1>8, HeldStays
<1>10. ToSet(chain') = ToSet(chain) \cup {s}
  <2> DEFINE c == Append(chain, s)
  <2>1. DOMAIN c = 1 .. Len(chain) + 1 /\ DOMAIN chain = 1 .. Len(chain) /\ Len(chain) \in Nat
        /\ c[Len(chain) + 1] = s /\ \A i \in 1 .. Len(chain) : c[i] = chain[i]
    BY <1>4
  <2> HIDE DEF c
  <2>2. ToSet(c) = ToSet(chain) \cup {s}
    BY <2>1 DEF ToSet
  <2> QED BY <1>2, <2>2 DEF c
<1>11. \A t \in ToSet(chain') : w[t] = {}
  BY <1>5, <1>6, <1>10
<1>12. csc => ToSet(chain') \subseteq Old
  <2> SUFFICES ASSUME csc PROVE ToSet(chain') \subseteq Old
    OBVIOUS
  <2>1. ToSet(chain) \subseteq Old /\ Untorn
    BY <1>3 DEF InPlace
  <2>2. s \in Old
    BY <1>1, <1>5, <2>1, SpareIsOld
  <2> QED BY <1>10, <2>1, <2>2
<1>13. Spare(h, chain') \subseteq Spare(hdr, chain)
  BY <1>0, ListPlace DEF h
<1> QED BY <1>1, <1>9, <1>11, <1>12, <1>13, KeepQuiet DEF h, w

LEMMA KeepPlaced ==
  ASSUME KeepHeld, Cleanly', Placed
  PROVE  KeepHeld'
<1>1. /\ pc = "place" /\ pc' = "pop" /\ csc' = csc /\ cell' = cell /\ disk' = disk
      /\ erasing' = erasing /\ hit' = hit /\ files' = files /\ acts' = acts
      /\ hdr' = hdr /\ chain' = chain
  <2>1. ~Wreck("stray")
    BY DEF Wreck, Taken, Cleanly
  <2> QED BY <2>1 DEF Placed, phoneVars
<1>2. InWork /\ (csc => InPlace)
  BY <1>1 DEF KeepHeld, Working
<1>3. Held(hdr, Will, files) /\ (\A t \in ToSet(chain) : Will[t] = {}) /\ (csc => ToSet(chain) \subseteq Old)
  BY <1>1, <1>2 DEF InWork, InPlace
<1> QED BY <1>1, <1>3, KeepQuiet

LEMMA KeepPop ==
  ASSUME ListHeld, KeepHeld, Cleanly', Pop
  PROVE  KeepHeld'
<1> DEFINE x == hdr.free
           h == hdr'
           w == Will
<1>0. Plainly'
  BY DEF Cleanly, Plainly
<1>1. /\ pc = "pop" /\ pc' = "pop" /\ Quiet /\ files' = files /\ acts' = acts
      /\ Sound(hdr, chain, files) /\ x \in FreeSectors(hdr)
      /\ h.next = hdr.next /\ h.type = [hdr.type EXCEPT ![x] = "unused"]
  BY <1>0, PopDoes
<1>2. InWork /\ (csc => InPlace)
  BY <1>1 DEF KeepHeld, Working
<1>3. /\ hdr \in Header /\ Held(hdr, w, files) /\ (\A t \in ToSet(chain) : w[t] = {})
      /\ (csc => ToSet(chain) \subseteq Old) /\ \A s \in Spare(hdr, chain) : w[s] = {}
  BY <1>1, <1>2 DEF InWork, InPlace, Sound
<1> HIDE DEF w, h
<1>4. Keeps(hdr, w, h, w)
  <2> SUFFICES ASSUME NEW t \in Stored(w)
               PROVE  h.next[t] = hdr.next[t] /\ (hdr.type[t] = "first" => h.type[t] = "first")
    BY DEF Keeps
  <2>1. t \in Sectors /\ t # x
    BY <1>1, <1>3, StoredIs DEF Spare
  <2> QED BY <1>1, <1>3, <2>1, HeaderIs
<1>5. Held(h, w, files)
  BY <1>3, <1>4, HeldStays
<1>6. Spare(h, chain') \subseteq Spare(hdr, chain)
  BY <1>0, ListPop DEF h
<1> QED BY <1>1, <1>3, <1>5, <1>6, KeepQuiet DEF Quiet, w, h

\* A step that leaves the patch, before anything was sent.
LEMMA KeepLeft ==
  ASSUME KeepHeld, pc \in {"file", "place", "pop"}, Abandon
  PROVE  KeepHeld'
<1>1. pc' = "idle" /\ acts' = <<>> /\ disk' = disk /\ cell' = cell
  BY DEF Abandon, phoneVars
<1>2. Kept' = Kept
  BY <1>1 DEF Kept, Old
<1>3. Readable(disk)' <=> Readable(disk)
  BY <1>1 DEF Readable, ChipMark
<1>4. disk # None => Held(Parsed(disk), Kept, disk.files) /\ Readable(disk)
  BY DEF KeepHeld
<1>5. disk' # None => Held(Parsed(disk'), Kept', disk'.files) /\ Readable(disk)'
  BY <1>1, <1>2, <1>3, <1>4
<1> QED BY <1>1, <1>5 DEF KeepHeld, Working

\* What a page is marked as is what it holds.
LEMMA MarkedIs ==
  /\ {s \in Sectors : ChipMark(s) = 240} = Ctrl(cell)
  /\ disk # None /\ Readable(disk) => Ctrl(cell) = ToSet(disk.chain)
<1>1. \A s \in Sectors : ChipMark(s) = 240 <=> s \in Ctrl(cell)
  BY DEF ChipMark, Ctrl
<1>2. Ctrl(cell) \subseteq Sectors
  BY DEF Ctrl
<1>3. {s \in Sectors : ChipMark(s) = 240} = Ctrl(cell)
  BY <1>1, <1>2
<1> QED BY <1>3 DEF Readable, ToSet

LEMMA KeepBeginTfs ==
  ASSUME KeepHeld, Cleanly', BeginTfs
  PROVE  KeepHeld'
<1> DEFINE v == Will'
           h == hdr'
<1>1. /\ pc = "idle" /\ pc' = "file" /\ csc' = FALSE /\ h = FreshHeader /\ chain' = <<>>
      /\ files' = [f \in Files |-> None] /\ at' = [i |-> 0, frst |-> h.free] /\ erasing' = {}
      /\ acts' = acts /\ disk' = disk /\ cell' = cell
      /\ {s \in Sectors : marks'[s] = 240} = {}
  <2>1. PICK old \in BOOLEAN : /\ marks' = IF old THEN marks ELSE [s \in Sectors |-> 0]
                               /\ IF old /\ \E s \in Sectors : marks[s] = 240 THEN Taken("recycled")
                                  ELSE UNCHANGED hit
    BY DEF BeginTfs
  <2>2. ~Taken("recycled")
    BY DEF Taken, Cleanly
  <2>3. {s \in Sectors : marks'[s] = 240} = {}
    <3>1. CASE old
      BY <2>1, <2>2, <3>1
    <3>2. CASE ~old
      <4>1. \A s \in Sectors : marks'[s] = 0
        BY <2>1, <3>2
      <4>2. 0 # 240
        OBVIOUS
      <4> QED BY <4>1, <4>2
    <3> QED BY <3>1, <3>2
  <2> QED BY <2>3 DEF BeginTfs, Enter, phoneVars
<1>2. acts' = <<>>
  BY <1>1 DEF KeepHeld
<1>3. \A s \in Sectors : v[s] = {}
  <2>1. v = Done([s \in Sectors |-> {}], <<>>)
    BY <1>1, <1>2 DEF Will, Base
  <2>2. \A s \in Sectors : [t \in Sectors |-> {}][s] = {}
    OBVIOUS
  <2>3. \A s \in Sectors : Done([t \in Sectors |-> {}], <<>>)[s] = [t \in Sectors |-> {}][s]
    BY DoneNone
  <2> QED BY <2>1, <2>2, <2>3
<1> HIDE DEF v, h
<1>4. /\ FreeSectors(h) \subseteq Sectors /\ Cardinality(FreeSectors(h)) <= NumSects
      /\ Cardinality(FreeSectors(h)) \in Nat
  BY <1>1, FreshIs, HeaderIs, SectorsAtMost
<1>5. \A s \in Spare(h, chain') : v[s] = {}
  BY <1>3, <1>4 DEF Spare, Rest
<1>6. Held(h, v, files')
  BY <1>1 DEF Held
<1>7. Ctrl(v) = {}
  BY <1>3 DEF Ctrl
<1>8. InWork'
  BY <1>1, <1>2, <1>5, <1>6, SeqsOver DEF InWork, v, h
<1>9. Filing'
  <2>1. at'.i = 0 /\ at'.frst = h.free
    BY <1>1
  <2>2. Walk(h.next, h.free)[0] = h.free
    BY WalkIs DEF Steps
  <2>3. 0 .. 0 - 1 = {} /\ ~(0 > 0)
    OBVIOUS
  <2>4. \A f : Laid(h, v, f, h.free, gen', 0)
    BY <2>3 DEF Laid
  <2>5. 0 + Cardinality(FreeSectors(h)) <= NumSects
    BY <1>4, SectsIs
  <2>6. v[0] = {}
    <3>1. 0 \in Sectors
      BY SectsIs DEF Sectors
    <3> QED BY <1>3, <3>1
  <2> QED BY <1>1, <1>7, <2>1, <2>2, <2>3, <2>4, <2>5, <2>6 DEF Filing, h, v
<1>10. disk' # None => Held(Parsed(disk'), Kept', disk'.files) /\ Readable(disk)'
  <2>1. Kept' = Kept
    BY <1>1 DEF Kept, Old
  <2>2. Readable(disk)' <=> Readable(disk)
    BY <1>1 DEF Readable, ChipMark
  <2>3. disk # None => Held(Parsed(disk), Kept, disk.files) /\ Readable(disk)
    BY <1>1 DEF KeepHeld
  <2> QED BY <1>1, <2>1, <2>2, <2>3
<1> QED BY <1>1, <1>8, <1>9, <1>10 DEF KeepHeld

LEMMA KeepBeginCsc ==
  ASSUME ListHeld, BlankInv, KeepHeld, Cleanly', BeginCsc
  PROVE  KeepHeld'
<1> DEFINE v == Will'
           h == hdr'
<1>1. /\ pc = "idle" /\ pc' = "file" /\ csc' = TRUE /\ h = Parsed(disk) /\ chain' = <<>>
      /\ files' = disk.files /\ at' = [i |-> 0, frst |-> h.free] /\ erasing' = {}
      /\ acts' = acts /\ disk' = disk /\ cell' = cell /\ disk # None /\ Readable(disk) /\ InOrder(disk)
      /\ marks' = [s \in Sectors |-> ChipMark(s)]
      /\ Untorn /\ Untorn'
  <2>1. ~Wreck("short") /\ ~Taken("retry")
    BY DEF Wreck, Taken, Cleanly
  <2>2. "torn" \notin hit /\ hit' = hit
    BY <2>1 DEF BeginCsc
  <2>3. Untorn /\ Untorn'
    BY <2>2 DEF Cleanly, Untorn
  <2> QED BY <2>1, <2>2, <2>3 DEF BeginCsc, Enter, phoneVars
<1>2. acts' = <<>>
  BY <1>1 DEF KeepHeld
<1>3. \A s \in Sectors : v[s] = cell[s]
  <2>1. v = Done(cell, <<>>)
    BY <1>1, <1>2 DEF Will, Base
  <2> QED BY <2>1, DoneNone
<1>4. Sound(Parsed(disk), disk.chain, disk.files) /\ disk.fctrl = Parsed(disk).fctrl /\ DiskSound
  BY <1>1 DEF ListHeld, DiskSound
<1>5. \A s \in Old : cell[s] = {}
  BY <1>1 DEF BlankInv, BlankHeld, Old
<1>6. Spare(h, chain') = Old
  <2> DEFINE g == Parsed(disk)
  <2>1. CtrlBlock(<<>>, disk.fctrl) = CtrlBlock(disk.chain, disk.fctrl)
    BY <1>1, <1>4, SameBlock
  <2>2. CtrlBlock(<<>>, g.fctrl) = CtrlBlock(disk.chain, g.fctrl)
    BY <1>4, <2>1
  <2> HIDE DEF g
  <2>3. Spare(g, <<>>) = Spare(g, disk.chain)
    BY <2>2 DEF Spare
  <2> QED BY <1>1, <2>3 DEF Old, g
<1> HIDE DEF v, h
<1>7. /\ FreeSectors(h) \subseteq Sectors /\ Cardinality(FreeSectors(h)) <= NumSects
      /\ Cardinality(FreeSectors(h)) \in Nat /\ h \in Header
  BY <1>1, <1>4, HeaderIs, SectorsAtMost DEF Sound
<1>8. \A s \in Spare(h, chain') : v[s] = {}
  <2>1. Spare(h, chain') \subseteq Sectors
    BY <1>7 DEF Spare, Rest
  <2> QED BY <1>3, <1>5, <1>6, <2>1
<1>9. Held(h, v, files')
  <2> DEFINE k == Kept
  <2>1. Held(h, k, files')
    BY <1>1 DEF KeepHeld
  <2>2. \A s \in Stored(k) : k[s] = cell[s]
    BY StoredIs DEF Kept
  <2> HIDE DEF k
  <2>3. Keeps(h, k, h, v)
    BY <1>3, <2>2, StoredIs DEF Keeps
  <2> QED BY <2>1, <2>3, HeldStays
<1>10. Ctrl(v) = Ctrl(cell)
  BY <1>3 DEF Ctrl
<1>11. Ctrl(v) = ToSet(disk.chain) /\ {s \in Sectors : marks'[s] = 240} = Ctrl(v)
  <2>1. \A s \in Sectors : marks'[s] = ChipMark(s)
    BY <1>1
  <2>2. {s \in Sectors : marks'[s] = 240} = {s \in Sectors : ChipMark(s) = 240}
    BY <2>1
  <2> QED BY <1>1, <1>10, <2>2, MarkedIs
<1>12. InWork'
  BY <1>1, <1>2, <1>8, <1>9, SeqsOver DEF InWork, v, h
<1>13. Filing'
  <2>1. at'.i = 0 /\ at'.frst = h.free
    BY <1>1
  <2>2. Walk(h.next, h.free)[0] = h.free
    BY WalkIs DEF Steps
  <2>3. 0 .. 0 - 1 = {} /\ ~(0 > 0)
    OBVIOUS
  <2>4. \A f : Laid(h, v, f, h.free, gen', 0)
    BY <2>3 DEF Laid
  <2>5. 0 + Cardinality(FreeSectors(h)) <= NumSects
    BY <1>7, SectsIs
  <2> QED BY <1>1, <1>11, <2>1, <2>2, <2>3, <2>4, <2>5 DEF Filing, h, v
<1>14. InPlace'
  <2>1. Once(acts')
    BY <1>2 DEF Once
  <2>2. ToSet(chain') \subseteq Old'
    BY <1>1 DEF ToSet
  <2> QED BY <1>1, <2>1, <2>2 DEF InPlace
<1>15. Held(Parsed(disk'), Kept', disk'.files) /\ Readable(disk)'
  <2>1. Kept' = Kept
    BY <1>1 DEF Kept, Old
  <2>2. Readable(disk)' <=> Readable(disk)
    BY <1>1 DEF Readable, ChipMark
  <2>3. Held(Parsed(disk), Kept, disk.files) /\ Readable(disk)
    BY <1>1 DEF KeepHeld
  <2> QED BY <1>1, <2>1, <2>2, <2>3
<1> QED BY <1>1, <1>12, <1>13, <1>14, <1>15 DEF KeepHeld

\* No sector of a control chain may be written to by the next flash.
LEMMA ChainNotSpare ==
  ASSUME NEW h, NEW c, NEW fs, Sound(h, c, fs), NEW i \in DOMAIN c
  PROVE  c[i] \in Sectors /\ c[i] \in ToSet(c) /\ c[i] \notin Spare(h, c)
<1> DEFINE x == c[i]
           y == h.fctrl
<1>1. c \in Seq(Sectors) /\ h \in Header
  BY DEF Sound, Chained
<1>2. x \in Sectors /\ x \in ToSet(c)
  BY <1>1 DEF ToSet
<1>3. c # <<>>
  BY <1>1
<1>4. x \notin FreeSectors(h)
  BY <1>2 DEF Sound
<1>5. x \in Nat /\ y \in Nat
  <2>1. y \in 0 .. NumSects
    BY <1>1, HeaderIs
  <2> HIDE DEF x, y
  <2> QED BY <1>2, <2>1, SectsIs
<1>6. BlockOf(x) = BlockOf(LastIn(c)) => x < y
  BY <1>3 DEF Sound, Chained
<1>7. x \notin Rest(y, CtrlBlock(c, y))
  <2> HIDE DEF x, y
  <2> QED BY <1>3, <1>5, <1>6 DEF Rest, CtrlBlock
<1> QED BY <1>2, <1>4, <1>7 DEF Spare

LEMMA ConcatAt ==
  ASSUME NEW R, NEW ds \in Seq(R), NEW es \in Seq(R), NEW k \in DOMAIN (ds \o es)
  PROVE  /\ k \in Nat /\ Len(ds) \in Nat
         /\ \/ k \in DOMAIN ds /\ k <= Len(ds) /\ (ds \o es)[k] = ds[k]
            \/ k > Len(ds) /\ \E i \in DOMAIN es : (ds \o es)[k] = es[i]
<1> DEFINE n == Len(ds)
           m == Len(es)
           cs == ds \o es
<1>1. /\ DOMAIN ds = 1 .. n /\ DOMAIN es = 1 .. m /\ DOMAIN cs = 1 .. n + m /\ n \in Nat /\ m \in Nat
      /\ \A j \in 1 .. n + m : cs[j] = IF j <= n THEN ds[j] ELSE es[j - n]
  BY ConcatProperties, LenProperties
<1>2. k \in 1 .. n + m
  BY <1>1
<1> HIDE DEF n, m, cs
<1>3. CASE k <= n
  <2>1. k \in 1 .. n /\ cs[k] = ds[k]
    BY <1>1, <1>2, <1>3
  <2> QED BY <1>1, <1>2, <1>3, <2>1 DEF cs, n
<1>4. CASE ~(k <= n)
  <2>1. k - n \in 1 .. m /\ k > n /\ cs[k] = es[k - n]
    BY <1>1, <1>2, <1>4
  <2> QED BY <1>1, <1>2, <2>1 DEF cs, n
<1> QED BY <1>3, <1>4

LEMMA MarksBefore ==
  ASSUME NEW R, NEW ds \in Seq(R), NEW es \in Seq(R),
         \A k \in DOMAIN ds : ~IsCtrl(ds[k].what), \A k \in DOMAIN es : es[k].op = "write"
  PROVE  MarksFirst(ds \o es)
<1> DEFINE cs == ds \o es
<1> SUFFICES ASSUME NEW j \in DOMAIN cs, NEW k \in DOMAIN cs, cs[k].op = "mark", IsCtrl(cs[j].what)
             PROVE  k < j
  BY DEF MarksFirst
<1>1. j \in Nat /\ Len(ds) \in Nat /\ j > Len(ds)
  BY ConcatAt
<1>2. k \in Nat /\ k <= Len(ds)
  BY ConcatAt
<1> QED BY <1>1, <1>2

\* The control is written with one action for each of its sectors.
LEMMA CtrlActsAre ==
  ASSUME erasing = {}, chain \in Seq(Sectors), OneByOne(chain), gen \in Nat
  PROVE  /\ CtrlActs \in Seq({a \in Written : a.op = "write" /\ a.sect \in ToSet(chain)})
         /\ \A i \in DOMAIN chain : Burnt(CtrlActs, chain[i]) = {<<"ctrl", gen, i>>}
         /\ \A s \in Sectors \ ToSet(chain) : Burnt(CtrlActs, s) = {}
<1> DEFINE n == Len(chain)
           f == CtrlActs
           a(i) == [op |-> "write", sect |-> chain[i], what |-> <<"ctrl", gen, i>>]
           R == {b \in Written : b.op = "write" /\ b.sect \in ToSet(chain)}
<1>1. n \in Nat /\ DOMAIN chain = 1 .. n
  OBVIOUS
<1>2. f = [i \in 1 .. n |-> a(i)]
  BY <1>1 DEF CtrlActs
<1>3. ASSUME NEW i \in 1 .. n
      PROVE  a(i) \in R
  <2> DEFINE x == chain[i]
  <2>1. x \in Sectors /\ x \in ToSet(chain) /\ i \in Nat
    BY <1>1 DEF ToSet
  <2> HIDE DEF x
  <2>2. <<"ctrl", gen, i>> \in (Files \cup {"ctrl"}) \X Nat \X Nat
    BY <2>1
  <2>3. [op |-> "write", sect |-> x, what |-> <<"ctrl", gen, i>>] \in Written
    BY <2>1, <2>2 DEF Written, Whats
  <2>4. [op |-> "write", sect |-> x, what |-> <<"ctrl", gen, i>>] \in R
    BY <2>1, <2>3
  <2> QED BY <2>4 DEF x
<1>4. \A i \in 1 .. n : f[i].sect = chain[i] /\ f[i].what = <<"ctrl", gen, i>>
  BY <1>2
<1>5. DOMAIN f = 1 .. n
  BY <1>2
<1> HIDE DEF R, a, n, f
<1>6. f \in Seq(R)
  BY <1>1, <1>2, <1>3
<1>7. ASSUME NEW i \in DOMAIN chain
      PROVE  Burnt(f, chain[i]) = {<<"ctrl", gen, i>>}
  <2>1. \A j \in 1 .. n : f[j].sect = chain[i] => j = i
    BY <1>1, <1>4 DEF OneByOne
  <2>2. {j \in 1 .. n : f[j].sect = chain[i]} = {i}
    BY <1>1, <1>4, <2>1
  <2>3. Burnt(f, chain[i]) = {f[j].what : j \in {i}}
    BY <1>5, <2>2 DEF Burnt
  <2> QED BY <1>1, <1>4, <2>3
<1>8. ASSUME NEW s \in Sectors \ ToSet(chain)
      PROVE  Burnt(f, s) = {}
  <2>1. \A j \in 1 .. n : f[j].sect # s
    BY <1>1, <1>4 DEF ToSet
  <2>2. {j \in 1 .. n : f[j].sect = s} = {}
    BY <2>1
  <2> QED BY <1>5, <2>2 DEF Burnt
<1> QED BY <1>6, <1>7, <1>8 DEF f, R

LEMMA KeepSeal ==
  ASSUME ListHeld, WeaveHeld, KeepHeld, Cleanly', Seal
  PROVE  KeepHeld'
<1> DEFINE v == Will'
           w == Will
           h == hdr'
           es == CtrlActs
           R == Allowed'
<1>0. Plainly'
  BY DEF Cleanly, Plainly
<1>1. /\ pc = "pop" /\ pc' = "flash" /\ gen' = gen /\ csc' = csc /\ chain' = chain
      /\ erasing' = erasing /\ hit' = hit /\ files' = files /\ acts' = acts \o es
      /\ IF csc THEN cell' = cell /\ disk' = disk
         ELSE cell' = [s \in Sectors |-> {}] /\ disk' = None
      /\ Sound(hdr, chain, files) /\ chain # <<>>
      /\ h.type = hdr.type /\ \A s \in Sectors \ ToSet(chain) : h.next[s] = hdr.next[s]
  BY <1>0, SealDoes
<1>2. InWork /\ (csc => InPlace) /\ (disk # None => Readable(disk) /\ Held(Parsed(disk), Kept, disk.files))
  BY <1>1 DEF KeepHeld, Working
<1>3. /\ acts \in Seq(Allowed) /\ erasing = {} /\ Held(hdr, w, files) /\ Ctrl(w) = {}
      /\ (\A s \in ToSet(chain) : w[s] = {}) /\ (\A s \in Spare(hdr, chain) : w[s] = {})
      /\ hdr \in Header /\ chain \in Seq(Sectors) /\ OneByOne(chain) /\ gen \in Nat
  BY <1>1, <1>2 DEF InWork, Sound, Chained, WeaveHeld
<1>4. /\ es \in Seq({a \in Written : a.op = "write" /\ a.sect \in ToSet(chain)})
      /\ \A i \in DOMAIN chain : Burnt(es, chain[i]) = {<<"ctrl", gen, i>>}
      /\ \A s \in Sectors \ ToSet(chain) : Burnt(es, s) = {}
  BY <1>3, CtrlActsAre
<1>5. csc => disk # None /\ ToSet(chain) \subseteq Old /\ Old' = Old /\ disk' = disk /\ cell' = cell
             /\ Untorn /\ Once(acts)
  BY <1>1, <1>2 DEF InPlace, Old
<1> HIDE DEF es
<1>6. acts \in Seq(R) /\ es \in Seq(R) /\ acts' \in Seq(R)
  <2>1. Allowed \subseteq R
    BY <1>1, <1>5 DEF Allowed
  <2>2. {a \in Written : a.op = "write" /\ a.sect \in ToSet(chain)} \subseteq R
    BY <1>1, <1>5 DEF Allowed
  <2> HIDE DEF R
  <2>3. acts \in Seq(R) /\ es \in Seq(R)
    BY <1>3, <1>4, <2>1, <2>2, SeqsOver
  <2> QED BY <1>1, <2>3, SeqsOver
<1>7. \A s \in Sectors : v[s] = w[s] \cup Burnt(es, s)
  <2> SUFFICES ASSUME NEW s \in Sectors
               PROVE  v[s] = w[s] \cup Burnt(es, s)
    OBVIOUS
  <2>1. Base' = Base
    BY <1>1 DEF Base
  <2>2. v = Done(Base, acts \o es) /\ w = Done(Base, acts)
    BY <1>1, <2>1 DEF Will
  <2> HIDE DEF R, w, v
  <2>3. Done(Base, acts \o es)[s] = Done(Base, acts)[s] \cup Burnt(es, s)
    BY <1>6, DoneConcat
  <2> QED BY <2>2, <2>3
<1> HIDE DEF w, v, R, h
<1>8. \A i \in DOMAIN chain : v[chain[i]] = {<<"ctrl", gen, i>>} /\ chain[i] \in Sectors
  <2> SUFFICES ASSUME NEW i \in DOMAIN chain
               PROVE  v[chain[i]] = {<<"ctrl", gen, i>>} /\ chain[i] \in Sectors
    OBVIOUS
  <2>1. chain[i] \in Sectors /\ chain[i] \in ToSet(chain)
    BY <1>3 DEF ToSet
  <2>2. w[chain[i]] = {}
    BY <1>3, <2>1
  <2>3. Burnt(es, chain[i]) = {<<"ctrl", gen, i>>}
    BY <1>4
  <2> QED BY <1>7, <2>1, <2>2, <2>3
<1>9. \A s \in Sectors \ ToSet(chain) : v[s] = w[s]
  BY <1>4, <1>7
<1>10. Held(h, v, files)
  <2>1. Keeps(hdr, w, h, v)
    <3> SUFFICES ASSUME NEW s \in Stored(w)
                 PROVE  v[s] = w[s] /\ h.next[s] = hdr.next[s] /\ (hdr.type[s] = "first" => h.type[s] = "first")
      BY DEF Keeps
    <3>1. s \in Sectors \ ToSet(chain)
      BY <1>3, StoredIs
    <3> QED BY <1>1, <1>9, <3>1
  <2> QED BY <1>3, <2>1, HeldStays
<1>11. Ctrl(v) = ToSet(chain)
  <2>1. \A s \in Sectors \ ToSet(chain) : s \notin Ctrl(v)
    BY <1>3, <1>9 DEF Ctrl
  <2>2. ASSUME NEW i \in DOMAIN chain
        PROVE  chain[i] \in Ctrl(v)
    <3>1. <<"ctrl", gen, i>>[1] = "ctrl"
      OBVIOUS
    <3> QED BY <1>8, <3>1 DEF Ctrl, IsCtrl
  <2>3. Ctrl(v) \subseteq Sectors
    BY DEF Ctrl
  <2> QED BY <2>1, <2>2, <2>3 DEF ToSet
<1>12. \A s \in Spare(h, chain') : v[s] = {}
  <2>1. Spare(h, chain') = Spare(hdr, chain)
    BY <1>0, ListSeal DEF h
  <2>2. \A s \in Spare(hdr, chain) : s \in Sectors /\ s \notin ToSet(chain)
    <3>1. \A i \in DOMAIN chain : chain[i] \notin Spare(hdr, chain)
      BY <1>1, ChainNotSpare
    <3> QED BY <1>3, <3>1, HeaderIs DEF Spare, Rest, ToSet
  <2> QED BY <1>3, <1>9, <2>1, <2>2
<1>13. InWork'
  BY <1>1, <1>3, <1>6, <1>8, <1>10, <1>11, <1>12 DEF InWork, R, v, h
<1>14. csc => InPlace'
  <2> SUFFICES ASSUME csc PROVE InPlace'
    OBVIOUS
  <2>0. \A a \in {a \in Written : a.op = "write" /\ a.sect \in ToSet(chain)} : a.op = "write"
    OBVIOUS
  <2>1. \A k \in DOMAIN es : es[k].op = "write"
    BY <1>4, <2>0
  <2>2. \A k \in DOMAIN acts : ~IsCtrl(acts[k].what)
    <3>1. \A k \in DOMAIN acts : acts[k] \in Allowed
      BY <1>3
    <3> QED BY <1>1, <3>1 DEF Allowed
  <2>3. Once(es)
    BY <2>1, WritesOnce
  <2>4. Once(acts \o es)
    BY <1>5, <1>6, <2>1, <2>3, OnceOn
  <2>5. MarksFirst(acts \o es)
    BY <1>6, <2>1, <2>2, MarksBefore
  <2>6. \A i \in DOMAIN disk.chain : cell[disk.chain[i]] = {<<"ctrl", disk.gen, i>>}
    BY <1>2, <1>5 DEF Readable
  <2>7. Ctrl(cell) \subseteq ToSet(disk.chain)
    BY <1>2, <1>5, MarkedIs
  <2> HIDE DEF Once, MarksFirst
  <2>8. Untorn'
    BY <1>1, <1>5 DEF Untorn
  <2> QED BY <1>1, <1>5, <2>4, <2>5, <2>6, <2>7, <2>8 DEF InPlace
<1>15. disk' # None => Held(Parsed(disk'), Kept', disk'.files)
  <2> SUFFICES ASSUME disk' # None PROVE Held(Parsed(disk'), Kept', disk'.files)
    OBVIOUS
  <2>1. csc
    BY <1>1
  <2>2. Kept' = Kept /\ disk' = disk
    BY <1>5, <2>1 DEF Kept
  <2> QED BY <1>2, <1>5, <2>1, <2>2
<1> QED BY <1>1, <1>13, <1>14, <1>15 DEF KeepHeld

\* The actions after the first.
LEMMA TailIs ==
  ASSUME NEW R, NEW ds \in Seq(R), ds # <<>>
  PROVE  /\ 1 \in DOMAIN ds /\ ds[1] = Head(ds) /\ Head(ds) \in R /\ Tail(ds) \in Seq(R)
         /\ \A k \in DOMAIN Tail(ds) : /\ k \in Nat /\ k > 0 /\ k + 1 \in DOMAIN ds
                                       /\ Tail(ds)[k] = ds[k + 1]
<1> DEFINE n == Len(ds)
<1>1. n \in Nat /\ n >= 1 /\ DOMAIN ds = 1 .. n
  BY EmptySeq, LenProperties
<1>2. Len(Tail(ds)) = n - 1 /\ \A k \in 1 .. n - 1 : Tail(ds)[k] = ds[k + 1]
  BY HeadTailProperties
<1>3. Tail(ds) \in Seq(R) /\ Head(ds) \in R /\ Head(ds) = ds[1]
  BY SeqsOver
<1>4. DOMAIN Tail(ds) = 1 .. n - 1
  BY <1>2, <1>3, LenProperties
<1> HIDE DEF n
<1> QED BY <1>1, <1>2, <1>3, <1>4

LEMMA KeepAct ==
  ASSUME ListHeld, KeepHeld, Act
  PROVE  KeepHeld'
<1> DEFINE a == Head(acts)
           b == BlockOf(a.sect)
           blank == a.op = "erase" /\ b \notin locked
           w == Will
           v == Will'
<1>1. /\ pc = "flash" /\ pc' = "flash" /\ acts # <<>> /\ acts' = Tail(acts)
      /\ cell' = [s \in Sectors |-> (IF blank /\ s \in SectorsOf(b) THEN {} ELSE cell[s])
                                     \cup (IF s = a.sect THEN {a.what} ELSE {})]
      /\ erasing' = erasing /\ gen' = gen /\ hdr' = hdr /\ chain' = chain /\ files' = files
      /\ csc' = csc /\ disk' = disk /\ hit' = hit
  BY DEF Act, patchVars
<1>2. InWork /\ (csc => InPlace) /\ (disk # None => Held(Parsed(disk), Kept, disk.files))
      /\ (~csc => disk = None)
  BY <1>1 DEF KeepHeld, Working
<1>3. acts \in Seq(Allowed) /\ Allowed' = Allowed /\ Old' = Old
  BY <1>1, <1>2 DEF InWork, Allowed, Old
<1>4. /\ 1 \in DOMAIN acts /\ acts[1] = a /\ a \in Allowed /\ acts' \in Seq(Allowed)
      /\ \A k \in DOMAIN acts' : /\ k \in Nat /\ k > 0 /\ k + 1 \in DOMAIN acts
                                 /\ acts'[k] = acts[k + 1]
  <2> HIDE DEF Allowed
  <2> QED BY <1>1, <1>3, TailIs
<1>5. /\ a.op \in {"write", "mark"} /\ a.sect \in Sectors
      /\ csc => a.sect \in IF a.op = "mark" THEN ToSet(disk.chain) ELSE Old
  BY <1>4 DEF Allowed, Written
<1>6. \A s \in Sectors : cell'[s] = cell[s] \cup (IF s = a.sect THEN {a.what} ELSE {})
  <2>1. ~blank
    BY <1>5
  <2> HIDE DEF blank, a
  <2> QED BY <1>1, <2>1
<1>7. v = w
  <2>1. w = Done(cell, acts) /\ v = Done(cell', Tail(acts))
    BY <1>1 DEF Will, Base
  <2>2. ASSUME NEW s \in Sectors
        PROVE  Done(cell', Tail(acts))[s] = Done(cell, acts)[s]
    <3> HIDE DEF Allowed
    <3> QED BY <1>1, <1>3, <1>6, DoneHead
  <2> QED BY <2>1, <2>2 DEF Done
<1> HIDE DEF w, v, a, b
<1>8. InWork'
  <2>1. erasing' = {} /\ acts' \in Seq(Allowed')
    BY <1>1, <1>2, <1>3, <1>4 DEF InWork
  <2>2. /\ \A s \in Spare(hdr, chain) : w[s] = {}
        /\ Held(hdr, w, files) /\ Ctrl(w) = ToSet(chain)
        /\ \A i \in DOMAIN chain : w[chain[i]] = {<<"ctrl", gen, i>>}
    BY <1>1, <1>2 DEF InWork, w
  <2>3. /\ \A s \in Spare(hdr', chain') : v[s] = {}
        /\ Held(hdr', v, files') /\ Ctrl(v) = ToSet(chain')
        /\ \A i \in DOMAIN chain' : v[chain'[i]] = {<<"ctrl", gen', i>>}
    BY <1>1, <1>7, <2>2
  <2> QED BY <1>1, <2>1, <2>3 DEF InWork, v
<1>9. ASSUME csc
      PROVE  InPlace' /\ Kept' = Kept
  <2>1. /\ Untorn /\ disk # None /\ Once(acts) /\ ToSet(chain) \subseteq Old /\ MarksFirst(acts)
        /\ \A i \in DOMAIN disk.chain : Pending(acts, disk.chain[i]) =>
             cell[disk.chain[i]] = {<<"ctrl", disk.gen, i>>}
        /\ (\E k \in DOMAIN acts : acts[k].op = "mark") => Ctrl(cell) \subseteq ToSet(disk.chain)
    BY <1>1, <1>2, <1>9 DEF InPlace
  <2>2. \A i \in DOMAIN disk.chain : /\ disk.chain[i] \in Sectors /\ disk.chain[i] \in ToSet(disk.chain)
                                     /\ disk.chain[i] \notin Old
    <3>1. Sound(Parsed(disk), disk.chain, disk.files)
      BY <2>1 DEF ListHeld, DiskSound
    <3> QED BY <3>1, ChainNotSpare DEF Old
  <2>3. Once(acts')
    <3> SUFFICES ASSUME NEW j \in DOMAIN acts', NEW k \in DOMAIN acts',
                        acts'[j].op = "mark", acts'[k].op = "mark", acts'[j].sect = acts'[k].sect
                 PROVE  j = k
      BY DEF Once
    <3>1. /\ j \in Nat /\ k \in Nat /\ j + 1 \in DOMAIN acts /\ k + 1 \in DOMAIN acts
          /\ acts'[j] = acts[j + 1] /\ acts'[k] = acts[k + 1]
      BY <1>4
    <3>2. j + 1 = k + 1
      BY <2>1, <3>1 DEF Once
    <3> QED BY <3>1, <3>2
  <2>4. MarksFirst(acts')
    <3> SUFFICES ASSUME NEW j \in DOMAIN acts', NEW k \in DOMAIN acts',
                        acts'[k].op = "mark", IsCtrl(acts'[j].what)
                 PROVE  k < j
      BY DEF MarksFirst
    <3>1. /\ j \in Nat /\ k \in Nat /\ j + 1 \in DOMAIN acts /\ k + 1 \in DOMAIN acts
          /\ acts'[j] = acts[j + 1] /\ acts'[k] = acts[k + 1]
      BY <1>4
    <3>2. k + 1 < j + 1
      BY <2>1, <3>1 DEF MarksFirst
    <3> QED BY <3>1, <3>2
  <2>5. ASSUME NEW i \in DOMAIN disk.chain, Pending(acts', disk.chain[i])
        PROVE  cell'[disk.chain[i]] = {<<"ctrl", disk.gen, i>>}
    <3> DEFINE x == disk.chain[i]
    <3>1. PICK k \in DOMAIN acts' : acts'[k].op = "mark" /\ acts'[k].sect = x
      BY <2>5 DEF Pending
    <3>2. k \in Nat /\ k > 0 /\ k + 1 \in DOMAIN acts /\ acts[k + 1].op = "mark" /\ acts[k + 1].sect = x
      BY <1>4, <3>1
    <3>3. Pending(acts, x)
      BY <3>2 DEF Pending
    <3>4. a.sect # x
      <4> SUFFICES ASSUME a.sect = x PROVE FALSE
        OBVIOUS
      <4>1. CASE a.op = "mark"
        <5>1. 1 = k + 1
          BY <1>4, <2>1, <3>2, <4>1 DEF Once
        <5> QED BY <3>2, <5>1
      <4>2. CASE a.op # "mark"
        BY <1>5, <1>9, <2>2, <4>2
      <4> QED BY <4>1, <4>2
    <3>5. x \in Sectors /\ cell[x] = {<<"ctrl", disk.gen, i>>}
      BY <2>1, <2>2, <3>3
    <3> HIDE DEF x
    <3>6. cell'[x] = cell[x]
      BY <1>6, <3>4, <3>5
    <3> QED BY <3>5, <3>6 DEF x
  <2>6. ASSUME NEW k \in DOMAIN acts', acts'[k].op = "mark"
        PROVE  Ctrl(cell') \subseteq ToSet(disk.chain)
    <3>1. k \in Nat /\ k > 0 /\ k + 1 \in DOMAIN acts /\ acts[k + 1].op = "mark"
      BY <1>4, <2>6
    <3>2. Ctrl(cell) \subseteq ToSet(disk.chain)
      BY <2>1, <3>1
    <3>3. ~IsCtrl(a.what)
      <4> SUFFICES ASSUME IsCtrl(a.what) PROVE FALSE
        OBVIOUS
      <4>1. k + 1 < 1
        BY <1>4, <2>1, <3>1 DEF MarksFirst
      <4> QED BY <3>1, <4>1
    <3>4. Ctrl(cell') \subseteq Ctrl(cell)
      <4> SUFFICES ASSUME NEW s \in Ctrl(cell') PROVE s \in Ctrl(cell)
        OBVIOUS
      <4>1. s \in Sectors /\ cell'[s] # {} /\ \A y \in cell'[s] : IsCtrl(y)
        BY DEF Ctrl
      <4>2. s # a.sect
        BY <1>6, <3>3, <4>1
      <4>3. cell'[s] = cell[s]
        BY <1>6, <4>1, <4>2
      <4> QED BY <4>1, <4>3 DEF Ctrl
    <3> QED BY <3>2, <3>4
  <2>7. Kept' = Kept
    <3>1. a.sect \in Old \cup ToSet(disk.chain)
      BY <1>5, <1>9
    <3>2. \A s \in Sectors : Kept'[s] = Kept[s]
      BY <1>1, <1>3, <1>6, <3>1 DEF Kept
    <3> QED BY <3>2 DEF Kept
  <2> HIDE DEF Once, MarksFirst
  <2>8. Untorn'
    BY <1>1, <2>1 DEF Untorn
  <2> QED BY <1>1, <1>3, <2>1, <2>3, <2>4, <2>5, <2>6, <2>7, <2>8 DEF InPlace
<1>10. csc' => InPlace'
  BY <1>1, <1>9
<1>11. disk' # None => Held(Parsed(disk'), Kept', disk'.files)
  BY <1>1, <1>2, <1>9
<1>12. ~csc' => disk' = None
  BY <1>1, <1>2
<1> QED BY <1>1, <1>8, <1>10, <1>11, <1>12 DEF KeepHeld

LEMMA KeepFlashed ==
  ASSUME ListHeld, KeepHeld, Cleanly', Flashed, ReadBack'
  PROVE  KeepHeld'
<1> DEFINE d == disk'
           h == Parsed(d)
           v == Kept'
<1>0. Plainly'
  BY DEF Cleanly, Plainly
<1>1. /\ pc = "flash" /\ pc' = "idle" /\ acts = <<>> /\ acts' = acts /\ cell' = cell
      /\ d.chain = chain /\ d.files = files /\ d.gen = gen
      /\ Sound(hdr, chain, files) /\ chain # <<>>
  BY <1>0, FlashedDoes
<1>2. InWork
  BY <1>1 DEF KeepHeld, Working
<1>3. \A s \in Sectors : Will[s] = cell[s]
  <2>1. Will = Done(cell, <<>>)
    BY <1>1 DEF Will, Base
  <2> QED BY <2>1, DoneNone
<1>4. /\ \A s \in Spare(hdr, chain) : Will[s] = {}
      /\ Held(hdr, Will, files) /\ Ctrl(Will) = ToSet(chain)
      /\ \A i \in DOMAIN chain : Will[chain[i]] = {<<"ctrl", gen, i>>}
  BY <1>1, <1>2 DEF InWork
<1>5. \A i \in DOMAIN chain : chain[i] \in Sectors
  BY <1>1, ChainNotSpare
<1>6. ASSUME d # None
      PROVE  /\ Spare(h, chain) = Spare(hdr, chain)
             /\ Firsts(h) = Firsts(hdr) /\ \A s \in Firsts(hdr) : Walk(h.next, s) = Walk(hdr.next, s)
  <2>1. /\ h.fctrl = hdr.fctrl
        /\ FreeSectors(h) = FreeSectors(hdr) /\ Firsts(h) = Firsts(hdr)
        /\ \A s \in Firsts(hdr) : Walk(h.next, s) = Walk(hdr.next, s)
    BY <1>0, <1>6, FlashedDoes
  <2> HIDE DEF h, d
  <2> QED BY <2>1 DEF Spare
<1>7. Old' = Spare(h, chain)
  BY <1>1 DEF Old
<1>8. \A s \in Sectors : v[s] = IF s \in Spare(h, chain) \cup ToSet(chain) THEN {} ELSE cell[s]
  BY <1>1, <1>7 DEF Kept
<1> HIDE DEF d, h, v
<1>9. ASSUME d # None
      PROVE  Held(h, v, files)
  <2> SUFFICES ASSUME NEW f \in Files, files[f] # None
               PROVE  /\ files[f].len \in 0 .. NumSects /\ (files[f].len = 0 => files[f].frst \notin Sectors)
                      /\ Laid(h, v, f, files[f].frst, files[f].gen, files[f].len)
    BY DEF Held
  <2> DEFINE x == files[f].frst
             g == files[f].gen
             n == files[f].len
  <2>1. /\ n \in 0 .. NumSects /\ (n = 0 => x \notin Sectors) /\ Laid(hdr, Will, f, x, g, n)
    BY <1>4 DEF Held
  <2> HIDE DEF x, g, n
  <2>2. \A j \in 0 .. n - 1 : LET s == Walk(hdr.next, x)[j]
                              IN s \in Sectors /\ Will[s] = {<<f, g, j>>} /\ (j = 0 => hdr.type[s] = "first")
    BY <2>1 DEF Laid
  <2>3. ASSUME n > 0
        PROVE  x \in Firsts(hdr) /\ Walk(hdr.next, x)[0] = x
    <3>1. 0 \in 0 .. n - 1
      BY <2>1, <2>3, SectsIs
    <3>2. Walk(hdr.next, x)[0] = x
      BY WalkIs DEF Steps
    <3>3. x \in Sectors /\ hdr.type[x] = "first"
      BY <2>2, <3>1, <3>2
    <3> QED BY <3>2, <3>3 DEF Firsts
  <2>4. ASSUME NEW j \in 0 .. n - 1
        PROVE  LET s == Walk(h.next, x)[j]
               IN s \in Sectors /\ v[s] = {<<f, g, j>>} /\ (j = 0 => h.type[s] = "first")
    <3> DEFINE s == Walk(hdr.next, x)[j]
    <3>1. n > 0 /\ j \in Nat
      BY <2>1, SectsIs
    <3>2. Walk(h.next, x)[j] = s
      BY <1>6, <1>9, <2>3, <3>1
    <3>3. s \in Sectors /\ Will[s] = {<<f, g, j>>} /\ (j = 0 => hdr.type[s] = "first")
      BY <2>2
    <3>4. j = 0 => s \in Firsts(hdr)
      BY <3>3 DEF Firsts
    <3> HIDE DEF s
    <3>5. s \notin Spare(hdr, chain)
      BY <1>4, <3>3
    <3>6. s \notin ToSet(chain)
      <4> SUFFICES ASSUME s \in Ctrl(Will) PROVE FALSE
        BY <1>4
      <4>1. <<f, g, j>>[1] # "ctrl"
        BY BatchesAssumption
      <4> QED BY <3>3, <4>1 DEF Ctrl, IsCtrl
    <3>7. v[s] = {<<f, g, j>>}
      BY <1>3, <1>6, <1>8, <1>9, <3>3, <3>5, <3>6
    <3>8. j = 0 => h.type[s] = "first"
      BY <1>6, <1>9, <3>4 DEF Firsts
    <3> QED BY <3>2, <3>3, <3>7, <3>8
  <2>5. Laid(h, v, f, x, g, n)
    BY <2>4 DEF Laid
  <2> QED BY <2>1, <2>5 DEF x, g, n
<1>10. Readable(disk)'
  <2>1. Ctrl(cell') = Ctrl(Will)
    BY <1>1, <1>3 DEF Ctrl
  <2>2. {s \in Sectors : ChipMark(s)' = 240} = Ctrl(cell')
    <3>1. \A s \in Sectors : ChipMark(s)' = 240 <=> s \in Ctrl(cell')
      BY DEF ChipMark, Ctrl
    <3> QED BY <3>1 DEF Ctrl
  <2>3. \A i \in DOMAIN chain : cell'[chain[i]] = {<<"ctrl", gen, i>>}
    BY <1>1, <1>3, <1>4, <1>5
  <2>4. ToSet(chain) = {chain[i] : i \in DOMAIN chain}
    BY DEF ToSet
  <2> QED BY <1>1, <1>4, <2>1, <2>2, <2>3, <2>4 DEF Readable, d
<1>11. d # None => Held(h, v, d.files)
  BY <1>1, <1>9
<1> QED BY <1>1, <1>10, <1>11 DEF KeepHeld, Working, d, h, v

\* As long as all of the old control is to be marked yet, it is found.
LEMMA StillReadable ==
  ASSUME ListHeld, disk # None, \A i \in DOMAIN disk.chain : Pending(acts, disk.chain[i]),
         \A i \in DOMAIN disk.chain : Pending(acts, disk.chain[i]) =>
           cell[disk.chain[i]] = {<<"ctrl", disk.gen, i>>},
         (\E k \in DOMAIN acts : acts[k].op = "mark") => Ctrl(cell) \subseteq ToSet(disk.chain)
  PROVE  Readable(disk)
<1>1. \A i \in DOMAIN disk.chain : cell[disk.chain[i]] = {<<"ctrl", disk.gen, i>>}
  OBVIOUS
<1>2. Sound(Parsed(disk), disk.chain, disk.files) /\ disk.chain # <<>>
  BY DEF ListHeld, DiskSound
<1>3. \A i \in DOMAIN disk.chain : disk.chain[i] \in Ctrl(cell)
  <2>1. \A i \in DOMAIN disk.chain : disk.chain[i] \in Sectors
    BY <1>2, ChainNotSpare
  <2>2. \A i \in DOMAIN disk.chain : <<"ctrl", disk.gen, i>>[1] = "ctrl"
    OBVIOUS
  <2> QED BY <1>1, <2>1, <2>2 DEF Ctrl, IsCtrl
<1>4. Ctrl(cell) \subseteq ToSet(disk.chain)
  <2>1. 1 \in DOMAIN disk.chain
    BY <1>2 DEF Sound, Chained
  <2>2. \E k \in DOMAIN acts : acts[k].op = "mark"
    BY <2>1 DEF Pending
  <2> QED BY <2>2
<1>5. Ctrl(cell) = {disk.chain[i] : i \in DOMAIN disk.chain}
  BY <1>3, <1>4 DEF ToSet
<1> QED BY <1>1, <1>5, MarkedIs DEF Readable

\* Power is lost before the first mark, or there is no file system any more.
LEMMA KeepPowerCut ==
  ASSUME ListHeld, KeepHeld, PowerCut
  PROVE  KeepHeld'
<1>1. /\ pc = "flash" /\ pc' = "idle" /\ acts' = <<>> /\ cell' = cell
      /\ disk' = (IF disk # None /\ Untouched THEN disk ELSE None)
  BY DEF PowerCut
<1>2. ASSUME disk' # None
      PROVE  Held(Parsed(disk'), Kept', disk'.files) /\ Readable(disk)'
  <2>1. disk' = disk /\ disk # None /\ Untouched
    BY <1>1, <1>2
  <2>2. csc /\ \A i \in DOMAIN disk.chain : Pending(acts, disk.chain[i])
    BY <2>1 DEF Untouched, Pending
  <2>3. /\ Held(Parsed(disk), Kept, disk.files)
        /\ \A i \in DOMAIN disk.chain : Pending(acts, disk.chain[i]) =>
             cell[disk.chain[i]] = {<<"ctrl", disk.gen, i>>}
        /\ (\E k \in DOMAIN acts : acts[k].op = "mark") => Ctrl(cell) \subseteq ToSet(disk.chain)
    BY <1>1, <2>1, <2>2 DEF KeepHeld, Working, InPlace
  <2>4. Kept' = Kept
    BY <1>1, <2>1 DEF Kept, Old
  <2>10. Readable(disk)
    BY <2>1, <2>2, <2>3, StillReadable
  <2>11. Readable(disk)' <=> Readable(disk)
    BY <1>1, <2>1 DEF Readable, ChipMark
  <2> QED BY <2>1, <2>3, <2>4, <2>10, <2>11
<1> QED BY <1>1, <1>2 DEF KeepHeld, Working

LEMMA KeepInit ==
  ASSUME Init
  PROVE  KeepInv
<1>1. pc = "idle" /\ acts = <<>> /\ disk = None
  BY DEF Init
<1> QED BY <1>1 DEF KeepInv, KeepHeld, Working

LEMMA KeepNext ==
  ASSUME ListInv, WeaveInv, BlankInv, ReadBack', KeepInv, [Next]_vars
  PROVE  KeepInv'
<1> SUFFICES ASSUME Cleanly' PROVE KeepHeld'
  BY DEF KeepInv
<1>1. hit \subseteq hit'
  BY DEF Next, Patch, BeginTfs, BeginCsc, Store, NoSpace, EndFile, Invalidate, Place, Fragmented,
         Placed, Pop, NothingToPop, Seal, Act, Flashed, PowerCut, Taken, Wreck, Abandon, vars
<1>2. KeepHeld /\ ListHeld /\ WeaveHeld
  <2>1. Cleanly /\ Plainly
    BY <1>1 DEF Cleanly, Plainly
  <2> QED BY <2>1 DEF KeepInv, ListInv, WeaveInv
<1>3. CASE BeginTfs
  BY <1>2, <1>3, KeepBeginTfs
<1>4. CASE BeginCsc
  BY <1>2, <1>4, KeepBeginCsc
<1>5. CASE Store
  BY <1>2, <1>5, KeepStore
<1>6. CASE NoSpace \/ Fragmented \/ NothingToPop
  BY <1>2, <1>6, KeepLeft DEF NoSpace, Fragmented, NothingToPop, InFile
<1>7. CASE EndFile
  BY <1>2, <1>7, KeepEndFile
<1>8. CASE Invalidate
  BY <1>2, <1>8, KeepInvalidate
<1>9. CASE Place
  BY <1>2, <1>9, KeepPlace
<1>10. CASE Placed
  BY <1>2, <1>10, KeepPlaced
<1>11. CASE Pop
  BY <1>2, <1>11, KeepPop
<1>12. CASE Seal
  BY <1>2, <1>12, KeepSeal
<1>13. CASE Act
  BY <1>2, <1>13, KeepAct
<1>14. CASE Flashed
  BY <1>2, <1>14, KeepFlashed
<1>15. CASE PowerCut
  BY <1>2, <1>15, KeepPowerCut
<1>16. CASE UNCHANGED vars
  <2>1. KeepHeld' <=> KeepHeld
    BY <1>16 DEF KeepHeld, Working, InWork, InPlace, Untorn, Filing, Kept, Old, Allowed, Will, Base,
                 Readable, ChipMark, vars, patchVars, phoneVars
  <2> QED BY <1>2, <2>1
<1> QED BY <1>3, <1>4, <1>5, <1>6, <1>7, <1>8, <1>9, <1>10, <1>11, <1>12, <1>13, <1>14, <1>15, <1>16
     DEF Next, Patch

LEMMA KeepThen ==
  ASSUME ListInv, KeepInv
  PROVE  FilesKept
<1> SUFFICES ASSUME Cleanly, disk # None, pc # "lost", pc = "flash" => Untouched
             PROVE  Readable(disk) /\ FilesThere(disk)
  BY DEF FilesKept, Intact, Cleanly
<1> DEFINE h == Parsed(disk)
           k == Kept
<1>1. KeepHeld /\ ListHeld
  BY DEF KeepInv, ListInv, Cleanly, Plainly
<1>2. Held(h, k, disk.files) /\ (pc # "flash" => Readable(disk))
  BY <1>1 DEF KeepHeld
<1>3. \A s \in Sectors : k[s] # {} => k[s] = cell[s]
  BY DEF Kept
<1>4. FilesThere(disk)
  <2> HIDE DEF h, k
  <2>1. ASSUME NEW f \in Files, disk.files[f] # None, NEW i \in 0 .. disk.files[f].len - 1
        PROVE  LET s == Walk(h.next, disk.files[f].frst)[i]
               IN /\ s \in Sectors /\ cell[s] \ {<<"void">>} = {<<f, disk.files[f].gen, i>>}
                  /\ i = 0 => h.type[s] = "first"
    <3> DEFINE s == Walk(h.next, disk.files[f].frst)[i]
               x == <<f, disk.files[f].gen, i>>
    <3>1. s \in Sectors /\ k[s] = {x} /\ (i = 0 => h.type[s] = "first")
      BY <1>2, <2>1 DEF Held, Laid
    <3>2. x # <<"void">>
      OBVIOUS
    <3> HIDE DEF s, x
    <3>3. cell[s] = {x}
      BY <1>3, <3>1
    <3>4. cell[s] \ {<<"void">>} = {x}
      BY <3>2, <3>3
    <3> QED BY <3>1, <3>4 DEF s, x
  <2> QED BY <2>1 DEF FilesThere, h
<1>5. CASE pc # "flash"
  BY <1>2, <1>4, <1>5
<1>6. CASE pc = "flash"
  <2>1. csc /\ \A i \in DOMAIN disk.chain : Pending(acts, disk.chain[i])
    BY <1>6 DEF Untouched, Pending
  <2>2. /\ \A i \in DOMAIN disk.chain : Pending(acts, disk.chain[i]) =>
             cell[disk.chain[i]] = {<<"ctrl", disk.gen, i>>}
        /\ (\E j \in DOMAIN acts : acts[j].op = "mark") => Ctrl(cell) \subseteq ToSet(disk.chain)
    BY <1>1, <1>6, <2>1 DEF KeepHeld, Working, InPlace
  <2>3. Readable(disk)
    BY <1>1, <2>1, <2>2, StillReadable
  <2> QED BY <1>4, <2>3
<1> QED BY <1>5, <1>6

-----------------------------------------------------------------------------
(* The flasher finds the chain in order by the marks.                      *)

\* The sectors of c ascend.
Climbs(c) == \A i, j \in DOMAIN c : i < j => c[i] < c[j]

LEMMA RunsClimb ==
  ASSUME NEW c \in Seq(Sectors), InRuns(c)
  PROVE  Climbs(c)
<1> DEFINE n == Len(c)
           P == {d \in 0 .. n : \A i \in 1 .. n : d > 0 /\ i + d <= n => c[i] < c[i + d]}
<1>1. n \in Nat /\ DOMAIN c = 1 .. n /\ \A i \in 1 .. n : c[i] \in Nat
  <2>1. n \in Nat /\ DOMAIN c = 1 .. n /\ \A i \in 1 .. n : c[i] \in Sectors
    BY LenProperties
  <2> HIDE DEF n
  <2> QED BY <2>1, SectsIs
<1>2. \A i \in 1 .. n - 1 : c[i] < c[i + 1]
  BY DEF InRuns
<1> HIDE DEF n
<1>3. 0 \in P
  BY <1>1
<1>4. ASSUME NEW d \in P, d \in 0 .. n - 1
      PROVE  d + 1 \in P
  <2> SUFFICES ASSUME NEW i \in 1 .. n, i + (d + 1) <= n PROVE c[i] < c[i + (d + 1)]
    BY <1>1, <1>4
  <2> DEFINE k == i + d
  <2>1. k \in 1 .. n - 1 /\ k \in 1 .. n /\ k + 1 \in 1 .. n /\ i + (d + 1) = k + 1
    BY <1>1, <1>4
  <2>2. c[k] < c[k + 1]
    BY <1>2, <2>1
  <2>3. CASE d = 0
    <3>1. k = i
      BY <1>1, <2>3
    <3> HIDE DEF k
    <3> QED BY <2>1, <2>2, <3>1
  <2>4. CASE d # 0
    <3>1. d > 0 /\ i + d <= n
      BY <1>1, <1>4, <2>1, <2>4
    <3>2. c[i] < c[k]
      BY <3>1
    <3> HIDE DEF k
    <3>3. c[i] \in Nat /\ c[k] \in Nat /\ c[k + 1] \in Nat
      BY <1>1, <2>1
    <3>4. c[i] < c[k + 1]
      BY <2>2, <3>2, <3>3
    <3> QED BY <2>1, <3>4
  <2> QED BY <2>3, <2>4
<1>5. 0 .. n \subseteq P
  <2> HIDE DEF P
  <2> QED BY <1>1, <1>3, <1>4, UptoSets
<1> SUFFICES ASSUME NEW i \in 1 .. n, NEW j \in 1 .. n, i < j PROVE c[i] < c[j]
  BY <1>1 DEF Climbs
<1> DEFINE d == j - i
<1>6. d \in 0 .. n /\ d > 0 /\ i + d <= n /\ i + d = j
  BY <1>1
<1>7. d \in P
  <2> HIDE DEF d, P
  <2> QED BY <1>5, <1>6
<1>8. c[i] < c[i + d]
  <2> HIDE DEF d
  <2> QED BY <1>6, <1>7
<1> QED BY <1>6, <1>8

LEMMA AscendingShape ==
  ASSUME NEW S
  PROVE  Ascending(S) = [k \in 1 .. Cardinality(S) |-> Ascending(S)[k]]
<1> DEFINE n == Cardinality(S)
           x(k) == CHOOSE s \in S : Cardinality({t \in S : t < s}) = k - 1
           a == Ascending(S)
<1>1. a = [k \in 1 .. n |-> x(k)]
  BY DEF Ascending
<1> HIDE DEF n, x, a
<1>2. a = [k \in 1 .. n |-> a[k]]
  BY <1>1
<1> QED BY <1>2 DEF a, n

\* Such a sequence is the sectors it has, in ascending order.
LEMMA AscendingIs ==
  ASSUME NEW c \in Seq(Sectors), Climbs(c)
  PROVE  Ascending(ToSet(c)) = c
<1> DEFINE n == Len(c)
           S == ToSet(c)
           Upto(k) == {c[j] : j \in 1 .. k}
           P == {k \in 0 .. n : IsFiniteSet(Upto(k)) /\ Cardinality(Upto(k)) = k}
<1>1. n \in Nat /\ DOMAIN c = 1 .. n /\ \A i \in 1 .. n : c[i] \in Nat /\ c[i] \in Sectors
  <2>1. n \in Nat /\ DOMAIN c = 1 .. n /\ \A i \in 1 .. n : c[i] \in Sectors
    BY LenProperties
  <2> HIDE DEF n
  <2> QED BY <2>1, SectsIs
<1>2. S = Upto(n) /\ S \subseteq Sectors
  BY <1>1 DEF ToSet
<1> HIDE DEF n, S
<1>3. \A i, j \in 1 .. n : i < j => c[i] < c[j]
  BY <1>1 DEF Climbs
<1>4. 0 \in P
  <2>1. Upto(0) = {}
    OBVIOUS
  <2> HIDE DEF Upto
  <2> QED BY <1>1, <2>1, FS_EmptySet
<1>5. ASSUME NEW k \in P, k \in 0 .. n - 1
      PROVE  k + 1 \in P
  <2>1. k + 1 \in 0 .. n /\ k + 1 \in 1 .. n /\ 1 .. k + 1 = (1 .. k) \cup {k + 1}
    BY <1>1, <1>5
  <2>2. Upto(k + 1) = Upto(k) \cup {c[k + 1]}
    BY <2>1
  <2>3. c[k + 1] \notin Upto(k)
    <3> SUFFICES ASSUME NEW j \in 1 .. k, c[j] = c[k + 1] PROVE FALSE
      OBVIOUS
    <3>1. j \in 1 .. n /\ j < k + 1
      BY <1>1, <1>5
    <3>2. c[j] < c[k + 1] /\ c[j] \in Nat /\ c[k + 1] \in Nat
      BY <1>1, <1>3, <2>1, <3>1
    <3> QED BY <3>2
  <2> HIDE DEF Upto
  <2>4. IsFiniteSet(Upto(k)) /\ Cardinality(Upto(k)) = k
    OBVIOUS
  <2>5. IsFiniteSet(Upto(k) \cup {c[k + 1]})
        /\ Cardinality(Upto(k) \cup {c[k + 1]}) = Cardinality(Upto(k)) + 1
    BY <2>3, <2>4, FS_AddElement
  <2>6. IsFiniteSet(Upto(k + 1)) /\ Cardinality(Upto(k + 1)) = k + 1
    BY <2>2, <2>4, <2>5
  <2> QED BY <2>1, <2>6
<1>6. 0 .. n \subseteq P
  <2> HIDE DEF P
  <2> QED BY <1>1, <1>4, <1>5, UptoSets
<1>7. \A k \in 0 .. n : Cardinality(Upto(k)) = k
  BY <1>6
<1>8. Cardinality(S) = n
  <2>1. n \in 0 .. n
    BY <1>1
  <2> HIDE DEF Upto
  <2> QED BY <1>2, <1>7, <2>1
<1> HIDE DEF P
<1>9. ASSUME NEW k \in 1 .. n
      PROVE  {t \in S : t < c[k]} = Upto(k - 1)
  <2>1. ASSUME NEW t \in S, t < c[k]
        PROVE  t \in Upto(k - 1)
    <3>1. PICK j \in 1 .. n : t = c[j]
      BY <1>2
    <3>2. ~(k < j) /\ j # k
      <4>1. c[j] \in Nat /\ c[k] \in Nat /\ c[j] < c[k]
        BY <1>1, <2>1, <3>1
      <4>2. k < j => c[k] < c[j]
        BY <1>3
      <4> QED BY <4>1, <4>2
    <3>3. j \in 1 .. k - 1
      BY <1>1, <3>2
    <3> QED BY <3>1, <3>3
  <2>2. ASSUME NEW j \in 1 .. k - 1
        PROVE  c[j] \in S /\ c[j] < c[k]
    <3>1. j \in 1 .. n /\ j < k
      BY <1>1
    <3> QED BY <1>2, <1>3, <3>1
  <2> QED BY <2>1, <2>2
<1>10. ASSUME NEW k \in 1 .. n
       PROVE  Cardinality({t \in S : t < c[k]}) = k - 1
  <2>1. k - 1 \in 0 .. n
    BY <1>1
  <2>2. Cardinality(Upto(k - 1)) = k - 1
    BY <1>7, <2>1
  <2> HIDE DEF Upto
  <2> QED BY <1>9, <2>2
<1>11. ASSUME NEW k \in 1 .. n
       PROVE  Ascending(S)[k] = c[k]
  <2> DEFINE x == Ascending(S)[k]
  <2>1. x \in S /\ Cardinality({t \in S : t < x}) = k - 1
    BY <1>2, <1>8, AscendingIn
  <2> HIDE DEF x
  <2>2. PICK j \in 1 .. n : x = c[j]
    BY <1>2, <2>1
  <2>3. j - 1 = k - 1
    BY <1>10, <2>1, <2>2
  <2>4. j = k
    BY <2>3
  <2> QED BY <2>2, <2>4 DEF x
<1>12. Ascending(S) = [k \in 1 .. n |-> Ascending(S)[k]]
  <2>1. Ascending(S) = [k \in 1 .. Cardinality(S) |-> Ascending(S)[k]]
    BY AscendingShape
  <2> QED BY <1>8, <2>1
<1>13. c = [k \in 1 .. n |-> c[k]]
  BY <1>1
<1> QED BY <1>11, <1>12, <1>13 DEF S

\* A chain that does not end with a block is found in order.
LEMMA RunsInOrder ==
  ASSUME NEW c \in Seq(Sectors), c # <<>>, OneByOne(c), InRuns(c),
         LastIn(c) # LastOf(BlockOf(LastIn(c)))
  PROVE  FixedOrder(c, c) = c
<1> DEFINE n == Len(c)
<1>1. n \in Nat /\ n > 0 /\ DOMAIN c = 1 .. n /\ c = [k \in 1 .. n |-> c[k]]
  BY EmptySeq, LenProperties
<1>2. PICK way : Visits(way, c, c) /\ Orders(way, c, c)
  BY <1>1, FixedOrderIs
<1>3. FirstAt(c, c) = 1
  <2> DEFINE fit == {k \in DOMAIN c : Rotated(c, k) = c}
  <2>1. Rotated(c, 1) = c
    <3>1. SubSeq(c, 1, Len(c)) = c
      BY SubSeqFull
    <3>2. SubSeq(c, 1, 1 - 1) = <<>>
      BY SubSeqEmpty
    <3>3. c \o <<>> = c
      BY ConcatEmptySeq
    <3> QED BY <3>1, <3>2, <3>3 DEF Rotated
  <2>2. 1 \in fit /\ fit \subseteq Nat /\ \A k \in fit : k \in 1 .. n
    BY <1>1, <2>1
  <2> HIDE DEF fit, n
  <2>3. LeastOf(fit) \in fit /\ LeastOf(fit) <= 1
    BY <2>2, LeastIs
  <2>4. LeastOf(fit) = 1
    BY <1>1, <2>2, <2>3
  <2> QED BY <2>2, <2>4 DEF FirstAt, fit
<1>4. ASSUME NEW k \in 1 .. n
      PROVE  Successor(c, c, k) = k + 1
  <2>1. CASE c[k] # LastOf(BlockOf(c[k]))
    BY <2>1 DEF Successor
  <2>2. CASE c[k] = LastOf(BlockOf(c[k]))
    <3> DEFINE named == {j \in DOMAIN c : Links(c, c[k], c[j])}
    <3>1. k # n
      BY <2>2 DEF LastIn
    <3> HIDE DEF n
    <3>2. k \in 1 .. n - 1 /\ k + 1 \in 1 .. n
      BY <1>1, <3>1
    <3>3. k + 1 \in named
      BY <1>1, <3>2 DEF Links, n
    <3>4. ASSUME NEW j \in named
          PROVE  j = k + 1
      <4>1. PICK i \in 1 .. n - 1 : c[i] = c[k] /\ c[i + 1] = c[j]
        BY DEF Links, n
      <4>2. i \in 1 .. n /\ i + 1 \in 1 .. n
        BY <1>1
      <4>3. i = k
        BY <1>1, <4>1, <4>2 DEF OneByOne
      <4>4. i + 1 = j
        BY <1>1, <4>1, <4>2 DEF OneByOne
      <4> QED BY <4>3, <4>4
    <3>5. named = {k + 1}
      BY <3>3, <3>4
    <3>6. LeastOf({k + 1}) = k + 1
      <4>1. {k + 1} \subseteq Nat /\ {k + 1} # {}
        BY <1>1
      <4>2. LeastOf({k + 1}) \in {k + 1}
        BY <4>1, LeastIs
      <4> QED BY <4>2
    <3> HIDE DEF named
    <3>7. named # {} /\ LeastOf(named) = k + 1
      BY <3>5, <3>6
    <3> QED BY <2>2, <3>7 DEF Successor, named
  <2> QED BY <2>1, <2>2
<1> DEFINE P == {k \in 0 .. n : way[k + 1] = k + 1}
<1>5. 0 \in P
  BY <1>1, <1>2, <1>3 DEF Visits
<1>6. ASSUME NEW k \in P, k \in 0 .. n - 1
      PROVE  k + 1 \in P
  <2> DEFINE j == k + 1
  <2>1. j \in 1 .. n /\ j + 1 \in 2 .. n + 1 /\ (j + 1) - 1 = j /\ way[j] = j
    BY <1>1, <1>6
  <2> HIDE DEF j
  <2>2. way[j + 1] = Successor(c, c, j)
    <3> HIDE DEF P
    <3>1. way[j + 1] = IF way[(j + 1) - 1] \in DOMAIN c THEN Successor(c, c, way[(j + 1) - 1]) ELSE 0
      BY <1>2, <2>1 DEF Visits
    <3> QED BY <1>1, <2>1, <3>1
  <2>3. way[j + 1] = j + 1 /\ j \in 0 .. n
    BY <1>1, <1>4, <2>1, <2>2
  <2>4. j \in P
    BY <2>3
  <2> QED BY <2>4 DEF j
<1>7. 0 .. n \subseteq P
  <2> HIDE DEF P, n
  <2> QED BY <1>1, <1>5, <1>6, UptoSets
<1>8. way[n + 1] = n + 1 /\ \A i \in 1 .. n : way[i] = i
  <2>1. n \in P
    BY <1>1, <1>7
  <2>2. ASSUME NEW i \in 1 .. n
        PROVE  way[i] = i
    <3>1. i - 1 \in 0 .. n /\ (i - 1) + 1 = i
      BY <1>1
    <3>2. i - 1 \in P
      BY <1>7, <3>1
    <3> QED BY <3>1, <3>2
  <2> QED BY <2>1, <2>2
<1> HIDE DEF P
<1>9. way[n + 1] # 0 /\ \A i \in 1 .. n : way[i] \in DOMAIN c
  <2> HIDE DEF n
  <2> QED BY <1>1, <1>8
<1>10. FixedOrder(c, c) = [i \in 1 .. n |-> c[way[i]]]
  BY <1>2, <1>9 DEF Orders
<1>11. \A i \in 1 .. n : c[way[i]] = c[i]
  BY <1>8
<1> HIDE DEF n
<1> QED BY <1>1, <1>10, <1>11

-----------------------------------------------------------------------------
(* Through any number of flashes.                                          *)

FilesInv == TableInv /\ OrderInv /\ KeepInv

LEMMA FilesInvKept == Spec => []FilesInv
<1>1. Init => FilesInv
  BY ListInit, WeaveInit, BlankInit, OrderInit, KeepInit DEF FilesInv, TableInv
<1>2. FilesInv /\ [Next]_vars => FilesInv'
  <2> SUFFICES ASSUME ListInv, WeaveInv, BlankInv, OrderInv, KeepInv, [Next]_vars
               PROVE  ListInv' /\ WeaveInv' /\ BlankInv' /\ OrderInv' /\ KeepInv'
    BY DEF FilesInv, TableInv
  <2>1. WeaveInv'
    BY WeaveNext
  <2>2. ReadBack'
    BY <2>1 DEF WeaveInv
  <2> QED BY <2>1, <2>2, ListNext, BlankNext, OrderNext, KeepNext
<1> QED BY <1>1, <1>2, PTL DEF Spec

LEMMA OrderThen ==
  ASSUME ListInv, OrderInv, KeepInv
  PROVE  Reorderable
<1> SUFFICES ASSUME pc = "idle", disk # None, hit = {}, LastIn(disk.chain) # LastOf(BlockOf(LastIn(disk.chain)))
             PROVE  InOrder(disk)
  BY DEF Reorderable, LastIn
<1> DEFINE c == disk.chain
<1>1. ListHeld /\ OrderHeld /\ KeepHeld
  BY DEF ListInv, OrderInv, KeepInv, Plainly, Cleanly
<1>2. Readable(disk) /\ InRuns(c)
  BY <1>1 DEF KeepHeld, OrderHeld
<1>3. c \in Seq(Sectors) /\ OneByOne(c) /\ c # <<>>
  BY <1>1 DEF ListHeld, DiskSound, Sound, Chained
<1>4. MarkedSects = c
  <2>1. {s \in Sectors : ChipMark(s) = 240} = ToSet(c)
    BY <1>2 DEF Readable, ToSet
  <2>2. Ascending(ToSet(c)) = c
    BY <1>2, <1>3, RunsClimb, AscendingIs
  <2> QED BY <2>1, <2>2 DEF MarkedSects
<1> QED BY <1>2, <1>3, <1>4, RunsInOrder DEF InOrder

\* The phone has a file system with all its files, each of them with its own
\* contents from its first sector on, after any number of flashes and whatever
\* they bring, and while a .csc is flashed, cut short or not, until its control
\* is marked (create_file, occupy_free_block, flash_tfs): as long as no block had
\* to be cleaned and no path was taken that FilesKept names.
THEOREM FilesAreKept == Spec => []FilesKept
<1>1. FilesInv => FilesKept
  BY KeepThen DEF FilesInv, TableInv
<1> QED BY <1>1, FilesInvKept, PTL

\* tfs4_ctrl_fix_sect_order puts every control chain of a phone in order, over
\* the end of a block into the next free one too, unless the chain ends with a
\* block: for areas of any size and chains of any length.
THEOREM ChainsReordered == Spec => []Reorderable
<1>1. FilesInv => Reorderable
  BY OrderThen DEF FilesInv, TableInv
<1> QED BY <1>1, FilesInvKept, PTL
=============================================================================
