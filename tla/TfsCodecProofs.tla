--------------------------- MODULE TfsCodecProofs ----------------------------
(***************************************************************************)
(* What a control header is read back as, by an induction over its words;  *)
(* and that through any number of flashes the lists of the files and of    *)
(* the chain never run into each other, so that they are read back.        *)
(***************************************************************************)
EXTENDS TfsProofs

-----------------------------------------------------------------------------
(* Words read one after the other.                                         *)

Word == Nat \cup {Nil, Run}
Types == {"unused", "free", "first", "cont"}
Table == [type : [Sectors -> Types], next : [Sectors -> Word]]
Reader == [at : {"free end", "free link", "list", "link", "run", "done"}, sect : Word,
           type : {"first", "cont"}, tbl : Table]

LEMMA LinkedIs ==
  ASSUME NEW tbl \in Table, NEW lo, NEW hi, NEW t \in Types
  PROVE  Linked(tbl, lo, hi, t) \in Table
<1>1. \A s \in Sectors : s + 1 \in Word
  BY SectsIs DEF Word
<1>2. tbl.type \in [Sectors -> Types] /\ tbl.next \in [Sectors -> Word]
  BY DEF Table
<1> QED BY <1>1, <1>2 DEF Linked, Table

State(where, sect, type, tbl) == [at |-> where, sect |-> sect, type |-> type, tbl |-> tbl]
LinkedTo(tbl, s, w) == [tbl EXCEPT !.next[s] = w]
TypedAs(tbl, s, t) == [tbl EXCEPT !.type[s] = t]

\* The word w, after what st says has been read.
LEMMA FreeEndRead ==
  ASSUME NEW s, NEW t, NEW tbl, NEW w
  PROVE  ReadWord(State("free end", s, t, tbl), w)
           = State("free link", w, t, Linked(tbl, s, w, "free"))
  BY DEF ReadWord, State
LEMMA FreeEnds ==
  ASSUME NEW s, NEW t, NEW tbl
  PROVE  ReadWord(State("free link", s, t, tbl), Nil) = State("list", Nil, t, LinkedTo(tbl, s, Nil))
  BY DEF ReadWord, State, LinkedTo
LEMMA FreeLinkRead ==
  ASSUME NEW s, NEW t, NEW tbl, NEW w, w # Nil
  PROVE  ReadWord(State("free link", s, t, tbl), w) = State("free end", w, t, LinkedTo(tbl, s, w))
  BY DEF ReadWord, State, LinkedTo
LEMMA ListsEnd ==
  ASSUME NEW s, NEW t, NEW tbl
  PROVE  ReadWord(State("list", s, t, tbl), Nil) = State("done", s, t, tbl)
  BY DEF ReadWord, State
LEMMA ListRead ==
  ASSUME NEW s, NEW t, NEW tbl, NEW w, w # Nil
  PROVE  ReadWord(State("list", s, t, tbl), w) = State("link", w, "first", tbl)
  BY DEF ReadWord, State
LEMMA LinkRun ==
  ASSUME NEW s, NEW t, NEW tbl
  PROVE  ReadWord(State("link", s, t, tbl), Run) = State("run", s, "cont", TypedAs(tbl, s, t))
  BY DEF ReadWord, State, TypedAs
LEMMA LinkEnds ==
  ASSUME NEW s, NEW t, NEW tbl
  PROVE  ReadWord(State("link", s, t, tbl), Nil)
           = State("list", Nil, "cont", TypedAs(LinkedTo(tbl, s, Nil), s, t))
  BY CodecAssumption DEF ReadWord, State, LinkedTo, TypedAs
LEMMA LinkRead ==
  ASSUME NEW s, NEW t, NEW tbl, NEW w, w # Nil, w # Run
  PROVE  ReadWord(State("link", s, t, tbl), w)
           = State("link", w, "cont", TypedAs(LinkedTo(tbl, s, w), s, t))
  BY DEF ReadWord, State, LinkedTo, TypedAs
LEMMA RunRead ==
  ASSUME NEW s, NEW t, NEW tbl, NEW w
  PROVE  ReadWord(State("run", s, t, tbl), w) = State("link", w, t, Linked(tbl, s, w, "cont"))
  BY DEF ReadWord, State
LEMMA DoneRead ==
  ASSUME NEW s, NEW t, NEW tbl, NEW w
  PROVE  ReadWord(State("done", s, t, tbl), w) = State("done", s, t, tbl)
  BY DEF ReadWord, State

LEMMA ReadWordIs ==
  ASSUME NEW st \in Reader, NEW w \in Word
  PROVE  ReadWord(st, w) \in Reader
<1> DEFINE z == st.at
           s == st.sect
           t == st.type
           tbl == st.tbl
<1>1. /\ z \in {"free end", "free link", "list", "link", "run", "done"} /\ s \in Word
      /\ t \in {"first", "cont"} /\ tbl \in Table
  BY DEF Reader
<1>2. st = State(z, s, t, tbl)
  BY DEF Reader, State
<1>a. SUFFICES ReadWord(State(z, s, t, tbl), w) \in Reader
  BY <1>2
<1>3. ASSUME NEW b \in Table, NEW v \in Word, NEW ty \in {"first", "cont"},
             NEW where \in {"free end", "free link", "list", "link", "run", "done"}
      PROVE  State(where, v, ty, b) \in Reader
  BY DEF State, Reader
<1> HIDE DEF z, s, t, tbl
<1>4. ASSUME NEW b \in Table, NEW v
      PROVE  /\ LinkedTo(b, v, w) \in Table /\ TypedAs(b, v, t) \in Table
  BY <1>1 DEF LinkedTo, TypedAs, Table, Types
<1>5. Linked(tbl, s, w, "free") \in Table /\ Linked(tbl, s, w, "cont") \in Table
  BY <1>1, LinkedIs DEF Types
<1>6. CASE z = "free end"
  <2>1. State("free link", w, t, Linked(tbl, s, w, "free")) \in Reader
    BY <1>1, <1>3, <1>5
  <2> QED BY <1>6, <2>1, FreeEndRead
<1>7. CASE z = "free link"
  <2>1. LinkedTo(tbl, s, w) \in Table
    BY <1>1, <1>4
  <2>2. /\ State("list", w, t, LinkedTo(tbl, s, w)) \in Reader
        /\ State("free end", w, t, LinkedTo(tbl, s, w)) \in Reader
    BY <1>1, <1>3, <2>1
  <2>3. CASE w = Nil
    <3>1. ReadWord(State("free link", s, t, tbl), w) = State("list", w, t, LinkedTo(tbl, s, w))
      BY <2>3, FreeEnds
    <3> QED BY <1>7, <2>2, <3>1
  <2>4. CASE w # Nil
    <3>1. ReadWord(State("free link", s, t, tbl), w) = State("free end", w, t, LinkedTo(tbl, s, w))
      BY <2>4 DEF ReadWord, State, LinkedTo
    <3> QED BY <1>7, <2>2, <3>1
  <2> QED BY <2>3, <2>4
<1>8. CASE z = "list"
  <2>1. State("done", s, t, tbl) \in Reader /\ State("link", w, "first", tbl) \in Reader
    BY <1>1, <1>3
  <2> QED BY <1>8, <2>1, ListsEnd, ListRead
<1>9. CASE z = "link"
  <2>1. /\ TypedAs(tbl, s, t) \in Table /\ TypedAs(LinkedTo(tbl, s, w), s, t) \in Table
    BY <1>1, <1>4
  <2>2. /\ State("run", s, "cont", TypedAs(tbl, s, t)) \in Reader
        /\ State("list", w, "cont", TypedAs(LinkedTo(tbl, s, w), s, t)) \in Reader
        /\ State("link", w, "cont", TypedAs(LinkedTo(tbl, s, w), s, t)) \in Reader
    BY <1>1, <1>3, <2>1
  <2> QED BY <1>9, <2>2, LinkRun, LinkEnds, LinkRead
<1>10. CASE z = "run"
  <2>1. State("link", w, t, Linked(tbl, s, w, "cont")) \in Reader
    BY <1>1, <1>3, <1>5
  <2> QED BY <1>10, <2>1, RunRead
<1>11. CASE z = "done"
  <2>1. State("done", s, t, tbl) \in Reader
    BY <1>1, <1>3
  <2> QED BY <1>11, <2>1, DoneRead
<1> QED BY <1>1, <1>6, <1>7, <1>8, <1>9, <1>10, <1>11

Reads(upto, st, words) ==
  /\ upto \in [0 .. Len(words) -> Reader] /\ upto[0] = st
  /\ \A k \in 1 .. Len(words) : upto[k] = ReadWord(upto[k - 1], words[k])
ReadsOut(st, words) == \E upto : Reads(upto, st, words) /\ Reading(st, words) = upto[Len(words)]

LEMMA ReadingIs ==
  ASSUME NEW st \in Reader, NEW words \in Seq(Word)
  PROVE  ReadsOut(st, words)
<1> DEFINE n == Len(words)
           step == [m \in 1 .. n |-> [v \in Reader |-> ReadWord(v, words[m])]]
           P(f) == f = [k \in 0 .. n |-> IF k = 0 THEN st ELSE ReadWord(f[k - 1], words[k])]
           h == CHOOSE f : P(f)
<1>1. n \in Nat /\ \A m \in 1 .. n : words[m] \in Word
  OBVIOUS
<1>2. step \in [1 .. n -> [Reader -> Reader]]
  <2> HIDE DEF n
  <2> QED BY <1>1, ReadWordIs
<1>3. PICK f : Chain(f, n, Reader, st, step)
  <2> HIDE DEF step, n, P, h
  <2>1. HasChain(n, Reader, st, step)
    BY <1>1, <1>2, StepsExist
  <2> QED BY <2>1 DEF HasChain
<1>4. /\ f \in [0 .. n -> Reader] /\ f[0] = st
      /\ \A m \in 1 .. n : f[m] = ReadWord(f[m - 1], words[m])
  <2>1. f \in [0 .. n -> Reader] /\ f[0] = st
    BY <1>3 DEF Chain
  <2>2. ASSUME NEW m \in 1 .. n
        PROVE  f[m] = ReadWord(f[m - 1], words[m])
    <3>1. f[m - 1] \in Reader
      <4> HIDE DEF n
      <4> QED BY <1>1, <2>1
    <3>2. f[m] = step[m][f[m - 1]]
      BY <1>3 DEF Chain
    <3> HIDE DEF n
    <3>3. step[m][f[m - 1]] = ReadWord(f[m - 1], words[m])
      BY <3>1
    <3> QED BY <3>2, <3>3
  <2> QED BY <2>1, <2>2
<1>5. P(f)
  <2> HIDE DEF n, step
  <2> QED BY <1>1, <1>4
<1>6. P(h)
  <2> HIDE DEF P
  <2> QED BY <1>5
<1> HIDE DEF step
<1>7. Reads(h, st, words)
  <2> HIDE DEF h
  <2> DEFINE S == {k \in 0 .. n : h[k] = f[k]}
  <2>1. 0 \in S
    BY <1>1, <1>4, <1>6
  <2>2. ASSUME NEW k \in S, k \in 0 .. n - 1
        PROVE  k + 1 \in S
    <3>1. k + 1 \in 1 .. n /\ k + 1 \in 0 .. n /\ (k + 1) - 1 = k /\ k + 1 # 0
      BY <1>1, <2>2
    <3>2. h[k + 1] = ReadWord(h[k], words[k + 1]) /\ f[k + 1] = ReadWord(f[k], words[k + 1])
      BY <1>4, <1>6, <3>1
    <3> QED BY <3>1, <3>2
  <2>3. 0 .. n \subseteq S
    <3> HIDE DEF S, n, P
    <3> QED BY <1>1, <2>1, <2>2, UptoSets
  <2>4. h = f
    <3> HIDE DEF n
    <3>1. DOMAIN h = 0 .. n
      BY <1>6
    <3>2. h = [k \in 0 .. n |-> h[k]]
      BY <1>6, <3>1
    <3>3. h = [k \in 0 .. n |-> f[k]]
      BY <2>3, <3>2
    <3> QED BY <1>4, <3>3
  <2> QED BY <1>4, <2>4 DEF Reads
<1>8. Reading(st, words) = h[n]
  BY DEF Reading
<1> HIDE DEF h
<1> QED BY <1>7, <1>8 DEF ReadsOut

\* Words read on from where others have led to.
LEMMA ReadingOn ==
  ASSUME NEW st \in Reader, NEW a \in Seq(Word), NEW b \in Seq(Word)
  PROVE  /\ Reading(st, a) \in Reader
         /\ Reading(st, a \o b) = Reading(Reading(st, a), b)
<1> DEFINE n == Len(a)
           m == Len(b)
           c == a \o b
<1>1. n \in Nat /\ m \in Nat /\ c \in Seq(Word) /\ Len(c) = n + m
      /\ (\A k \in 1 .. n : c[k] = a[k]) /\ (\A k \in 1 .. m : c[n + k] = b[k])
  OBVIOUS
<1>2. PICK f : Reads(f, st, a) /\ Reading(st, a) = f[n]
  BY ReadingIs DEF ReadsOut
<1>3. f[n] \in Reader
  BY <1>1, <1>2 DEF Reads
<1>4. PICK g : Reads(g, f[n], b) /\ Reading(f[n], b) = g[m]
  BY <1>3, ReadingIs DEF ReadsOut
<1> HIDE DEF c
<1>5. PICK h : Reads(h, st, c) /\ Reading(st, c) = h[n + m]
  BY <1>1, ReadingIs DEF ReadsOut
<1> DEFINE S == {k \in 0 .. n : h[k] = f[k]}
           T == {k \in 0 .. m : h[n + k] = g[k]}
<1> HIDE DEF n, m
<1>6. 0 .. n \subseteq S
  <2>1. 0 \in S
    BY <1>1, <1>2, <1>5 DEF Reads
  <2>2. ASSUME NEW k \in S, k \in 0 .. n - 1
        PROVE  k + 1 \in S
    <3>1. k + 1 \in 1 .. n /\ k + 1 \in 1 .. n + m /\ k + 1 \in 0 .. n /\ (k + 1) - 1 = k
      BY <1>1, <2>2
    <3>2. f[k + 1] = ReadWord(f[k], a[k + 1])
      BY <1>2, <3>1 DEF Reads, n
    <3>3. h[k + 1] = ReadWord(h[k], c[k + 1])
      BY <1>1, <1>5, <3>1 DEF Reads
    <3> QED BY <1>1, <3>1, <3>2, <3>3
  <2> HIDE DEF S
  <2> QED BY <1>1, <2>1, <2>2, UptoSets
<1>7. 0 .. m \subseteq T
  <2>1. 0 \in T
    <3>1. h[n] = f[n] /\ g[0] = f[n]
      BY <1>1, <1>4, <1>6 DEF Reads
    <3> QED BY <1>1, <3>1
  <2>2. ASSUME NEW k \in T, k \in 0 .. m - 1
        PROVE  k + 1 \in T
    <3>1. /\ k + 1 \in 1 .. m /\ n + (k + 1) \in 1 .. n + m /\ k + 1 \in 0 .. m /\ (k + 1) - 1 = k
          /\ (n + (k + 1)) - 1 = n + k
      BY <1>1, <2>2
    <3>2. g[k + 1] = ReadWord(g[k], b[k + 1])
      BY <1>4, <3>1 DEF Reads, m
    <3>3. h[n + (k + 1)] = ReadWord(h[n + k], c[n + (k + 1)])
      BY <1>1, <1>5, <3>1 DEF Reads
    <3> QED BY <1>1, <3>1, <3>2, <3>3
  <2> HIDE DEF T
  <2> QED BY <1>1, <2>1, <2>2, UptoSets
<1>8. h[n + m] = g[m]
  BY <1>1, <1>7
<1> QED BY <1>2, <1>3, <1>4, <1>5, <1>8 DEF c, n, m

LEMMA FewWords ==
  ASSUME NEW v \in Word, NEW w \in Word
  PROVE  /\ <<>> \in Seq(Word) /\ Len(<<>>) = 0
         /\ <<v>> \in Seq(Word) /\ Len(<<v>>) = 1 /\ <<v>>[1] = v
         /\ <<v>> \o <<w>> = <<v, w>>
<1>1. <<>> \in Seq(Word) /\ Len(<<>>) = 0
  OBVIOUS
<1>2. ASSUME NEW x \in Word
      PROVE  <<x>> \in Seq(Word) /\ Len(<<x>>) = 1 /\ <<x>>[1] = x
  OBVIOUS
<1>3. <<v>> \o <<w>> = <<v, w>>
  <2> DEFINE a == <<v>>
             b == <<w>>
             c == <<v, w>>
  <2>1. a \in Seq(Word) /\ b \in Seq(Word) /\ Len(a) = 1 /\ Len(b) = 1 /\ a[1] = v /\ b[1] = w
    BY <1>2
  <2>2. c \in Seq(Word) /\ Len(c) = 2 /\ c[1] = v /\ c[2] = w
    OBVIOUS
  <2> HIDE DEF a, b, c
  <2>3. /\ a \o b \in Seq(Word) /\ Len(a \o b) = 2
        /\ \A i \in 1 .. 2 : (a \o b)[i] = IF i <= 1 THEN a[i] ELSE b[i - 1]
    BY <2>1, ConcatProperties
  <2>4. (a \o b)[1] = v /\ (a \o b)[2] = w
    BY <2>1, <2>3
  <2>5. a \o b = c
    BY <2>2, <2>3, <2>4, SeqEqual
  <2> QED BY <2>5 DEF a, b, c
<1> QED BY <1>1, <1>2, <1>3

LEMMA ReadingFew ==
  ASSUME NEW st \in Reader
  PROVE  /\ Reading(st, <<>>) = st
         /\ \A v \in Word : Reading(st, <<v>>) = ReadWord(st, v)
         /\ \A v, w \in Word : Reading(st, <<v, w>>) = ReadWord(ReadWord(st, v), w)
<1>1. Reading(st, <<>>) = st
  <2> DEFINE a == <<>>
  <2>1. a \in Seq(Word) /\ Len(a) = 0
    OBVIOUS
  <2> HIDE DEF a
  <2>2. PICK f : Reads(f, st, a) /\ Reading(st, a) = f[Len(a)]
    BY <2>1, ReadingIs DEF ReadsOut
  <2>3. f[0] = st
    BY <2>2 DEF Reads
  <2> QED BY <2>1, <2>2, <2>3 DEF a
<1>2. ASSUME NEW u \in Reader, NEW v \in Word
      PROVE  Reading(u, <<v>>) = ReadWord(u, v)
  <2> DEFINE a == <<v>>
  <2>1. a \in Seq(Word) /\ Len(a) = 1 /\ a[1] = v
    BY FewWords
  <2> HIDE DEF a
  <2>2. PICK f : Reads(f, u, a) /\ Reading(u, a) = f[Len(a)]
    BY <2>1, ReadingIs DEF ReadsOut
  <2>3. f[0] = u /\ \A k \in 1 .. 1 : f[k] = ReadWord(f[k - 1], a[k])
    BY <2>1, <2>2 DEF Reads
  <2>4. f[1] = ReadWord(f[1 - 1], a[1])
    BY <2>3
  <2>5. f[1] = ReadWord(f[0], v)
    BY <2>1, <2>4
  <2> QED BY <2>1, <2>2, <2>3, <2>5 DEF a
<1>3. ASSUME NEW v \in Word, NEW w \in Word
      PROVE  Reading(st, <<v, w>>) = ReadWord(ReadWord(st, v), w)
  <2> DEFINE a == <<v>>
             b == <<w>>
  <2>1. <<v, w>> = a \o b /\ a \in Seq(Word) /\ b \in Seq(Word)
    BY FewWords
  <2>2. Reading(st, a) = ReadWord(st, v) /\ ReadWord(st, v) \in Reader
    BY <1>2, ReadWordIs
  <2>3. Reading(ReadWord(st, v), b) = ReadWord(ReadWord(st, v), w)
    BY <1>2, <2>2
  <2> HIDE DEF a, b
  <2>4. Reading(st, a \o b) = Reading(Reading(st, a), b)
    BY <2>1, ReadingOn
  <2> QED BY <2>1, <2>2, <2>3, <2>4
<1> QED BY <1>1, <1>2, <1>3

-----------------------------------------------------------------------------
(* Sequences laid end to end.                                              *)

Flattens(f, n, W, p) == /\ f \in [0 .. n -> Seq(W)] /\ f[0] = <<>>
                        /\ \A k \in 1 .. n : f[k] = f[k - 1] \o p[k]
FlattensOut(n, W, p) == \E f : Flattens(f, n, W, p) /\ FlattenSeq(p) = f[n]

LEMMA FlattenIs ==
  ASSUME NEW W, NEW n \in Nat, NEW p \in [1 .. n -> Seq(W)]
  PROVE  FlattensOut(n, W, p)
<1> DEFINE V == Seq(W)
           step == [m \in 1 .. n |-> [v \in V |-> v \o p[m]]]
           P(f) == f = [i \in 1 .. Len(p) |-> IF i = 1 THEN p[i] ELSE f[i - 1] \o p[i]]
           h == CHOOSE f : P(f)
<1>1. <<>> \in V /\ Len(p) = n
  OBVIOUS
<1>2. step \in [1 .. n -> [V -> V]]
  OBVIOUS
<1>3. PICK f : Chain(f, n, V, <<>>, step)
  <2> HIDE DEF step, P, h, V
  <2>1. HasChain(n, V, <<>>, step)
    BY <1>1, <1>2, StepsExist
  <2> QED BY <2>1 DEF HasChain
<1>4. f \in [0 .. n -> V] /\ f[0] = <<>>
  <2> HIDE DEF step, P, h, V
  <2> QED BY <1>3 DEF Chain
<1>5. ASSUME NEW k \in 1 .. n
      PROVE  k - 1 \in 0 .. n /\ f[k] = f[k - 1] \o p[k]
  <2>1. k - 1 \in 0 .. n
    OBVIOUS
  <2>2. f[k - 1] \in V
    <3> HIDE DEF V, step, P, h
    <3> QED BY <1>4, <2>1
  <2>3. f[k] = step[k][f[k - 1]]
    <3> HIDE DEF V, step, P, h
    <3> QED BY <1>3 DEF Chain
  <2>4. step[k] = [v \in V |-> v \o p[k]]
    <3> HIDE DEF V, P, h
    <3> QED OBVIOUS
  <2> HIDE DEF V, step, P, h
  <2> QED BY <2>1, <2>2, <2>3, <2>4
<1>6. CASE n = 0
  <2>1. FlattenSeq(p) = p
    BY <1>1, <1>6 DEF FlattenSeq
  <2>2. p = <<>>
    BY <1>6
  <2>3. Flattens(f, n, W, p)
    <3> HIDE DEF step, P, h
    <3> QED BY <1>4, <1>5 DEF Flattens
  <2> HIDE DEF step, P, h, V
  <2> QED BY <1>4, <1>6, <2>1, <2>2, <2>3 DEF FlattensOut
<1>7. CASE n # 0
  <2> DEFINE g == [k \in 1 .. n |-> f[k]]
  <2>1. P(g)
    <3>1. f[1] = p[1]
      <4>1. 1 \in 1 .. n /\ 1 - 1 = 0 /\ p[1] \in Seq(W)
        BY <1>7
      <4>2. f[1] = <<>> \o p[1]
        <5> HIDE DEF V, step, P, h
        <5> QED BY <1>4, <1>5, <4>1
      <4> HIDE DEF V, step, P, h
      <4> QED BY <4>1, <4>2, ConcatEmptySeq
    <3>2. ASSUME NEW i \in 1 .. n
          PROVE  g[i] = IF i = 1 THEN p[i] ELSE g[i - 1] \o p[i]
      <4> HIDE DEF V, step, P, h
      <4>1. CASE i = 1
        BY <3>1, <4>1
      <4>2. CASE i # 1
        <5>1. i - 1 \in 1 .. n
          BY <4>2
        <5>2. f[i] = f[i - 1] \o p[i]
          BY <1>5
        <5> QED BY <4>2, <5>1, <5>2
      <4> QED BY <4>1, <4>2
    <3> HIDE DEF V, step, h
    <3> QED BY <1>1, <3>2
  <2>2. P(h)
    <3> HIDE DEF P, g, V, step
    <3> QED BY <2>1
  <2>3. FlattenSeq(p) = h[n]
    BY <1>1, <1>7 DEF FlattenSeq
  <2> HIDE DEF h, V, step
  <2>4. ASSUME NEW i \in 1 .. n
        PROVE  h[i] = IF i = 1 THEN p[i] ELSE h[i - 1] \o p[i]
    BY <1>1, <2>2
  <2>5. ASSUME NEW i \in 1 .. n
        PROVE  f[i] = IF i = 1 THEN p[i] ELSE f[i - 1] \o p[i]
    <3>1. f[i] = g[i]
      OBVIOUS
    <3>2. i # 1 => g[i - 1] = f[i - 1]
      OBVIOUS
    <3>3. g[i] = IF i = 1 THEN p[i] ELSE g[i - 1] \o p[i]
      BY <1>1, <2>1
    <3> HIDE DEF g
    <3> QED BY <3>1, <3>2, <3>3
  <2> HIDE DEF P, g
  <2> DEFINE S == {k \in 0 .. n - 1 : h[k + 1] = f[k + 1]}
  <2>6. 0 \in S
    <3>1. h[1] = p[1] /\ f[1] = p[1]
      <4>1. 1 \in 1 .. n
        BY <1>7
      <4> QED BY <2>4, <2>5, <4>1
    <3> QED BY <1>7, <3>1
  <2>7. ASSUME NEW k \in S, k \in 0 .. (n - 1) - 1
        PROVE  k + 1 \in S
    <3> DEFINE m == (k + 1) + 1
    <3>1. m \in 1 .. n /\ m # 1 /\ m - 1 = k + 1 /\ k + 1 \in 0 .. n - 1
      BY <2>7
    <3> HIDE DEF m
    <3>2. h[m] = h[m - 1] \o p[m] /\ f[m] = f[m - 1] \o p[m]
      BY <2>4, <2>5, <3>1
    <3>3. h[k + 1] = f[k + 1]
      OBVIOUS
    <3>4. h[m] = f[m]
      BY <3>1, <3>2, <3>3
    <3> QED BY <3>1, <3>4 DEF m
  <2>8. 0 .. n - 1 \subseteq S
    <3>1. n - 1 \in Nat
      BY <1>7
    <3> HIDE DEF S
    <3> QED BY <2>6, <2>7, <3>1, UptoSets
  <2>9. h[n] = f[n]
    <3>1. n - 1 \in 0 .. n - 1 /\ (n - 1) + 1 = n
      BY <1>7
    <3>2. h[(n - 1) + 1] = f[(n - 1) + 1]
      BY <2>8, <3>1
    <3> QED BY <3>1, <3>2
  <2>10. Flattens(f, n, W, p)
    BY <1>4, <1>5 DEF Flattens, V
  <2> QED BY <2>3, <2>9, <2>10 DEF FlattensOut
<1> QED BY <1>6, <1>7

-----------------------------------------------------------------------------
(* Lists, and tables that hold some of them.                               *)

Listed(next, c) == /\ c \in Seq(Sectors) /\ Len(c) >= 1
                   /\ \A k \in 1 .. Len(c) - 1 : next[c[k]] = c[k + 1]
                   /\ next[c[Len(c)]] = Nil

\* What is walked from s on until the list ends.
LEMMA ListFromIs ==
  ASSUME NEW next \in [Sectors -> Sectors \cup {Nil}], NEW s \in Sectors, Ends(next, s)
  PROVE  /\ Listed(next, ListFrom(next, s)) /\ ListFrom(next, s)[1] = s
         /\ ToSet(ListFrom(next, s)) = Reach(next, s)
<1> DEFINE N == NumSects
           to == Walk(next, s)
           In == {j \in 0 .. N : to[j] \in Sectors}
           Out == {j \in 0 .. N : to[j] \notin Sectors}
           n == LeastOf(Out)
<1>1. Steps(to, next, s)
  BY WalkIs
<1>2. N \in Nat /\ Nil \notin Sectors
  BY SectsIs
<1>3. to[N] = Nil
  BY DEF Ends
<1>4. to[0] = s /\ \A k \in 1 .. N : to[k] = IF to[k - 1] \in Sectors THEN next[to[k - 1]] ELSE to[k - 1]
  BY <1>1 DEF Steps
<1>5. ListFrom(next, s) = [k \in 1 .. Cardinality(In) |-> to[k - 1]]
  BY DEF ListFrom
<1> HIDE DEF N, to
<1>6. n \in Out /\ \A j \in Out : n <= j
  <2>1. Out \subseteq Nat /\ N \in Out
    BY <1>2, <1>3
  <2> HIDE DEF Out
  <2> QED BY <2>1, LeastIs
<1> HIDE DEF n
<1>7. n \in 1 .. N
  BY <1>2, <1>4, <1>6
<1> DEFINE P == {k \in 0 .. N : to[k] \in Sectors \cup {Nil}}
<1>8. 0 .. N \subseteq P
  <2>1. 0 \in P
    BY <1>2, <1>4
  <2>2. ASSUME NEW k \in P, k \in 0 .. N - 1
        PROVE  k + 1 \in P
    <3>1. k + 1 \in 1 .. N /\ (k + 1) - 1 = k /\ k + 1 \in 0 .. N
      BY <1>2, <2>2
    <3>2. to[k + 1] = IF to[k] \in Sectors THEN next[to[k]] ELSE to[k]
      BY <1>4, <3>1
    <3> QED BY <3>1, <3>2
  <2> HIDE DEF P
  <2> QED BY <1>2, <2>1, <2>2, UptoSets
<1> DEFINE Q == {k \in 0 .. N : k >= n => to[k] = Nil}
<1>9. 0 .. N \subseteq Q
  <2>1. 0 \in Q
    BY <1>2, <1>7
  <2>2. ASSUME NEW k \in Q, k \in 0 .. N - 1
        PROVE  k + 1 \in Q
    <3>1. k + 1 \in 1 .. N /\ (k + 1) - 1 = k /\ k + 1 \in 0 .. N
      BY <1>2, <2>2
    <3>2. to[k + 1] = IF to[k] \in Sectors THEN next[to[k]] ELSE to[k]
      BY <1>4, <3>1
    <3>3. CASE k >= n
      BY <1>2, <3>1, <3>2, <3>3
    <3>4. CASE k + 1 = n
      <4>1. to[n] \notin Sectors /\ to[n] \in Sectors \cup {Nil}
        BY <1>6, <1>7, <1>8
      <4> QED BY <3>1, <3>4, <4>1
    <3>5. CASE k + 1 < n
      BY <3>1, <3>5, <1>7
    <3> QED BY <3>1, <3>3, <3>4, <3>5, <1>7
  <2> HIDE DEF Q
  <2> QED BY <1>2, <2>1, <2>2, UptoSets
<1>10. In = 0 .. n - 1
  <2>1. ASSUME NEW j \in 0 .. N, to[j] \in Sectors
        PROVE  j \in 0 .. n - 1
    BY <1>2, <1>7, <1>9, <2>1
  <2>2. ASSUME NEW j \in 0 .. n - 1
        PROVE  j \in 0 .. N /\ to[j] \in Sectors
    <3>1. j \in 0 .. N /\ ~(n <= j)
      BY <1>2, <1>7
    <3> QED BY <1>6, <3>1
  <2> QED BY <2>1, <2>2
<1>11. Cardinality(In) = n
  <2>1. Cardinality(0 .. n - 1) = n
    BY <1>7, FS_Interval
  <2> HIDE DEF In
  <2> QED BY <1>10, <2>1
<1> DEFINE c == [k \in 1 .. n |-> to[k - 1]]
<1>12. ListFrom(next, s) = c
  BY <1>5, <1>11
<1>13. ASSUME NEW k \in 1 .. n
       PROVE  c[k] = to[k - 1] /\ c[k] \in Sectors /\ k - 1 \in In
  <2>1. k - 1 \in In /\ c[k] = to[k - 1]
    BY <1>7, <1>10
  <2> QED BY <2>1
<1>14. c \in Seq(Sectors) /\ Len(c) = n
  <2>1. c \in [1 .. n -> Sectors]
    BY <1>13
  <2> HIDE DEF c
  <2> QED BY <1>7, <2>1
<1>15. ASSUME NEW k \in 1 .. n
       PROVE  to[k] = next[c[k]]
  <2>1. k \in 1 .. N
    BY <1>2, <1>7
  <2>2. to[k] = next[to[k - 1]]
    BY <1>4, <1>13, <2>1
  <2> QED BY <1>13, <2>2
<1>16. ASSUME NEW k \in 1 .. n - 1
       PROVE  next[c[k]] = c[k + 1]
  <2>1. k \in 1 .. n /\ k + 1 \in 1 .. n /\ (k + 1) - 1 = k
    BY <1>7
  <2> QED BY <1>13, <1>15, <2>1
<1>17. next[c[n]] = Nil /\ c[1] = s
  <2>1. n \in 1 .. n /\ 1 \in 1 .. n /\ n \in 0 .. N /\ n >= n
    BY <1>2, <1>7
  <2>2. to[n] = Nil
    BY <1>9, <2>1
  <2> QED BY <1>4, <1>13, <1>15, <2>1, <2>2
<1>18. ToSet(c) = {to[k] : k \in 0 .. N} \cap Sectors
  <2>1. ASSUME NEW k \in 0 .. N, to[k] \in Sectors
        PROVE  \E i \in 1 .. n : c[i] = to[k]
    <3>1. k \in 0 .. n - 1
      BY <1>10, <2>1
    <3>2. k + 1 \in 1 .. n /\ (k + 1) - 1 = k
      BY <1>7, <3>1
    <3> QED BY <1>13, <3>2
  <2>2. ASSUME NEW i \in 1 .. n
        PROVE  \E k \in 0 .. N : c[i] = to[k] /\ to[k] \in Sectors
    <3>1. i - 1 \in 0 .. N
      BY <1>2, <1>7
    <3> QED BY <1>13, <3>1
  <2>3. DOMAIN c = 1 .. n
    OBVIOUS
  <2> HIDE DEF c
  <2> QED BY <2>1, <2>2, <2>3 DEF ToSet
<1>19. Reach(next, s) = {to[k] : k \in 0 .. N} \cap Sectors
  BY DEF Reach, to, N
<1> HIDE DEF c
<1> QED BY <1>7, <1>12, <1>14, <1>16, <1>17, <1>18, <1>19 DEF Listed

\* The table of h, with the types of the sectors in T and the links of those in L.
Part(h, T, L) == [type |-> [s \in Sectors |-> IF s \in T THEN h.type[s] ELSE "unused"],
                  next |-> [s \in Sectors |-> IF s \in L THEN h.next[s] ELSE 0]]

LEMMA PartIs ==
  ASSUME NEW h \in Header, NEW T, NEW L
  PROVE  Part(h, T, L) \in Table
<1>1. /\ h.type \in [Sectors -> Types] /\ h.next \in [Sectors -> Sectors \cup {Nil}]
      /\ Sectors \subseteq Nat
  BY HeaderIs, SectsIs DEF Types
<1>2. [s \in Sectors |-> IF s \in T THEN h.type[s] ELSE "unused"] \in [Sectors -> Types]
  BY <1>1 DEF Types
<1>3. [s \in Sectors |-> IF s \in L THEN h.next[s] ELSE 0] \in [Sectors -> Word]
  BY <1>1 DEF Word
<1> QED BY <1>2, <1>3 DEF Part, Table

LEMMA PartLinked ==
  ASSUME NEW h \in Header, NEW T, NEW L, NEW s \in Sectors
  PROVE  LinkedTo(Part(h, T, L), s, h.next[s]) = Part(h, T, L \cup {s})
<1> DEFINE a == [x \in Sectors |-> IF x \in T THEN h.type[x] ELSE "unused"]
           b == [x \in Sectors |-> IF x \in L THEN h.next[x] ELSE 0]
           c == [x \in Sectors |-> IF x \in L \cup {s} THEN h.next[x] ELSE 0]
<1>1. [b EXCEPT ![s] = h.next[s]] = c
  OBVIOUS
<1>2. Part(h, T, L) = [type |-> a, next |-> b] /\ Part(h, T, L \cup {s}) = [type |-> a, next |-> c]
  BY DEF Part
<1> HIDE DEF a, b, c
<1> QED BY <1>1, <1>2 DEF LinkedTo

LEMMA PartTyped ==
  ASSUME NEW h \in Header, NEW T, NEW L, NEW s \in Sectors
  PROVE  TypedAs(Part(h, T, L), s, h.type[s]) = Part(h, T \cup {s}, L)
<1> DEFINE a == [x \in Sectors |-> IF x \in T THEN h.type[x] ELSE "unused"]
           b == [x \in Sectors |-> IF x \in L THEN h.next[x] ELSE 0]
           c == [x \in Sectors |-> IF x \in T \cup {s} THEN h.type[x] ELSE "unused"]
<1>1. [a EXCEPT ![s] = h.type[s]] = c
  OBVIOUS
<1>2. Part(h, T, L) = [type |-> a, next |-> b] /\ Part(h, T \cup {s}, L) = [type |-> c, next |-> b]
  BY DEF Part
<1> HIDE DEF a, b, c
<1> QED BY <1>1, <1>2 DEF TypedAs

LEMMA PartRun ==
  ASSUME NEW h \in Header, NEW T, NEW L, NEW lo \in Sectors, NEW hi \in Sectors, NEW t,
         \A x \in Sectors : lo <= x /\ x < hi => h.next[x] = x + 1,
         \A x \in Sectors : x \in lo .. hi /\ (t = "free" \/ x > lo) => h.type[x] = t
  PROVE  Linked(Part(h, T, L), lo, hi, t)
           = Part(h, T \cup {x \in lo .. hi : t = "free" \/ x > lo}, L \cup (lo .. hi - 1))
<1> DEFINE U == T \cup {x \in lo .. hi : t = "free" \/ x > lo}
           M == L \cup (lo .. hi - 1)
           tbl == Part(h, T, L)
<1>1. Sectors \subseteq Nat
  BY SectsIs
<1>2. [s \in Sectors |-> IF s \in lo .. hi /\ (t = "free" \/ s > lo) THEN t ELSE tbl.type[s]]
        = [s \in Sectors |-> IF s \in U THEN h.type[s] ELSE "unused"]
  BY DEF Part
<1>3. [s \in Sectors |-> IF s \in lo .. hi - 1 THEN s + 1 ELSE tbl.next[s]]
        = [s \in Sectors |-> IF s \in M THEN h.next[s] ELSE 0]
  BY <1>1 DEF Part
<1> QED BY <1>2, <1>3 DEF Linked, Part

-----------------------------------------------------------------------------
(* The words of one list.                                                  *)

FilePiece(c, i) == Piece(c, i, Begins(c, i))
                   \o (IF Stops(c, i) /\ ~Begins(c, i) THEN <<Run, c[i]>> ELSE <<>>)
FreePiece(c, i) == Piece(c, i, i # 1 /\ Begins(c, i)) \o Piece(c, i, Stops(c, i))

LEMMA SectorWords == \A s \in Sectors : s \in Word /\ s # Nil /\ s # Run /\ s \in Nat
  BY SectsIs, CodecAssumption DEF Word

LEMMA PiecesAre ==
  ASSUME NEW c \in Seq(Sectors), NEW i \in 1 .. Len(c), NEW b \in BOOLEAN
  PROVE  /\ Piece(c, i, b) \in Seq(Word)
         /\ b => Piece(c, i, b) = <<c[i]>>
         /\ ~b => Piece(c, i, b) = <<>>
<1>1. c[i] \in Word
  BY SectorWords
<1>2. <<c[i]>> \in Seq(Word) /\ <<>> \in Seq(Word)
  BY <1>1, FewWords
<1> QED BY <1>2 DEF Piece

LEMMA FilePieceIs ==
  ASSUME NEW c \in Seq(Sectors), NEW i \in 1 .. Len(c)
  PROVE  /\ FilePiece(c, i) \in Seq(Word)
         /\ Begins(c, i) => FilePiece(c, i) = <<c[i]>>
         /\ ~Begins(c, i) /\ Stops(c, i) => FilePiece(c, i) = <<Run, c[i]>>
         /\ ~Begins(c, i) /\ ~Stops(c, i) => FilePiece(c, i) = <<>>
<1> DEFINE b == Begins(c, i)
           e == Stops(c, i)
           p == Piece(c, i, b)
           r == IF e /\ ~b THEN <<Run, c[i]>> ELSE <<>>
<1>1. c[i] \in Word /\ Run \in Word
  BY SectorWords DEF Word
<1>2. <<Run, c[i]>> \in Seq(Word) /\ <<>> \in Seq(Word)
  <2>1. <<Run>> \in Seq(Word) /\ <<c[i]>> \in Seq(Word) /\ <<Run>> \o <<c[i]>> = <<Run, c[i]>>
    BY <1>1, FewWords
  <2> QED BY <2>1, ConcatProperties, EmptySeq
<1>3. p \in Seq(Word) /\ (b => p = <<c[i]>>) /\ (~b => p = <<>>)
  <2>1. b \in BOOLEAN
    BY DEF Begins
  <2> HIDE DEF b
  <2> QED BY <2>1, PiecesAre
<1>4. /\ r \in Seq(Word) /\ (b \/ ~e => r = <<>>) /\ (~b /\ e => r = <<Run, c[i]>>)
  <2> HIDE DEF b, e
  <2> QED BY <1>2
<1>5. FilePiece(c, i) = p \o r
  BY DEF FilePiece
<1> HIDE DEF b, e, p, r
<1>6. p \o r \in Seq(Word)
  BY <1>3, <1>4, ConcatProperties
<1>7. p \o <<>> = p /\ <<>> \o r = r
  BY <1>3, <1>4, ConcatEmptySeq
<1>8. (b => p \o r = <<c[i]>>) /\ (~b => p \o r = r)
  BY <1>3, <1>4, <1>7
<1> QED BY <1>4, <1>5, <1>6, <1>8 DEF b, e

LEMMA FreePieceIs ==
  ASSUME NEW c \in Seq(Sectors), NEW i \in 1 .. Len(c)
  PROVE  \E a, b \in Seq(Word) :
           /\ FreePiece(c, i) = a \o b
           /\ a = IF i # 1 /\ Begins(c, i) THEN <<c[i]>> ELSE <<>>
           /\ b = IF Stops(c, i) THEN <<c[i]>> ELSE <<>>
<1> DEFINE x == i # 1 /\ Begins(c, i)
           y == Stops(c, i)
<1>1. x \in BOOLEAN /\ y \in BOOLEAN
  BY DEF Stops, Begins
<1>2. FreePiece(c, i) = Piece(c, i, x) \o Piece(c, i, y)
  BY DEF FreePiece
<1> HIDE DEF x, y
<1> DEFINE a == Piece(c, i, x)
           b == Piece(c, i, y)
<1>3. a \in Seq(Word) /\ b \in Seq(Word)
  BY <1>1, PiecesAre
<1>4. (a = IF x THEN <<c[i]>> ELSE <<>>) /\ (b = IF y THEN <<c[i]>> ELSE <<>>)
  BY <1>1, PiecesAre
<1> HIDE DEF a, b
<1> QED BY <1>2, <1>3, <1>4 DEF x, y, a, b

\* From its m-th sector to its k-th, c runs through consecutive sectors.
RunIn(c, m, k) == \A q \in m .. k : c[q] = c[m] + (q - m)

LEMMA RunIs ==
  ASSUME NEW c \in Seq(Sectors), NEW m \in 1 .. Len(c), NEW k \in m .. Len(c), RunIn(c, m, k)
  PROVE  /\ c[m] \in Sectors /\ c[k] \in Sectors /\ c[m] <= c[k] /\ c[m] \in Nat /\ c[k] \in Nat
         /\ \A y \in Sectors : c[m] <= y /\ y <= c[k]
              => \E q \in m .. k : y = c[q] /\ (y < c[k] => q < k) /\ (y > c[m] => q > m)
<1>1. c[m] \in Sectors /\ c[k] \in Sectors /\ k \in 1 .. Len(c) /\ Len(c) \in Nat
  OBVIOUS
<1>2. c[k] = c[m] + (k - m) /\ c[m] \in Nat /\ c[k] \in Nat
  <2>1. k \in m .. k /\ Sectors \subseteq Nat
    BY <1>1, SectsIs
  <2>2. c[k] = c[m] + (k - m)
    BY <2>1 DEF RunIn
  <2> QED BY <1>1, <2>1, <2>2
<1>3. ASSUME NEW y \in Sectors, c[m] <= y, y <= c[k]
      PROVE  \E q \in m .. k : y = c[q] /\ (y < c[k] => q < k) /\ (y > c[m] => q > m)
  <2> DEFINE lo == c[m]
             hi == c[k]
             q == m + (y - lo)
  <2>1. y \in Nat
    BY SectsIs
  <2>2. q \in m .. k /\ (y < hi => q < k) /\ (y > lo => q > m) /\ lo + (q - m) = y
    <3>1. hi = lo + (k - m) /\ lo \in Nat /\ hi \in Nat /\ lo <= y /\ y <= hi
      BY <1>2, <1>3
    <3> HIDE DEF lo, hi
    <3> QED BY <1>1, <2>1, <3>1
  <2> HIDE DEF q
  <2>3. c[q] = c[m] + (q - m)
    BY <2>2 DEF RunIn
  <2>4. y = c[q]
    BY <2>2, <2>3
  <2> QED BY <2>2, <2>4
<1>4. c[m] <= c[k]
  <2> DEFINE lo == c[m]
             hi == c[k]
  <2>1. lo \in Nat /\ hi \in Nat /\ hi = lo + (k - m)
    BY <1>2
  <2> HIDE DEF lo, hi
  <2>2. lo <= hi
    BY <1>1, <2>1
  <2> QED BY <2>2 DEF lo, hi
<1> QED BY <1>1, <1>2, <1>3, <1>4

LEMMA RunGrows ==
  ASSUME NEW c \in Seq(Sectors), NEW m \in 1 .. Len(c), NEW k \in m .. Len(c) - 1, RunIn(c, m, k),
         c[k + 1] = c[k] + 1
  PROVE  RunIn(c, m, k + 1)
<1>1. c[m] \in Nat /\ k \in Nat /\ m \in Nat
  <2>1. Len(c) \in Nat /\ c[m] \in Sectors /\ k \in Nat /\ m \in Nat
    OBVIOUS
  <2>2. Sectors \subseteq Nat
    BY SectsIs
  <2> HIDE DEF Sectors
  <2> QED BY <2>1, <2>2
<1>2. ASSUME NEW q \in m .. k + 1
      PROVE  c[q] = c[m] + (q - m)
  <2>1. CASE q = k + 1
    <3>1. c[k] = c[m] + (k - m)
      BY RunIs DEF RunIn
    <3> DEFINE a == c[m]
    <3>2. a \in Nat /\ c[k] = a + (k - m) /\ c[k + 1] = c[k] + 1
      BY <1>1, <3>1
    <3> HIDE DEF a
    <3>3. c[k + 1] = a + ((k + 1) - m)
      BY <1>1, <3>2
    <3> QED BY <2>1, <3>3 DEF a
  <2>2. CASE q # k + 1
    <3>1. q \in m .. k
      BY <1>1, <2>2
    <3> QED BY <3>1 DEF RunIn
  <2> QED BY <2>1, <2>2
<1> QED BY <1>2 DEF RunIn

\* A part of the table that has D and the first i sectors of c, and no more
\* than all of them.
Holds(D, c, i, T) == /\ D \subseteq T /\ \A q \in 1 .. i : c[q] \in T
                     /\ T \subseteq D \cup ToSet(c)

LEMMA HoldsMore ==
  ASSUME NEW D, NEW c \in Seq(Sectors), NEW i \in 0 .. Len(c) - 1, NEW T, Holds(D, c, i, T)
  PROVE  Holds(D, c, i + 1, T \cup {c[i + 1]})
<1>1. i + 1 \in DOMAIN c /\ \A q \in 1 .. i + 1 : q = i + 1 \/ q \in 1 .. i
  OBVIOUS
<1> DEFINE x == c[i + 1]
<1>2. x \in ToSet(c)
  BY <1>1 DEF ToSet
<1>3. \A q \in 1 .. i + 1 : c[q] \in T \cup {x}
  BY <1>1 DEF Holds
<1> HIDE DEF x
<1>4. Holds(D, c, i + 1, T \cup {x})
  BY <1>2, <1>3 DEF Holds
<1> QED BY <1>4 DEF x

\* Over a run every link leads to the next sector.
LEMMA RunLinks ==
  ASSUME NEW next, NEW c, Listed(next, c), NEW m \in 1 .. Len(c), NEW k \in m .. Len(c), RunIn(c, m, k)
  PROVE  \A v \in Sectors : c[m] <= v /\ v < c[k] => next[v] = v + 1
<1> SUFFICES ASSUME NEW v \in Sectors, c[m] <= v, v < c[k]
             PROVE  next[v] = v + 1
  OBVIOUS
<1> DEFINE lo == c[m]
           hi == c[k]
<1>1. c \in Seq(Sectors) /\ Len(c) \in Nat
  BY DEF Listed
<1>2. lo \in Nat /\ hi \in Nat /\ v \in Nat
  BY <1>1, RunIs, SectsIs
<1>3. PICK q \in m .. k : v = c[q] /\ q < k
  <2>1. v <= hi
    BY <1>2
  <2> QED BY <1>1, <2>1, RunIs
<1>4. q \in 1 .. Len(c) - 1 /\ q + 1 \in m .. k /\ q \in Nat /\ m \in Nat
  BY <1>1, <1>3
<1>5. next[v] = c[q + 1]
  BY <1>3, <1>4 DEF Listed
<1>6. c[q] = lo + (q - m) /\ c[q + 1] = lo + ((q + 1) - m)
  BY <1>4 DEF RunIn
<1> HIDE DEF lo
<1> QED BY <1>2, <1>3, <1>4, <1>5, <1>6

\* What holds the sectors before a run, and the run but for its last.
LEMMA RunHolds ==
  ASSUME NEW D, NEW c \in Seq(Sectors), NEW m \in 1 .. Len(c), NEW k \in m .. Len(c), RunIn(c, m, k),
         NEW V, Holds(D, c, m - 1, V), NEW W, V \subseteq W,
         c[m] .. c[k] - 1 \subseteq W, W \subseteq V \cup c[m] .. c[k]
  PROVE  /\ Holds(D, c, k - 1, W)
         /\ c[k] \in W => Holds(D, c, k, W)
<1> DEFINE lo == c[m]
           hi == c[k]
<1>1. Len(c) \in Nat /\ k \in Nat /\ m \in Nat /\ k \in m .. k
  OBVIOUS
<1>2. lo \in Nat /\ hi \in Nat /\ hi \in Sectors
  BY RunIs
<1>3. ASSUME NEW q \in 1 .. k - 1
      PROVE  c[q] \in W
  <2>1. CASE q \in 1 .. m - 1
    BY <2>1 DEF Holds
  <2>2. CASE q \notin 1 .. m - 1
    <3>1. q \in m .. k /\ q < k
      BY <1>1, <2>2
    <3>2. c[q] = lo + (q - m) /\ hi = lo + (k - m)
      BY <1>1, <3>1 DEF RunIn
    <3>3. c[q] \in lo .. hi - 1
      <4> HIDE DEF lo, hi
      <4> QED BY <1>1, <1>2, <3>1, <3>2
    <3> QED BY <3>3
  <2> QED BY <2>1, <2>2
<1>4. lo .. hi \subseteq ToSet(c)
  <2> SUFFICES ASSUME NEW v \in lo .. hi PROVE v \in ToSet(c)
    OBVIOUS
  <2>1. v \in Sectors /\ lo <= v /\ v <= hi
    BY <1>2, SectsIs DEF Sectors
  <2>2. PICK q \in m .. k : v = c[q]
    BY <2>1, RunIs
  <2>3. q \in DOMAIN c
    BY <1>1
  <2> QED BY <2>2, <2>3 DEF ToSet
<1>5. D \subseteq W /\ W \subseteq D \cup ToSet(c)
  BY <1>4 DEF Holds
<1>6. Holds(D, c, k - 1, W)
  BY <1>3, <1>5 DEF Holds
<1>7. ASSUME hi \in W, NEW q \in 1 .. k
      PROVE  c[q] \in W
  <2>1. q = k \/ q \in 1 .. k - 1
    BY <1>1
  <2> QED BY <1>3, <1>7, <2>1
<1> QED BY <1>5, <1>6, <1>7 DEF Holds

\* What the words of list c, the first k of its sectors, have led to.
ListAt(st, h, c, D, k) ==
  \E m, T, L :
    /\ m \in 1 .. k
    /\ st = State("link", c[m], h.type[c[m]], Part(h, T, L))
    /\ RunIn(c, m, k) /\ (Stops(c, k) => m = k)
    /\ Holds(D, c, m - 1, T) /\ Holds(D, c, m - 1, L)

Typed(h, c) == /\ h.type[c[1]] = "first"
               /\ \A k \in 2 .. Len(c) : h.type[c[k]] = "cont"

LEMMA ListBegun ==
  ASSUME NEW h \in Header, NEW c, Listed(h.next, c), Typed(h, c), NEW D, D \subseteq Sectors,
         NEW t \in {"first", "cont"}
  PROVE  LET st == State("list", Nil, t, Part(h, D, D))
         IN st \in Reader /\ ListAt(Reading(st, FilePiece(c, 1)), h, c, D, 1)
<1> DEFINE tbl == Part(h, D, D)
           st == State("list", Nil, t, tbl)
           x == c[1]
<1>1. c \in Seq(Sectors) /\ 1 \in 1 .. Len(c) /\ x \in Sectors
  BY DEF Listed
<1>2. st \in Reader
  BY PartIs DEF State, Reader, Word
<1>3. FilePiece(c, 1) = <<x>>
  BY <1>1, FilePieceIs DEF Begins
<1>4. Reading(st, <<x>>) = ReadWord(st, x)
  BY <1>1, <1>2, SectorWords, ReadingFew
<1>5. ReadWord(st, x) = State("link", x, "first", tbl)
  BY <1>1, SectorWords, ListRead
<1>6. RunIn(c, 1, 1)
  <2>1. x \in Nat
    BY <1>1, SectorWords
  <2>2. \A q \in 1 .. 1 : q = 1 /\ x = x + (q - 1)
    BY <2>1
  <2> QED BY <2>2 DEF RunIn
<1>7. Holds(D, c, 0, D)
  BY DEF Holds
<1>8. ListAt(State("link", x, "first", tbl), h, c, D, 1)
  <2>1. h.type[x] = "first" /\ 1 \in 1 .. 1 /\ 1 - 1 = 0
    BY DEF Typed
  <2> HIDE DEF tbl
  <2>2. State("link", x, "first", tbl) = State("link", c[1], h.type[c[1]], tbl)
    BY <2>1
  <2> QED BY <1>6, <1>7, <2>1, <2>2 DEF ListAt, tbl
<1> HIDE DEF st, tbl, x
<1> QED BY <1>2, <1>3, <1>4, <1>5, <1>8 DEF st, tbl

LEMMA ListGoesOn ==
  ASSUME NEW h \in Header, NEW c, Listed(h.next, c), Typed(h, c), NEW D,
         NEW k \in 1 .. Len(c) - 1, NEW st \in Reader, ListAt(st, h, c, D, k)
  PROVE  ListAt(Reading(st, FilePiece(c, k + 1)), h, c, D, k + 1)
<1> DEFINE x == c[k + 1]
           y == c[k]
<1>1. /\ c \in Seq(Sectors) /\ Len(c) \in Nat /\ k \in 1 .. Len(c) /\ k + 1 \in 1 .. Len(c)
      /\ x \in Sectors /\ y \in Sectors /\ h.next[y] = x /\ k + 1 # 1 /\ (k + 1) - 1 = k
      /\ x \in Word /\ x # Nil /\ x # Run /\ Run \in Word /\ k # Len(c)
  <2>1. c \in Seq(Sectors) /\ Len(c) \in Nat /\ k \in 1 .. Len(c) /\ k + 1 \in 1 .. Len(c)
        /\ k + 1 # 1 /\ (k + 1) - 1 = k /\ k # Len(c) /\ h.next[y] = x
    BY DEF Listed
  <2>2. x \in Sectors /\ y \in Sectors
    BY <2>1
  <2> QED BY <2>1, <2>2, SectorWords DEF Word
<1>2. h.type[x] = "cont"
  <2>1. k + 1 \in 2 .. Len(c)
    BY <1>1
  <2> QED BY <2>1 DEF Typed
<1>3. /\ Begins(c, k + 1) <=> x # y + 1
      /\ Stops(c, k) <=> x # y + 1
  BY <1>1 DEF Begins, Stops
<1>4. PICK m, T, L :
        /\ m \in 1 .. k
        /\ st = State("link", c[m], h.type[c[m]], Part(h, T, L))
        /\ RunIn(c, m, k) /\ (Stops(c, k) => m = k)
        /\ Holds(D, c, m - 1, T) /\ Holds(D, c, m - 1, L)
  BY DEF ListAt
<1> DEFINE z == c[m]
           t == h.type[z]
           tbl == Part(h, T, L)
<1>5. m \in 1 .. Len(c) /\ k \in m .. Len(c) /\ k \in m .. Len(c) - 1 /\ z \in Sectors /\ m \in 1 .. k + 1
      /\ m - 1 \in 0 .. Len(c) - 1 /\ (m - 1) + 1 = m
  BY <1>1, <1>4
<1>6. Holds(D, c, m, T \cup {z}) /\ Holds(D, c, m, L \cup {z})
  <2> DEFINE i == m - 1
  <2>1. i \in 0 .. Len(c) - 1 /\ i + 1 = m /\ Holds(D, c, i, T) /\ Holds(D, c, i, L)
    BY <1>4, <1>5
  <2> HIDE DEF i
  <2>2. Holds(D, c, i + 1, T \cup {c[i + 1]}) /\ Holds(D, c, i + 1, L \cup {c[i + 1]})
    BY <1>1, <2>1, HoldsMore
  <2> QED BY <2>1, <2>2
<1>8. RunIn(c, k + 1, k + 1)
  <2>1. x \in Nat
    BY <1>1, SectorWords
  <2>2. \A q \in k + 1 .. k + 1 : q = k + 1 /\ x = x + (q - (k + 1))
    BY <1>1, <2>1
  <2> QED BY <2>2 DEF RunIn
<1>9. CASE x # y + 1
  <2>1. m = k /\ FilePiece(c, k + 1) = <<x>>
    BY <1>1, <1>3, <1>4, <1>9, FilePieceIs
  <2>2. Reading(st, <<x>>) = ReadWord(st, x)
    BY <1>1, ReadingFew
  <2> HIDE DEF x, t, tbl
  <2>3. ReadWord(State("link", z, t, tbl), x)
          = State("link", x, "cont", TypedAs(LinkedTo(tbl, z, x), z, t))
    BY <1>1, LinkRead
  <2>4. TypedAs(LinkedTo(tbl, z, x), z, t) = Part(h, T \cup {z}, L \cup {z})
    <3>1. h.next[z] = x
      BY <1>1, <2>1
    <3>2. LinkedTo(tbl, z, x) = Part(h, T, L \cup {z})
      BY <1>5, <3>1, PartLinked DEF tbl
    <3>3. TypedAs(Part(h, T, L \cup {z}), z, t) = Part(h, T \cup {z}, L \cup {z})
      BY <1>5, PartTyped DEF t
    <3> QED BY <3>2, <3>3
  <2>5. Reading(st, FilePiece(c, k + 1)) = State("link", x, h.type[x], Part(h, T \cup {z}, L \cup {z}))
    BY <1>2, <1>4, <2>1, <2>2, <2>3, <2>4 DEF t, tbl
  <2> DEFINE U == T \cup {z}
             M == L \cup {z}
             new == Reading(st, FilePiece(c, k + 1))
  <2>6. /\ k + 1 \in 1 .. k + 1 /\ (k + 1) - 1 = k
        /\ Holds(D, c, k, U) /\ Holds(D, c, k, M)
    BY <1>1, <1>6, <2>1
  <2> HIDE DEF U, M, new
  <2>7. new = State("link", c[k + 1], h.type[c[k + 1]], Part(h, U, M))
    BY <2>5 DEF U, M, new, x
  <2>8. ListAt(new, h, c, D, k + 1)
    BY <1>8, <2>6, <2>7 DEF ListAt
  <2> QED BY <2>8 DEF new
<1>10. CASE x = y + 1 /\ Stops(c, k + 1)
  <2>1. FilePiece(c, k + 1) = <<Run, x>>
    BY <1>1, <1>3, <1>10, FilePieceIs
  <2>2. Reading(st, <<Run, x>>) = ReadWord(ReadWord(st, Run), x)
    BY <1>1, ReadingFew
  <2> DEFINE big == Part(h, T \cup {z}, L)
             U == (T \cup {z}) \cup {q \in z .. x : "cont" = "free" \/ q > z}
             M == L \cup (z .. x - 1)
  <2>3. ReadWord(State("link", z, t, tbl), Run) = State("run", z, "cont", big)
    <3>1. TypedAs(tbl, z, t) = big
      BY <1>5, PartTyped
    <3> HIDE DEF big, t, tbl
    <3> QED BY <3>1, LinkRun
  <2>4. RunIn(c, m, k + 1)
    BY <1>1, <1>4, <1>5, <1>10, RunGrows
  <2>5. /\ z <= x /\ z \in Nat /\ x \in Nat
        /\ \A v \in Sectors : z <= v /\ v <= x
             => \E q \in m .. k + 1 : v = c[q] /\ (v < x => q < k + 1) /\ (v > z => q > m)
    <3>1. k + 1 \in m .. Len(c)
      BY <1>1, <1>5
    <3> QED BY <1>1, <1>5, <2>4, <3>1, RunIs
  <2>6. \A v \in Nat : v <= x => v \in Sectors
    BY <1>1, <2>5, SectsIs DEF Sectors
  <2>7. \A v \in Sectors : z <= v /\ v < x => h.next[v] = v + 1
    <3>1. k + 1 \in m .. Len(c)
      BY <1>1, <1>5
    <3> QED BY <1>5, <2>4, <3>1, RunLinks
  <2>8. ASSUME NEW v \in Sectors, v \in z .. x, v > z
        PROVE  h.type[v] = "cont"
    <3>1. PICK q \in m .. k + 1 : v = c[q] /\ q > m
      BY <2>5, <2>8, SectsIs
    <3>2. q \in 2 .. Len(c)
      BY <1>1, <1>5, <3>1
    <3> QED BY <3>1, <3>2 DEF Typed
  <2>9. Linked(big, z, x, "cont") = Part(h, U, M)
    <3>1. \A v \in Sectors : z <= v /\ v < x => h.next[v] = v + 1
      BY <2>7
    <3>2. \A v \in Sectors : v \in z .. x /\ ("cont" = "free" \/ v > z) => h.type[v] = "cont"
      BY <2>8
    <3> HIDE DEF z, x
    <3> QED BY <1>1, <1>5, <3>1, <3>2, PartRun
  <2>10. ReadWord(State("run", z, "cont", big), x) = State("link", x, "cont", Part(h, U, M))
    <3> HIDE DEF big, z, x, U, M
    <3> QED BY <2>9, RunRead
  <2>11. Reading(st, FilePiece(c, k + 1)) = State("link", x, h.type[x], Part(h, U, M))
    <3> HIDE DEF big, U, M, x, tbl, t
    <3>1. ReadWord(st, Run) = State("run", z, "cont", big)
      BY <1>4, <2>3 DEF t, tbl
    <3> QED BY <1>2, <2>1, <2>2, <2>10, <3>1
  <2>12. ASSUME NEW V, Holds(D, c, m - 1, V), NEW W, V \subseteq W, z .. x - 1 \subseteq W, W \subseteq V \cup z .. x
         PROVE  Holds(D, c, k, W)
    <3>1. k + 1 \in m .. Len(c)
      BY <1>1, <1>5
    <3>2. Holds(D, c, (k + 1) - 1, W)
      BY <1>1, <1>5, <2>4, <2>12, <3>1, RunHolds
    <3> QED BY <1>1, <3>2
  <2>13. Holds(D, c, k, U) /\ Holds(D, c, k, M)
    <3>1. T \subseteq U /\ z .. x - 1 \subseteq U /\ U \subseteq T \cup z .. x
      BY <2>5
    <3>2. L \subseteq M /\ z .. x - 1 \subseteq M /\ M \subseteq L \cup z .. x
      BY <2>5
    <3> HIDE DEF U, M
    <3> QED BY <1>4, <2>12, <3>1, <3>2
  <2>14. k + 1 \in 1 .. k + 1
    BY <1>1
  <2> HIDE DEF U, M
  <2> QED BY <1>1, <1>8, <2>11, <2>13, <2>14 DEF ListAt, x
<1>11. CASE x = y + 1 /\ ~Stops(c, k + 1)
  <2>1. FilePiece(c, k + 1) = <<>>
    BY <1>1, <1>3, <1>11, FilePieceIs
  <2>2. Reading(st, <<>>) = st
    BY ReadingFew
  <2>3. RunIn(c, m, k + 1)
    BY <1>1, <1>4, <1>5, <1>11, RunGrows
  <2>4. ListAt(st, h, c, D, k + 1)
    BY <1>4, <1>5, <1>11, <2>3 DEF ListAt
  <2> QED BY <2>1, <2>2, <2>4
<1> QED BY <1>9, <1>10, <1>11

\* What comes of words that are read by pieces.
LEMMA PiecesRead ==
  ASSUME NEW n \in Nat, NEW p \in [1 .. n -> Seq(Word)], NEW st \in Reader
  PROVE  \E f \in [0 .. n -> Seq(Word)] :
           /\ FlattenSeq(p) = f[n] /\ Reading(st, f[0]) = st
           /\ \A k \in 0 .. n : Reading(st, f[k]) \in Reader
           /\ \A k \in 1 .. n : Reading(st, f[k]) = Reading(Reading(st, f[k - 1]), p[k])
<1>1. PICK f : Flattens(f, n, Word, p) /\ FlattenSeq(p) = f[n]
  BY FlattenIs DEF FlattensOut
<1>2. f \in [0 .. n -> Seq(Word)] /\ f[0] = <<>>
  BY <1>1 DEF Flattens
<1>3. Reading(st, f[0]) = st
  BY <1>2, ReadingFew
<1>4. \A k \in 0 .. n : Reading(st, f[k]) \in Reader
  BY <1>2, ReadingOn, FewWords
<1>5. ASSUME NEW k \in 1 .. n
      PROVE  Reading(st, f[k]) = Reading(Reading(st, f[k - 1]), p[k])
  <2>1. f[k - 1] \in Seq(Word) /\ p[k] \in Seq(Word)
    <3>1. k - 1 \in 0 .. n
      OBVIOUS
    <3> QED BY <1>2, <3>1
  <2>2. f[k] = f[k - 1] \o p[k]
    BY <1>1 DEF Flattens
  <2> QED BY <2>1, <2>2, ReadingOn
<1> QED BY <1>1, <1>2, <1>3, <1>4, <1>5

LEMMA HoldsAll ==
  ASSUME NEW D, NEW c \in Seq(Sectors), NEW T, Holds(D, c, Len(c), T)
  PROVE  T = D \cup ToSet(c)
  BY DEF Holds, ToSet

\* The words of a file's list, or of the chain's.
LEMMA ListReadBack ==
  ASSUME NEW h \in Header, NEW s \in Sectors, Ends(h.next, s), NEW c, c = ListFrom(h.next, s), Typed(h, c),
         NEW D, D \subseteq Sectors, NEW t \in {"first", "cont"}
  PROVE  /\ ListWords(h, s) \in Seq(Word) /\ D \cup ToSet(c) \subseteq Sectors
         /\ Reading(State("list", Nil, t, Part(h, D, D)), ListWords(h, s))
              = State("list", Nil, "cont", Part(h, D \cup ToSet(c), D \cup ToSet(c)))
<1> DEFINE n == Len(c)
           st == State("list", Nil, t, Part(h, D, D))
           p == [i \in DOMAIN c |-> FilePiece(c, i)]
<1>1. Listed(h.next, c)
  BY HeaderIs, ListFromIs
<1>2. c \in Seq(Sectors) /\ n \in Nat /\ n >= 1 /\ DOMAIN c = 1 .. n
  BY <1>1 DEF Listed
<1>3. p \in [1 .. n -> Seq(Word)]
  BY <1>2, FilePieceIs
<1>4. ListWords(h, s) = FlattenSeq(p) \o <<Nil>>
  BY DEF ListWords, FilePiece
<1>5. st \in Reader /\ ListAt(Reading(st, FilePiece(c, 1)), h, c, D, 1)
  BY <1>1, ListBegun
<1>6. \A i \in 1 .. n : p[i] = FilePiece(c, i)
  BY <1>2
<1> HIDE DEF st, p, n
<1>7. PICK f \in [0 .. n -> Seq(Word)] :
        /\ FlattenSeq(p) = f[n] /\ Reading(st, f[0]) = st
        /\ \A k \in 0 .. n : Reading(st, f[k]) \in Reader
        /\ \A k \in 1 .. n : Reading(st, f[k]) = Reading(Reading(st, f[k - 1]), p[k])
  BY <1>2, <1>3, <1>5, PiecesRead
<1> DEFINE S == {k \in 0 .. n : k # 0 => ListAt(Reading(st, f[k]), h, c, D, k)}
<1>8. 0 .. n \subseteq S
  <2>1. 0 \in S
    BY <1>2
  <2>2. ASSUME NEW k \in S, k \in 0 .. n - 1
        PROVE  k + 1 \in S
    <3>1. k + 1 \in 1 .. n /\ (k + 1) - 1 = k /\ k + 1 \in 0 .. n
      BY <1>2, <2>2
    <3>2. Reading(st, f[k + 1]) = Reading(Reading(st, f[k]), FilePiece(c, k + 1))
      BY <1>6, <1>7, <3>1
    <3>3. CASE k = 0
      <4>1. k + 1 = 1 /\ Reading(st, f[k]) = st
        BY <1>7, <3>3
      <4>2. ListAt(Reading(st, f[k + 1]), h, c, D, k + 1)
        BY <1>5, <3>2, <4>1
      <4> QED BY <3>1, <4>2
    <3>4. CASE k # 0
      <4>1. k \in 1 .. Len(c) - 1 /\ ListAt(Reading(st, f[k]), h, c, D, k) /\ Reading(st, f[k]) \in Reader
        BY <1>2, <1>7, <2>2, <3>4 DEF n
      <4>2. ListAt(Reading(Reading(st, f[k]), FilePiece(c, k + 1)), h, c, D, k + 1)
        BY <1>1, <4>1, ListGoesOn
      <4> QED BY <3>1, <3>2, <4>2
    <3> QED BY <3>3, <3>4
  <2> HIDE DEF S
  <2> QED BY <1>2, <2>1, <2>2, UptoSets
<1>9. ListAt(Reading(st, f[n]), h, c, D, n)
  <2>1. n \in 0 .. n /\ n # 0
    BY <1>2
  <2> QED BY <1>8, <2>1
<1> DEFINE E == D \cup ToSet(c)
           z == c[n]
<1>10. PICK m, T, L :
        /\ m \in 1 .. n
         /\ Reading(st, f[n]) = State("link", c[m], h.type[c[m]], Part(h, T, L))
         /\ RunIn(c, m, n) /\ (Stops(c, n) => m = n)
         /\ Holds(D, c, m - 1, T) /\ Holds(D, c, m - 1, L)
  BY <1>9 DEF ListAt
<1>11. m = n
  BY <1>10 DEF Stops, n
<1>12. z \in Sectors /\ h.next[z] = Nil
  BY <1>1, <1>2 DEF Listed, n
<1>13. T \cup {z} = E /\ L \cup {z} = E
  <2>1. n - 1 \in 0 .. Len(c) - 1 /\ (n - 1) + 1 = n
    BY <1>2 DEF n
  <2> DEFINE i == n - 1
  <2>2. i \in 0 .. Len(c) - 1 /\ i + 1 = n /\ Holds(D, c, i, T) /\ Holds(D, c, i, L)
    BY <1>10, <1>11, <2>1
  <2> HIDE DEF i, z
  <2>3. Holds(D, c, i + 1, T \cup {c[i + 1]}) /\ Holds(D, c, i + 1, L \cup {c[i + 1]})
    BY <1>2, <2>2, HoldsMore
  <2>4. Holds(D, c, Len(c), T \cup {z}) /\ Holds(D, c, Len(c), L \cup {z})
    BY <2>2, <2>3 DEF z, n
  <2> QED BY <1>2, <2>4, HoldsAll
<1> DEFINE a == f[n]
           b == <<Nil>>
           w == h.type[z]
           tbl == Part(h, T, L)
<1>14. a \in Seq(Word) /\ b \in Seq(Word) /\ Nil \in Word
  <2>1. Nil \in Word
    BY DEF Word
  <2>2. b \in Seq(Word)
    BY <2>1, FewWords
  <2>3. a \in Seq(Word)
    BY <1>2, <1>7
  <2> QED BY <2>1, <2>2, <2>3
<1>15. Reading(st, a) = State("link", z, w, tbl) /\ Reading(st, a) \in Reader
  <2>1. n \in 0 .. n
    BY <1>2
  <2> QED BY <1>7, <1>10, <1>11, <2>1
<1>16. Reading(Reading(st, a), b) = ReadWord(Reading(st, a), Nil)
  BY <1>14, <1>15, ReadingFew
<1>17. TypedAs(LinkedTo(tbl, z, Nil), z, w) = Part(h, E, E)
  <2>1. LinkedTo(tbl, z, h.next[z]) = Part(h, T, L \cup {z})
    BY <1>12, PartLinked
  <2>2. TypedAs(Part(h, T, L \cup {z}), z, w) = Part(h, T \cup {z}, L \cup {z})
    BY <1>12, PartTyped
  <2> HIDE DEF z, E, tbl, w
  <2> QED BY <1>12, <1>13, <2>1, <2>2
<1> HIDE DEF a, b, z, E, tbl, w
<1>18. ReadWord(State("link", z, w, tbl), Nil) = State("list", Nil, "cont", Part(h, E, E))
  BY <1>17, LinkEnds
<1>19. Reading(st, a \o b) = State("list", Nil, "cont", Part(h, E, E))
  <2>1. Reading(st, a \o b) = Reading(Reading(st, a), b)
    BY <1>5, <1>14, ReadingOn
  <2> QED BY <1>15, <1>16, <1>18, <2>1
<1>20. a \o b \in Seq(Word)
  BY <1>14, ConcatProperties
<1>21. ListWords(h, s) = a \o b
  BY <1>4, <1>7 DEF a, b
<1>22. E \subseteq Sectors
  BY <1>2 DEF E, ToSet
<1> QED BY <1>19, <1>20, <1>21, <1>22 DEF st, E

(* And of the free list.                                                    *)
FreeOpen(st, h, c, k) ==
  \E m, T, L :
    /\ m \in 1 .. k
    /\ st = State("free end", c[m], "first", Part(h, T, L)) /\ RunIn(c, m, k)
    /\ Holds({}, c, m - 1, T) /\ Holds({}, c, m - 1, L)
FreeShut(st, h, c, k) ==
  \E T, L :
    /\ st = State("free link", c[k], "first", Part(h, T, L))
    /\ Holds({}, c, k, T) /\ Holds({}, c, k - 1, L)
FreeAt(st, h, c, k) == IF Stops(c, k) THEN FreeShut(st, h, c, k) ELSE FreeOpen(st, h, c, k)
AllFree(h, c) == \A k \in 1 .. Len(c) : h.type[c[k]] = "free"

LEMMA FreeCloses ==
  ASSUME NEW h \in Header, NEW c, Listed(h.next, c), AllFree(h, c),
         NEW k \in 1 .. Len(c), NEW st \in Reader, FreeOpen(st, h, c, k),
         NEW b, b = IF Stops(c, k) THEN <<c[k]>> ELSE <<>>
  PROVE  FreeAt(Reading(st, b), h, c, k)
<1> DEFINE x == c[k]
<1>1. c \in Seq(Sectors) /\ Len(c) \in Nat /\ x \in Sectors /\ x \in Word
  <2>1. c \in Seq(Sectors) /\ Len(c) \in Nat
    BY DEF Listed
  <2> QED BY <2>1, SectorWords
<1>2. CASE ~Stops(c, k)
  BY <1>2, ReadingFew DEF FreeAt
<1>3. CASE Stops(c, k)
  <2>1. PICK m, T, L :
        /\ m \in 1 .. k
          /\ st = State("free end", c[m], "first", Part(h, T, L)) /\ RunIn(c, m, k)
          /\ Holds({}, c, m - 1, T) /\ Holds({}, c, m - 1, L)
    BY DEF FreeOpen
  <2> DEFINE z == c[m]
             tbl == Part(h, T, L)
             U == T \cup {q \in z .. x : "free" = "free" \/ q > z}
             M == L \cup (z .. x - 1)
  <2>a. m \in 1 .. k /\ RunIn(c, m, k)
    BY <2>1
  <2>2. m \in 1 .. Len(c) /\ k \in m .. Len(c)
    BY <1>1, <2>a
  <2>3. z \in Sectors /\ z <= x /\ z \in Nat /\ x \in Nat
    BY <1>1, <2>1, <2>2, RunIs
  <2>4. Linked(tbl, z, x, "free") = Part(h, U, M)
    <3>1. \A v \in Sectors : z <= v /\ v < x => h.next[v] = v + 1
      BY <2>1, <2>2, RunLinks
    <3>2. ASSUME NEW v \in Sectors, v \in z .. x
          PROVE  h.type[v] = "free"
      <4> HIDE DEF z, x
      <4>0. z <= v /\ v <= x
        BY <2>3, <3>2
      <4>1. PICK q \in m .. k : v = c[q]
        BY <1>1, <2>a, <2>2, <4>0, RunIs DEF z, x
      <4>2. q \in 1 .. Len(c)
        BY <1>1, <2>2
      <4> QED BY <4>1, <4>2 DEF AllFree
    <3>3. \A v \in Sectors : v \in z .. x /\ ("free" = "free" \/ v > z) => h.type[v] = "free"
      BY <3>2
    <3> HIDE DEF z, x
    <3> QED BY <1>1, <2>3, <3>1, <3>3, PartRun
  <2>5. Holds({}, c, k, U) /\ Holds({}, c, k - 1, M)
    <3>1. T \subseteq U /\ z .. x - 1 \subseteq U /\ U \subseteq T \cup z .. x /\ x \in U
      BY <2>3
    <3>2. L \subseteq M /\ z .. x - 1 \subseteq M /\ M \subseteq L \cup z .. x
      BY <2>3
    <3> HIDE DEF U, M
    <3> QED BY <1>1, <2>1, <2>2, <3>1, <3>2, RunHolds
  <2>6. Reading(st, <<x>>) = ReadWord(st, x)
    BY <1>1, ReadingFew
  <2> HIDE DEF U, M
  <2>7. ReadWord(st, x) = State("free link", x, "first", Part(h, U, M))
    <3> HIDE DEF x
    <3>1. ReadWord(State("free end", z, "first", tbl), x)
            = State("free link", x, "first", Linked(tbl, z, x, "free"))
      BY FreeEndRead
    <3> HIDE DEF z, tbl
    <3>2. ReadWord(State("free end", z, "first", tbl), x) = State("free link", x, "first", Part(h, U, M))
      BY <2>4, <3>1
    <3> QED BY <2>1, <3>2 DEF z, tbl
  <2>8. FreeShut(Reading(st, b), h, c, k)
    BY <1>3, <2>5, <2>6, <2>7 DEF FreeShut
  <2> QED BY <1>3, <2>8 DEF FreeAt
<1> QED BY <1>2, <1>3

LEMMA FreeOpens ==
  ASSUME NEW h \in Header, NEW c, Listed(h.next, c),
         NEW k \in 1 .. Len(c) - 1, NEW st \in Reader, FreeAt(st, h, c, k),
         NEW a, a = IF k + 1 # 1 /\ Begins(c, k + 1) THEN <<c[k + 1]>> ELSE <<>>
  PROVE  FreeOpen(Reading(st, a), h, c, k + 1)
<1> DEFINE x == c[k + 1]
           y == c[k]
<1>1. /\ c \in Seq(Sectors) /\ Len(c) \in Nat /\ k \in 1 .. Len(c) /\ k + 1 \in 1 .. Len(c)
      /\ h.next[y] = x /\ k + 1 # 1 /\ (k + 1) - 1 = k /\ k # Len(c) /\ k + 1 \in 1 .. k + 1
  BY DEF Listed
<1>2. x \in Sectors /\ y \in Sectors /\ x \in Word /\ x # Nil /\ x \in Nat
  BY <1>1, SectorWords
<1>3. /\ Begins(c, k + 1) <=> x # y + 1
      /\ Stops(c, k) <=> x # y + 1
  BY <1>1 DEF Begins, Stops
<1>4. CASE x # y + 1
  <2>1. PICK T, L :
          /\ st = State("free link", y, "first", Part(h, T, L))
          /\ Holds({}, c, k, T) /\ Holds({}, c, k - 1, L)
    BY <1>3, <1>4 DEF FreeAt, FreeShut
  <2>2. a = <<x>>
    BY <1>1, <1>3, <1>4
  <2>3. Reading(st, <<x>>) = ReadWord(st, x)
    BY <1>2, ReadingFew
  <2>4. LinkedTo(Part(h, T, L), y, x) = Part(h, T, L \cup {y})
    BY <1>1, <1>2, PartLinked
  <2>5. Holds({}, c, k, L \cup {y})
    <3> DEFINE i == k - 1
    <3>1. i \in 0 .. Len(c) - 1 /\ i + 1 = k
      BY <1>1
    <3>0. Holds({}, c, i, L)
      BY <2>1
    <3> HIDE DEF i
    <3>2. Holds({}, c, i + 1, L \cup {c[i + 1]})
      BY <1>1, <3>0, <3>1, HoldsMore
    <3> QED BY <3>1, <3>2
  <2>6. RunIn(c, k + 1, k + 1)
    <3>1. \A q \in k + 1 .. k + 1 : q = k + 1 /\ x = x + (q - (k + 1))
      BY <1>1, <1>2
    <3> QED BY <3>1 DEF RunIn
  <2> DEFINE tbl == Part(h, T, L)
             new == Part(h, T, L \cup {y})
  <2>7. ReadWord(st, x) = State("free end", x, "first", new)
    <3> HIDE DEF tbl, new, x, y
    <3>1. ReadWord(State("free link", y, "first", tbl), x)
            = State("free end", x, "first", LinkedTo(tbl, y, x))
      BY <1>2 DEF ReadWord, State, LinkedTo
    <3>2. LinkedTo(tbl, y, x) = new
      BY <2>4 DEF tbl, new
    <3> QED BY <2>1, <3>1, <3>2 DEF tbl
  <2> QED BY <1>1, <2>1, <2>2, <2>3, <2>5, <2>6, <2>7 DEF FreeOpen
<1>5. CASE x = y + 1
  <2>1. a = <<>> /\ Reading(st, a) = st
    BY <1>3, <1>5, ReadingFew
  <2>2. PICK m, T, L :
        /\ m \in 1 .. k
          /\ st = State("free end", c[m], "first", Part(h, T, L)) /\ RunIn(c, m, k)
          /\ Holds({}, c, m - 1, T) /\ Holds({}, c, m - 1, L)
    BY <1>3, <1>5 DEF FreeAt, FreeOpen
  <2>a. m \in 1 .. k
    BY <2>2
  <2>3. m \in 1 .. Len(c) /\ k \in m .. Len(c) - 1 /\ m \in 1 .. k + 1
    BY <1>1, <2>a
  <2>4. RunIn(c, m, k + 1)
    BY <1>1, <1>5, <2>2, <2>3, RunGrows
  <2> QED BY <2>1, <2>2, <2>3, <2>4 DEF FreeOpen
<1> QED BY <1>4, <1>5

LEMMA FreePieceRead ==
  ASSUME NEW c \in Seq(Sectors), NEW i \in 1 .. Len(c), NEW st \in Reader
  PROVE  \E a, b \in Seq(Word) :
           /\ Reading(st, FreePiece(c, i)) = Reading(Reading(st, a), b) /\ Reading(st, a) \in Reader
           /\ a = IF i # 1 /\ Begins(c, i) THEN <<c[i]>> ELSE <<>>
           /\ b = IF Stops(c, i) THEN <<c[i]>> ELSE <<>>
<1>1. PICK a \in Seq(Word), b \in Seq(Word) :
        /\ FreePiece(c, i) = a \o b
        /\ a = IF i # 1 /\ Begins(c, i) THEN <<c[i]>> ELSE <<>>
        /\ b = IF Stops(c, i) THEN <<c[i]>> ELSE <<>>
  BY FreePieceIs
<1>2. Reading(st, a \o b) = Reading(Reading(st, a), b) /\ Reading(st, a) \in Reader
  BY ReadingOn
<1> QED BY <1>1, <1>2

LEMMA FreeReadBack ==
  ASSUME NEW h \in Header, h.free # Nil, Ends(h.next, h.free),
         NEW c, c = ListFrom(h.next, h.free), AllFree(h, c)
  PROVE  /\ FreeWords(h) \in Seq(Word) /\ State("free end", h.free, "first", Part(h, {}, {})) \in Reader
         /\ Reading(State("free end", h.free, "first", Part(h, {}, {})), FreeWords(h))
              = State("list", Nil, "first", Part(h, ToSet(c), ToSet(c)))
<1> DEFINE n == Len(c)
           s == h.free
           st == State("free end", s, "first", Part(h, {}, {}))
           p == [i \in DOMAIN c |-> FreePiece(c, i)]
<1>0. s \in Sectors
  BY HeaderIs
<1>1. Listed(h.next, c) /\ c[1] = s
  BY <1>0, HeaderIs, ListFromIs
<1>2. c \in Seq(Sectors) /\ n \in Nat /\ n >= 1 /\ DOMAIN c = 1 .. n
  BY <1>1 DEF Listed
<1>3. p \in [1 .. n -> Seq(Word)]
  <2>1. ASSUME NEW i \in 1 .. n
        PROVE  FreePiece(c, i) \in Seq(Word)
    <3>1. PICK a \in Seq(Word), b \in Seq(Word) : FreePiece(c, i) = a \o b
      BY <1>2, FreePieceIs
    <3> QED BY <3>1, ConcatProperties
  <2> QED BY <1>2, <2>1
<1>4. FreeWords(h) = FlattenSeq(p) \o <<Nil>>
  BY DEF FreeWords, FreePiece
<1>5. st \in Reader
  <2>1. s \in Word
    BY <1>0, SectorWords
  <2> QED BY <2>1, PartIs DEF State, Reader
<1>6. \A i \in 1 .. n : p[i] = FreePiece(c, i)
  BY <1>2
<1> HIDE DEF st, p, n
<1>7. PICK f \in [0 .. n -> Seq(Word)] :
        /\ FlattenSeq(p) = f[n] /\ Reading(st, f[0]) = st
        /\ \A k \in 0 .. n : Reading(st, f[k]) \in Reader
        /\ \A k \in 1 .. n : Reading(st, f[k]) = Reading(Reading(st, f[k - 1]), p[k])
  BY <1>2, <1>3, <1>5, PiecesRead
<1>8. FreeOpen(st, h, c, 1)
  <2> DEFINE tbl == Part(h, {}, {})
  <2>1. RunIn(c, 1, 1)
    <3>1. s \in Nat
      BY <1>0, SectorWords
    <3>2. \A q \in 1 .. 1 : q = 1 /\ s = s + (q - 1)
      BY <3>1
    <3> QED BY <1>1, <3>2 DEF RunIn
  <2>2. Holds({}, c, 0, {}) /\ 1 - 1 = 0 /\ 1 \in 1 .. 1
    BY DEF Holds
  <2>3. st = State("free end", c[1], "first", Part(h, {}, {}))
    BY <1>1 DEF st
  <2> QED BY <2>1, <2>2, <2>3 DEF FreeOpen
<1>9. ASSUME NEW k \in 1 .. n, NEW u \in Reader, k = 1 => FreeOpen(u, h, c, 1),
             k # 1 => FreeAt(u, h, c, k - 1)
      PROVE  FreeAt(Reading(u, FreePiece(c, k)), h, c, k)
  <2>1. k \in 1 .. Len(c)
    BY DEF n
  <2>2. PICK a \in Seq(Word), b \in Seq(Word) :
           /\ Reading(u, FreePiece(c, k)) = Reading(Reading(u, a), b) /\ Reading(u, a) \in Reader
           /\ a = IF k # 1 /\ Begins(c, k) THEN <<c[k]>> ELSE <<>>
           /\ b = IF Stops(c, k) THEN <<c[k]>> ELSE <<>>
    BY <1>2, <2>1, FreePieceRead
  <2>3. FreeOpen(Reading(u, a), h, c, k)
    <3>1. CASE k = 1
      <4>1. a = <<>>
        BY <2>2, <3>1
      <4>2. Reading(u, a) = u
        BY <4>1, ReadingFew
      <4> QED BY <1>9, <3>1, <4>2
    <3>2. CASE k # 1
      <4> DEFINE j == k - 1
      <4>1. j \in 1 .. Len(c) - 1 /\ j + 1 = k
        BY <1>2, <3>2 DEF n
      <4>2. FreeAt(u, h, c, j)
        BY <1>9, <3>2
      <4> HIDE DEF j
      <4>3. a = IF j + 1 # 1 /\ Begins(c, j + 1) THEN <<c[j + 1]>> ELSE <<>>
        BY <2>2, <4>1
      <4>4. FreeOpen(Reading(u, a), h, c, j + 1)
        BY <1>1, <4>1, <4>2, <4>3, FreeOpens
      <4> QED BY <4>1, <4>4
    <3> QED BY <3>1, <3>2
  <2>4. FreeAt(Reading(Reading(u, a), b), h, c, k)
    BY <1>1, <2>1, <2>2, <2>3, FreeCloses
  <2> QED BY <2>2, <2>4
<1> DEFINE S == {k \in 0 .. n : k # 0 => FreeAt(Reading(st, f[k]), h, c, k)}
<1>10. 0 .. n \subseteq S
  <2>1. 0 \in S
    BY <1>2
  <2>2. ASSUME NEW k \in S, k \in 0 .. n - 1
        PROVE  k + 1 \in S
    <3>1. k + 1 \in 1 .. n /\ (k + 1) - 1 = k /\ k + 1 \in 0 .. n
      BY <1>2, <2>2
    <3>2. Reading(st, f[k + 1]) = Reading(Reading(st, f[k]), FreePiece(c, k + 1))
      BY <1>6, <1>7, <3>1
    <3> DEFINE u == Reading(st, f[k])
    <3>3. u \in Reader /\ (k + 1 = 1 => FreeOpen(u, h, c, 1)) /\ (k + 1 # 1 => FreeAt(u, h, c, (k + 1) - 1))
      BY <1>7, <1>8, <2>2, <3>1
    <3> HIDE DEF u
    <3>4. FreeAt(Reading(u, FreePiece(c, k + 1)), h, c, k + 1)
      BY <1>9, <3>1, <3>3
    <3> QED BY <3>1, <3>2, <3>4 DEF u
  <2> HIDE DEF S
  <2> QED BY <1>2, <2>1, <2>2, UptoSets
<1> DEFINE z == c[n]
           a == f[n]
           b == <<Nil>>
           E == ToSet(c)
<1>11. FreeShut(Reading(st, a), h, c, n) /\ Reading(st, a) \in Reader
  <2>1. n \in 0 .. n /\ n # 0
    BY <1>2
  <2>2. FreeAt(Reading(st, a), h, c, n) /\ Reading(st, a) \in Reader
    BY <1>7, <1>10, <2>1
  <2>3. Stops(c, n)
    BY DEF Stops, n
  <2> QED BY <2>2, <2>3 DEF FreeAt
<1>12. PICK T, L :
         /\ Reading(st, a) = State("free link", z, "first", Part(h, T, L))
         /\ Holds({}, c, n, T) /\ Holds({}, c, n - 1, L)
  BY <1>11 DEF FreeShut
<1>13. z \in Sectors /\ h.next[z] = Nil
  BY <1>1, <1>2 DEF Listed, n
<1>14. T = E /\ L \cup {z} = E
  <2>1. T = {} \cup E
    BY <1>2, <1>12, HoldsAll DEF n
  <2> DEFINE i == n - 1
  <2>2. i \in 0 .. Len(c) - 1 /\ i + 1 = n
    BY <1>2 DEF n
  <2>3. Holds({}, c, i, L)
    BY <1>12
  <2> HIDE DEF i, z, E
  <2>4. Holds({}, c, i + 1, L \cup {c[i + 1]})
    BY <1>2, <2>2, <2>3, HoldsMore
  <2>5. Holds({}, c, Len(c), L \cup {z})
    BY <2>2, <2>4 DEF z, n
  <2>6. L \cup {z} = {} \cup E
    BY <1>2, <2>5, HoldsAll DEF E
  <2> QED BY <2>1, <2>6
<1> DEFINE tbl == Part(h, T, L)
<1>15. a \in Seq(Word) /\ b \in Seq(Word) /\ Nil \in Word
  <2>1. Nil \in Word
    BY DEF Word
  <2>2. b \in Seq(Word)
    BY <2>1, FewWords
  <2>3. a \in Seq(Word)
    BY <1>2, <1>7
  <2> QED BY <2>1, <2>2, <2>3
<1>16. Reading(Reading(st, a), b) = ReadWord(Reading(st, a), Nil)
  BY <1>11, <1>15, ReadingFew
<1>17. LinkedTo(tbl, z, Nil) = Part(h, E, E)
  <2>1. LinkedTo(tbl, z, h.next[z]) = Part(h, T, L \cup {z})
    BY <1>13, PartLinked
  <2> HIDE DEF z, E, tbl
  <2> QED BY <1>13, <1>14, <2>1
<1> HIDE DEF a, b, z, E, tbl
<1>18. ReadWord(State("free link", z, "first", tbl), Nil) = State("list", Nil, "first", Part(h, E, E))
  BY <1>17, FreeEnds
<1>19. Reading(st, a \o b) = State("list", Nil, "first", Part(h, E, E))
  <2>1. Reading(st, a \o b) = Reading(Reading(st, a), b)
    BY <1>5, <1>15, ReadingOn
  <2>2. Reading(st, a) = State("free link", z, "first", tbl)
    BY <1>12 DEF tbl
  <2> QED BY <1>16, <1>18, <2>1, <2>2
<1>20. a \o b \in Seq(Word)
  BY <1>15, ConcatProperties
<1>21. FreeWords(h) = a \o b
  BY <1>4, <1>7 DEF a, b
<1> QED BY <1>5, <1>19, <1>20, <1>21 DEF st, E

-----------------------------------------------------------------------------
(* The whole table.                                                        *)

\* Every member of a set has its place in the order.
LEMMA AscendingAll ==
  ASSUME NEW S, S \subseteq Sectors, NEW s \in S
  PROVE  \E k \in 1 .. Cardinality(S) : Ascending(S)[k] = s
<1> DEFINE n == Cardinality(S)
           Below(u) == {t \in S : t < u}
           k == Cardinality(Below(s)) + 1
<1>1. IsFiniteSet(S) /\ n \in Nat /\ S \subseteq Nat
  BY SetOfSectors, SectsIs
<1>2. ASSUME NEW u \in S
      PROVE  IsFiniteSet(Below(u)) /\ Cardinality(Below(u)) \in Nat
  <2>1. Below(u) \in SUBSET S
    OBVIOUS
  <2> HIDE DEF Below
  <2> QED BY <1>1, <2>1, FS_Subset, FS_CardinalityType
<1>3. ASSUME NEW u \in S, NEW v \in S, u < v
      PROVE  Cardinality(Below(u)) < Cardinality(Below(v))
  <2>1. Below(u) \in SUBSET Below(v)
    <3> SUFFICES ASSUME NEW t \in S, t < u PROVE t < v
      OBVIOUS
    <3>1. t \in Nat /\ u \in Nat /\ v \in Nat
      BY <1>1
    <3> QED BY <1>3, <3>1
  <2>2. u \in Below(v) /\ u \notin Below(u)
    BY <1>1, <1>3
  <2> HIDE DEF Below
  <2>3. Cardinality(Below(u)) <= Cardinality(Below(v)) /\ Cardinality(Below(u)) # Cardinality(Below(v))
    BY <1>2, <2>1, <2>2, FS_Subset
  <2> QED BY <1>2, <2>3
<1>4. k \in 1 .. n
  <2>1. Below(s) \in SUBSET S /\ s \notin Below(s)
    BY <1>1
  <2> HIDE DEF Below
  <2>2. Cardinality(Below(s)) <= n /\ Cardinality(Below(s)) # n
    BY <1>1, <2>1, FS_Subset
  <2>3. Cardinality(Below(s)) \in Nat
    BY <1>2
  <2> QED BY <1>1, <2>2, <2>3
<1>5. Ascending(S)[k] = CHOOSE u \in S : Cardinality(Below(u)) = k - 1
  <2>1. Ascending(S) = [j \in 1 .. n |-> CHOOSE u \in S : Cardinality(Below(u)) = j - 1]
    BY DEF Ascending
  <2> HIDE DEF Below, k
  <2> QED BY <1>4, <2>1
<1>6. k - 1 = Cardinality(Below(s))
  <2> DEFINE j == Cardinality(Below(s))
  <2>1. j \in Nat
    BY <1>2
  <2> HIDE DEF j
  <2>2. (j + 1) - 1 = j
    BY <2>1
  <2> QED BY <2>2 DEF j
<1> HIDE DEF k
<1>7. ASSUME NEW u \in S, Cardinality(Below(u)) = k - 1
      PROVE  u = s
  <2>1. u \in Nat /\ s \in Nat
    BY <1>1
  <2>2. ~(u < s) /\ ~(s < u)
    <3> HIDE DEF Below
    <3> QED BY <1>2, <1>3, <1>6, <1>7
  <2> QED BY <2>1, <2>2
<1>8. (CHOOSE u \in S : Cardinality(Below(u)) = k - 1) = s
  <2> HIDE DEF Below
  <2> QED BY <1>6, <1>7
<1> QED BY <1>4, <1>5, <1>8

\* Away from control chain c, which is linked last, a list goes on with
\* sectors that are not the first of one, until it ends or is at one of O.
Woven(h, c, O) ==
  \A s \in Sectors \ ToSet(c) : h.type[s] \in {"first", "cont"} =>
    \/ h.next[s] = Nil
    \/ h.next[s] \in Sectors \ ToSet(c) /\ h.type[h.next[s]] = "cont"
    \/ h.next[s] \in O

LEMMA ListTyped ==
  ASSUME NEW h \in Header, Woven(h, <<>>, {}), NEW c, Listed(h.next, c), h.type[c[1]] = "first"
  PROVE  Typed(h, c)
<1> DEFINE n == Len(c)
           S == {k \in 0 .. n - 1 : h.type[c[k + 1]] \in {"first", "cont"} /\ (k # 0 => h.type[c[k + 1]] = "cont")}
<1>1. c \in Seq(Sectors) /\ n \in Nat /\ n - 1 \in Nat
  BY DEF Listed
<1>2. 0 \in S
  BY <1>1
<1>3. ASSUME NEW k \in S, k \in 0 .. (n - 1) - 1
      PROVE  k + 1 \in S
  <2>1. k + 1 \in 1 .. n - 1 /\ k + 1 \in 0 .. n - 1 /\ k + 1 # 0 /\ k + 1 \in 1 .. n /\ (k + 1) + 1 \in 1 .. n
    BY <1>1, <1>3
  <2> DEFINE x == c[k + 1]
             y == c[(k + 1) + 1]
  <2>2. x \in Sectors /\ y \in Sectors /\ h.next[x] = y /\ Nil \notin Sectors
    BY <1>1, <2>1, SectsIs DEF Listed
  <2>3. h.type[x] \in {"first", "cont"}
    BY <1>3
  <2>4. h.type[y] = "cont"
    BY <2>2, <2>3 DEF Woven, ToSet
  <2> QED BY <2>1, <2>4
<1>4. 0 .. n - 1 \subseteq S
  <2> HIDE DEF S
  <2> QED BY <1>1, <1>2, <1>3, UptoSets
<1>5. ASSUME NEW k \in 2 .. n
      PROVE  h.type[c[k]] = "cont"
  <2>1. k - 1 \in 0 .. n - 1 /\ k - 1 # 0 /\ (k - 1) + 1 = k
    BY <1>1
  <2>2. k - 1 \in S
    BY <1>4, <2>1
  <2>3. h.type[c[(k - 1) + 1]] = "cont"
    BY <2>1, <2>2
  <2> QED BY <2>1, <2>3
<1> QED BY <1>5 DEF Typed

\* What D holds of h: lists as a whole.
Lists(h, D) == /\ D \subseteq Sectors
               /\ \A s \in D : h.type[s] # "unused" /\ (h.next[s] = Nil \/ h.next[s] \in D)

LEMMA ListAdded ==
  ASSUME NEW h \in Header, NEW D, Lists(h, D), NEW c, Listed(h.next, c),
         \A k \in 1 .. Len(c) : h.type[c[k]] # "unused"
  PROVE  Lists(h, D \cup ToSet(c))
<1>1. c \in Seq(Sectors) /\ Len(c) \in Nat /\ Len(c) >= 1 /\ ToSet(c) = {c[k] : k \in 1 .. Len(c)}
  BY DEF Listed, ToSet
<1>2. ASSUME NEW k \in 1 .. Len(c)
      PROVE  c[k] \in Sectors /\ (h.next[c[k]] = Nil \/ h.next[c[k]] \in ToSet(c))
  <2>1. CASE k = Len(c)
    BY <1>1, <2>1 DEF Listed
  <2>2. CASE k # Len(c)
    <3>1. k \in 1 .. Len(c) - 1 /\ k + 1 \in 1 .. Len(c)
      BY <1>1, <2>2
    <3>2. h.next[c[k]] = c[k + 1]
      BY <3>1 DEF Listed
    <3>3. c[k + 1] \in ToSet(c)
      BY <1>1, <3>1
    <3> QED BY <1>1, <3>2, <3>3
  <2> QED BY <2>1, <2>2
<1> DEFINE C == ToSet(c)
<1>3. ASSUME NEW s \in C
      PROVE  s \in Sectors /\ h.type[s] # "unused" /\ (h.next[s] = Nil \/ h.next[s] \in C)
  <2>1. PICK k \in 1 .. Len(c) : s = c[k]
    BY <1>1
  <2> QED BY <1>2, <2>1
<1> HIDE DEF C
<1>4. Lists(h, D \cup C)
  BY <1>3 DEF Lists
<1> QED BY <1>4 DEF C

\* What a header is read back as.
Regained(h, D) == /\ Decoded(h.free, Encoded(h)) = Part(h, D, D)
                  /\ Lists(h, D) /\ FreeSectors(h) \subseteq D /\ Firsts(h) \subseteq D

\* parse_ctrl_header reads back what build_ctrl_header writes: every sector of the
\* lists of a header gets the type and the link it had, the free list among
\* them, and no other sector is touched. The lists may have any number of
\* sectors, in one run or in as many as there are, as long as the free list
\* ascends, every list ends, and a list goes on only with sectors of its own.
THEOREM TableRegained ==
  ASSUME NEW h \in Header, Ascends(h), Encodable(h), Woven(h, <<>>, {})
  PROVE  \E D : Regained(h, D)
<1> DEFINE fl == ListFrom(h.next, h.free)
           A == ToSet(fl)
           firsts == Ascending(Firsts(h))
           n == Cardinality(Firsts(h))
           p == [i \in DOMAIN firsts |-> ListWords(h, firsts[i])]
           st == State("list", Nil, "first", Part(h, A, A))
<1>1. h.free \in Sectors /\ h.free # Nil /\ Ends(h.next, h.free) /\ Nil \notin Sectors
  BY HeaderIs, SectsIs DEF Encodable
<1>2. Listed(h.next, fl) /\ A = FreeSectors(h)
  BY <1>1, HeaderIs, ListFromIs, AscendsThen
<1>3. \A k \in 1 .. Len(fl) : fl[k] \in A
  BY <1>2 DEF Listed, ToSet
<1>4. AllFree(h, fl)
  BY <1>2, <1>3 DEF AllFree, FreeSectors
<1>5. /\ FreeWords(h) \in Seq(Word) /\ State("free end", h.free, "first", Part(h, {}, {})) \in Reader
      /\ Reading(State("free end", h.free, "first", Part(h, {}, {})), FreeWords(h)) = st
  <2> HIDE DEF fl
  <2>1. fl = ListFrom(h.next, h.free)
    BY DEF fl
  <2> QED BY <1>1, <1>4, <2>1, FreeReadBack
<1>6. Lists(h, A)
  <2>1. Lists(h, {})
    BY DEF Lists
  <2>2. \A k \in 1 .. Len(fl) : h.type[fl[k]] # "unused"
    BY <1>4 DEF AllFree
  <2> HIDE DEF fl
  <2>3. Lists(h, {} \cup ToSet(fl))
    BY <1>2, <2>1, <2>2, ListAdded
  <2> QED BY <2>3
<1>7. Firsts(h) \subseteq Sectors /\ n \in Nat /\ DOMAIN firsts = 1 .. n
  <2>1. Firsts(h) \subseteq Sectors
    BY DEF Firsts
  <2>2. DOMAIN firsts = 1 .. n
    BY DEF Ascending
  <2> QED BY <2>1, <2>2, SetOfSectors
<1>8. ASSUME NEW i \in 1 .. n
      PROVE  firsts[i] \in Sectors /\ h.type[firsts[i]] = "first" /\ Ends(h.next, firsts[i])
  <2>1. firsts[i] \in Firsts(h)
    BY <1>7, AscendingIn
  <2> QED BY <2>1 DEF Firsts, Encodable
<1> HIDE DEF firsts, n, A, st, fl
<1>9. ASSUME NEW i \in 1 .. n, NEW D, Lists(h, D), NEW t \in {"first", "cont"}
      PROVE  /\ ListWords(h, firsts[i]) \in Seq(Word)
             /\ \E E : /\ Reading(State("list", Nil, t, Part(h, D, D)), ListWords(h, firsts[i]))
                            = State("list", Nil, "cont", Part(h, E, E))
                       /\ Lists(h, E) /\ D \subseteq E /\ firsts[i] \in E
  <2> DEFINE s == firsts[i]
             c == ListFrom(h.next, s)
             E == D \cup ToSet(c)
  <2>1. s \in Sectors /\ h.type[s] = "first" /\ Ends(h.next, s)
    BY <1>8
  <2> HIDE DEF s
  <2>2. Listed(h.next, c) /\ c[1] = s
    BY <2>1, HeaderIs, ListFromIs
  <2>3. Typed(h, c)
    <3> HIDE DEF c
    <3> QED BY <2>1, <2>2, ListTyped
  <2>4. /\ ListWords(h, s) \in Seq(Word)
        /\ Reading(State("list", Nil, t, Part(h, D, D)), ListWords(h, s)) = State("list", Nil, "cont", Part(h, E, E))
    <3>1. D \subseteq Sectors /\ c = ListFrom(h.next, s)
      BY <1>9 DEF Lists
    <3> HIDE DEF c
    <3> QED BY <2>1, <2>3, <3>1, ListReadBack
  <2>5. Lists(h, E)
    <3>1. ASSUME NEW k \in 1 .. Len(c)
          PROVE  h.type[c[k]] # "unused"
      <4> HIDE DEF c
      <4>1. k = 1 \/ k \in 2 .. Len(c)
        BY <2>2 DEF Listed
      <4> QED BY <2>3, <4>1 DEF Typed
    <3> HIDE DEF c
    <3> QED BY <1>9, <2>2, <3>1, ListAdded
  <2>6. s \in ToSet(c)
    <3> HIDE DEF c
    <3>1. 1 \in DOMAIN c
      BY <2>2 DEF Listed
    <3> QED BY <2>2, <3>1 DEF ToSet
  <2> HIDE DEF c
  <2> QED BY <2>4, <2>5, <2>6 DEF s
<1>10. p \in [1 .. n -> Seq(Word)] /\ \A i \in 1 .. n : p[i] = ListWords(h, firsts[i])
  <2>1. \A i \in 1 .. n : ListWords(h, firsts[i]) \in Seq(Word)
    BY <1>6, <1>9
  <2> QED BY <1>7, <2>1
<1>11. st \in Reader
  <2>1. Reading(State("free end", h.free, "first", Part(h, {}, {})), FreeWords(h)) \in Reader
    BY <1>5, ReadingOn, FewWords
  <2> QED BY <1>5, <2>1
<1> HIDE DEF p
<1>12. PICK f \in [0 .. n -> Seq(Word)] :
        /\ FlattenSeq(p) = f[n] /\ Reading(st, f[0]) = st
        /\ \A k \in 0 .. n : Reading(st, f[k]) \in Reader
        /\ \A k \in 1 .. n : Reading(st, f[k]) = Reading(Reading(st, f[k - 1]), p[k])
  BY <1>7, <1>10, <1>11, PiecesRead
<1> DEFINE At(k, D, t) == /\ Reading(st, f[k]) = State("list", Nil, t, Part(h, D, D)) /\ Lists(h, D)
                          /\ t \in {"first", "cont"} /\ A \subseteq D
                          /\ \A i \in 1 .. k : firsts[i] \in D
           S == {k \in 0 .. n : \E D, t : At(k, D, t)}
<1>13. 0 .. n \subseteq S
  <2>1. 0 \in S
    <3>1. At(0, A, "first")
      BY <1>6, <1>12 DEF st
    <3> HIDE DEF At
    <3> QED BY <1>7, <3>1
  <2>2. ASSUME NEW k \in S, k \in 0 .. n - 1
        PROVE  k + 1 \in S
    <3>1. k + 1 \in 1 .. n /\ (k + 1) - 1 = k /\ k + 1 \in 0 .. n
          /\ \A i \in 1 .. k + 1 : i = k + 1 \/ i \in 1 .. k
      BY <1>7, <2>2
    <3>2. PICK D, t : At(k, D, t)
      OBVIOUS
    <3>3. PICK E : /\ Reading(State("list", Nil, t, Part(h, D, D)), ListWords(h, firsts[k + 1]))
                         = State("list", Nil, "cont", Part(h, E, E))
                   /\ Lists(h, E) /\ D \subseteq E /\ firsts[k + 1] \in E
      BY <1>9, <3>1, <3>2
    <3>4. Reading(st, f[k + 1]) = Reading(Reading(st, f[k]), ListWords(h, firsts[k + 1]))
      BY <1>10, <1>12, <3>1
    <3>5. At(k + 1, E, "cont")
      <4>1. Reading(st, f[k + 1]) = State("list", Nil, "cont", Part(h, E, E))
        BY <3>2, <3>3, <3>4
      <4>2. A \subseteq E /\ \A i \in 1 .. k + 1 : firsts[i] \in E
        BY <3>1, <3>2, <3>3
      <4> QED BY <3>3, <4>1, <4>2
    <3> HIDE DEF At
    <3> QED BY <3>1, <3>5
  <2> HIDE DEF S
  <2> QED BY <1>7, <2>1, <2>2, UptoSets
<1>14. PICK D, t : At(n, D, t)
  <2>1. n \in 0 .. n
    BY <1>7
  <2> HIDE DEF At
  <2> QED BY <1>13, <2>1
<1> DEFINE a == FreeWords(h)
           b == f[n]
           e == <<Nil>>
           start == State("free end", h.free, "first", Part(h, {}, {}))
<1>15. a \in Seq(Word) /\ b \in Seq(Word) /\ e \in Seq(Word) /\ Nil \in Word /\ start \in Reader
  <2>1. Nil \in Word
    BY DEF Word
  <2>2. e \in Seq(Word)
    BY <2>1, FewWords
  <2>3. b \in Seq(Word)
    BY <1>7, <1>12
  <2> QED BY <1>5, <2>1, <2>2, <2>3
<1>16. Encoded(h) = (a \o b) \o e
  <2>1. TableWords(h) = a \o b
    BY <1>12 DEF TableWords, p, firsts
  <2>2. a \o b \in Seq(Word)
    BY <1>15, ConcatProperties
  <2> HIDE DEF a, b
  <2>3. Append(a \o b, Nil) = (a \o b) \o <<Nil>>
    BY <1>15, <2>2, AppendIsConcat
  <2> QED BY <2>1, <2>3 DEF Encoded
<1>17. Decoded(h.free, Encoded(h)) = Reading(start, Encoded(h)).tbl
  BY DEF Decoded, State, Part
<1>18. Reading(start, a) = st
  BY <1>5
<1> HIDE DEF a, b, e, start
<1>19. Reading(start, (a \o b) \o e) = Reading(Reading(st, b), e)
  <2>1. a \o b \in Seq(Word)
    BY <1>15, ConcatProperties
  <2>2. Reading(start, (a \o b) \o e) = Reading(Reading(start, a \o b), e)
    BY <1>15, <2>1, ReadingOn
  <2>3. Reading(start, a \o b) = Reading(Reading(start, a), b)
    BY <1>15, ReadingOn
  <2> QED BY <1>18, <2>2, <2>3
<1> DEFINE tbl == Part(h, D, D)
<1>20. Reading(st, b) = State("list", Nil, t, tbl) /\ Reading(st, b) \in Reader
  <2>1. n \in 0 .. n
    BY <1>7
  <2> QED BY <1>12, <1>14, <2>1 DEF b
<1> HIDE DEF tbl
<1>21. Reading(Reading(st, b), e) = State("done", Nil, t, tbl)
  <2>1. Reading(Reading(st, b), e) = ReadWord(Reading(st, b), Nil)
    BY <1>15, <1>20, ReadingFew DEF e
  <2> QED BY <1>20, <2>1, ListsEnd
<1>22. Decoded(h.free, Encoded(h)) = tbl
  BY <1>16, <1>17, <1>19, <1>21 DEF State
<1>23. Firsts(h) \subseteq D
  <2> SUFFICES ASSUME NEW s \in Firsts(h) PROVE s \in D
    OBVIOUS
  <2>1. PICK k \in 1 .. n : firsts[k] = s
    BY <1>7, AscendingAll DEF n, firsts
  <2> QED BY <1>14, <2>1
<1>24. FreeSectors(h) \subseteq D /\ Lists(h, D)
  BY <1>2, <1>14
<1> QED BY <1>22, <1>23, <1>24 DEF Regained, tbl

-----------------------------------------------------------------------------
(* What the lists of a table that is read back are.                        *)

\* Two tables that have the same links in D, which no list leaves.
LEMMA WalksAlike ==
  ASSUME NEW g, NEW h, NEW D, D \subseteq Sectors,
         \A s \in D : g[s] = h[s] /\ (h[s] = Nil \/ h[s] \in D), NEW x \in D
  PROVE  Walk(g, x) = Walk(h, x)
<1> DEFINE to == Walk(g, x)
           go == Walk(h, x)
           N == NumSects
           S == {k \in 0 .. N : to[k] = go[k] /\ (to[k] = Nil \/ to[k] \in D)}
<1>1. N \in Nat /\ Nil \notin Sectors
  BY SectsIs
<1>2. Steps(to, g, x) /\ Steps(go, h, x)
  BY WalkIs
<1>3. to = [k \in 0 .. N |-> to[k]] /\ go = [k \in 0 .. N |-> go[k]]
  BY WalkIs
<1> HIDE DEF to, go
<1>4. 0 \in S
  BY <1>1, <1>2 DEF Steps
<1>5. ASSUME NEW k \in S, k \in 0 .. N - 1
      PROVE  k + 1 \in S
  <2>1. k + 1 \in 0 .. N /\ k + 1 \in 1 .. N /\ (k + 1) - 1 = k
    BY <1>1, <1>5
  <2>2. /\ to[k + 1] = IF to[k] \in Sectors THEN g[to[k]] ELSE to[k]
        /\ go[k + 1] = IF go[k] \in Sectors THEN h[go[k]] ELSE go[k]
    BY <1>2, <2>1 DEF Steps
  <2>3. CASE to[k] = Nil
    BY <1>1, <2>1, <2>2, <2>3
  <2>4. CASE to[k] \in D
    BY <1>1, <2>1, <2>2, <2>4
  <2> QED BY <2>3, <2>4
<1>6. 0 .. N \subseteq S
  <2> HIDE DEF S
  <2> QED BY <1>1, <1>4, <1>5, UptoSets
<1>7. \A k \in 0 .. N : to[k] = go[k]
  BY <1>6
<1> QED BY <1>3, <1>7 DEF to, go

\* The header on the phone, of what it was written as.
AsWritten(d, h) == /\ d.free = h.free /\ d.last = h.last /\ d.fctrl = h.fctrl /\ d.words = Encoded(h)

LEMMA ParsedIs ==
  ASSUME NEW d, NEW h \in Header, NEW D, Regained(h, D), AsWritten(d, h)
  PROVE  /\ Parsed(d) \in Header
         /\ Parsed(d).free = h.free /\ Parsed(d).fctrl = h.fctrl
         /\ \A s \in Sectors \ D : Parsed(d).type[s] = "unused"
         /\ \A s \in D : Parsed(d).type[s] = h.type[s] /\ Parsed(d).next[s] = h.next[s]
<1> DEFINE t == Part(h, D, D)
<1>1. Parsed(d) = [free |-> h.free, last |-> h.last, fctrl |-> h.fctrl, type |-> t.type, next |-> t.next]
  <2>1. Decoded(h.free, Encoded(h)) = t
    BY DEF Regained
  <2> HIDE DEF t
  <2>2. Decoded(d.free, d.words) = t
    BY <2>1 DEF AsWritten
  <2> QED BY <2>2 DEF Parsed, AsWritten
<1>2. /\ h.type \in [Sectors -> {"unused", "free", "first", "cont"}]
      /\ h.next \in [Sectors -> Sectors \cup {Nil}] /\ 0 \in Sectors /\ D \subseteq Sectors
  <2>1. D \subseteq Sectors
    BY DEF Regained, Lists
  <2>2. 0 \in Sectors
    BY SectsIs DEF Sectors
  <2> HIDE DEF t
  <2> QED BY <2>1, <2>2, HeaderIs
<1>3. t.type \in [Sectors -> {"unused", "free", "first", "cont"}]
  BY <1>2 DEF Part
<1>4. t.next \in [Sectors -> Sectors \cup {Nil}]
  BY <1>2 DEF Part
<1>5. /\ \A s \in Sectors \ D : t.type[s] = "unused"
      /\ \A s \in D : t.type[s] = h.type[s] /\ t.next[s] = h.next[s]
  BY <1>2 DEF Part
<1> HIDE DEF t
<1>6. Parsed(d) \in Header
  BY <1>1, <1>3, <1>4, HeaderIs DEF Header
<1> QED BY <1>1, <1>5, <1>6

\* It has the same free list and the same lists of files, in the same order.
LEMMA ListsRegained ==
  ASSUME NEW d, NEW h \in Header, Ascends(h), h.free # Nil, NEW D, Regained(h, D), AsWritten(d, h)
  PROVE  LET g == Parsed(d)
         IN /\ Walk(g.next, g.free) = Walk(h.next, h.free)
            /\ FreeSectors(g) = FreeSectors(h) /\ Firsts(g) = Firsts(h)
            /\ \A s \in Firsts(h) : Walk(g.next, s) = Walk(h.next, s)
<1> DEFINE g == Parsed(d)
<1>1. /\ g \in Header /\ g.free = h.free
      /\ \A s \in Sectors \ D : g.type[s] = "unused"
      /\ \A s \in D : g.type[s] = h.type[s] /\ g.next[s] = h.next[s]
  BY ParsedIs
<1> HIDE DEF g
<1>2. /\ D \subseteq Sectors /\ \A s \in D : h.next[s] = Nil \/ h.next[s] \in D
      /\ FreeSectors(h) \subseteq D /\ Firsts(h) \subseteq D
  BY DEF Regained, Lists
<1>3. h.free \in D
  <2>1. h.free \in FreeSectors(h)
    BY DEF Ascends, After
  <2> QED BY <1>2, <2>1
<1>4. \A s \in D : g.next[s] = h.next[s] /\ (h.next[s] = Nil \/ h.next[s] \in D)
  BY <1>1, <1>2
<1>5. \A s \in D : Walk(g.next, s) = Walk(h.next, s)
  BY <1>2, <1>4, WalksAlike
<1>6. FreeSectors(g) = FreeSectors(h) /\ Firsts(g) = Firsts(h)
  BY <1>1, <1>2 DEF FreeSectors, Firsts
<1> QED BY <1>1, <1>2, <1>3, <1>5, <1>6 DEF g

-----------------------------------------------------------------------------
(* The inductive invariant.                                                *)

\* In h, whose control chain is c, what is left of the control block is unused,
\* and the sectors of H are neither spare nor in the middle of a list.
Knit(h, c, H) ==
  /\ \A s \in Rest(h.fctrl, CtrlBlock(c, h.fctrl)) : h.type[s] = "unused"
  /\ \A s \in H : s \in Sectors /\ s \notin Spare(h, c) /\ h.type[s] # "cont"
Strung(h, c) == \A i \in DOMAIN c : h.type[c[i]] = IF i = 1 THEN "first" ELSE "cont"

\* A file has begun and has sectors to come.
Storing == pc = "file" /\ todo # <<>> /\ at.i > 0 /\ at.i < Head(todo).len
GoesOn == IF Storing THEN {hdr.free} ELSE {}
\* The first sectors that no entry names: of the old control chain, and of the
\* file that is being stored.
Begun == IF pc # "file" THEN {}
         ELSE {IF csc THEN disk.chain[1] ELSE 0} \cup (IF at.i > 0 THEN {at.frst} ELSE {})

DiskWoven ==
  disk # None => /\ disk.gen \in Nat /\ disk.gen <= gen
                 /\ Knit(Parsed(disk), disk.chain, FirstsOf(disk.files) \cup {disk.chain[1]})
                 /\ Woven(Parsed(disk), <<>>, {})

WeaveHeld ==
  /\ gen \in Nat /\ DiskWoven
  /\ Working => /\ disk # None => disk.gen < gen
                /\ Knit(hdr, chain, FirstsOf(files) \cup Begun) /\ Strung(hdr, chain)
  /\ pc \in {"file", "place", "pop"} => Woven(hdr, chain, GoesOn)
  /\ pc = "flash" => Woven(hdr, <<>>, {}) /\ Encodable(hdr)

WeaveInv == (Plainly => WeaveHeld) /\ ReadBack

-----------------------------------------------------------------------------
(* What a change of the table leaves.                                      *)

\* Fewer sectors are spare, and no first sector has got into the middle.
LEMMA KnitThen ==
  ASSUME NEW g, NEW c, NEW H, Knit(g, c, H), NEW h, NEW d, NEW K, K \subseteq H,
         Spare(h, d) \subseteq Spare(g, c),
         \A s \in Rest(h.fctrl, CtrlBlock(d, h.fctrl)) : h.type[s] = "unused",
         \A s \in K : h.type[s] = "cont" => g.type[s] = "cont"
  PROVE  Knit(h, d, K)
  BY DEF Knit

\* The first free sector is taken off the list: the list that was open goes on
\* with it, or it is the first of a new one, or it becomes unused.
LEMMA WovenTakes ==
  ASSUME NEW g \in Header, NEW c, NEW O, O \subseteq {g.free}, Woven(g, c, O), g.free \in FreeSectors(g),
         g.free \notin ToSet(c),
         NEW ty \in {"unused", "first", "cont"}, NEW to \in Sectors \cup {Nil}, NEW h,
         h.free = g.next[g.free], h.type = [g.type EXCEPT ![g.free] = ty],
         h.next = [g.next EXCEPT ![g.free] = to],
         O # {} => ty = "cont", NEW P, ty = "unused" \/ to = Nil \/ to \in P
  PROVE  Woven(h, c, P)
<1> DEFINE x == g.free
<1>1. x \in Sectors /\ x \notin ToSet(c) /\ g.type[x] = "free"
  BY DEF FreeSectors
<1>2. /\ g.type \in [Sectors -> {"unused", "free", "first", "cont"}]
      /\ g.next \in [Sectors -> Sectors \cup {Nil}]
  BY HeaderIs
<1>3. /\ \A s \in Sectors : h.type[s] = IF s = x THEN ty ELSE g.type[s]
      /\ \A s \in Sectors : h.next[s] = IF s = x THEN to ELSE g.next[s]
  BY <1>2
<1> HIDE DEF x
<1> SUFFICES ASSUME NEW s \in Sectors \ ToSet(c), h.type[s] \in {"first", "cont"}
             PROVE  \/ h.next[s] = Nil
                    \/ h.next[s] \in Sectors \ ToSet(c) /\ h.type[h.next[s]] = "cont"
                    \/ h.next[s] \in P
  BY DEF Woven
<1>4. CASE s = x
  <2>1. h.next[s] = to /\ h.type[s] = ty
    BY <1>3, <1>4
  <2> QED BY <2>1
<1>5. CASE s # x
  <2>1. h.next[s] = g.next[s] /\ g.type[s] \in {"first", "cont"}
    BY <1>3, <1>5
  <2>2. \/ g.next[s] = Nil
        \/ g.next[s] \in Sectors \ ToSet(c) /\ g.type[g.next[s]] = "cont"
        \/ g.next[s] \in O /\ g.next[s] = x
    BY <2>1 DEF Woven, x
  <2>3. CASE g.next[s] \in Sectors \ ToSet(c) /\ g.type[g.next[s]] = "cont"
    BY <1>1, <1>3, <2>1, <2>3
  <2>4. CASE g.next[s] \in O /\ g.next[s] = x
    BY <1>1, <1>3, <2>1, <2>4
  <2> QED BY <2>1, <2>2, <2>3, <2>4
<1> QED BY <1>4, <1>5

\* A sector that is not in the middle of a list becomes unused.
LEMMA WovenUnused ==
  ASSUME NEW g \in Header, NEW c, Woven(g, c, {}), NEW x \in Sectors, g.type[x] # "cont",
         NEW h, h.type = [g.type EXCEPT ![x] = "unused"], h.next = g.next
  PROVE  Woven(h, c, {})
<1>1. \A s \in Sectors : h.type[s] = IF s = x THEN "unused" ELSE g.type[s]
  BY HeaderIs
<1> QED BY <1>1 DEF Woven

\* A sector that was not in use goes to the chain.
LEMMA WovenPlaces ==
  ASSUME NEW g \in Header, NEW c \in Seq(Sectors), Woven(g, c, {}),
         NEW x \in Sectors, g.type[x] = "unused", NEW ty,
         NEW h, h.type = [g.type EXCEPT ![x] = ty], h.next = g.next
  PROVE  Woven(h, Append(c, x), {})
<1>1. \A s \in Sectors : h.type[s] = IF s = x THEN ty ELSE g.type[s]
  BY HeaderIs
<1>2. ToSet(Append(c, x)) = ToSet(c) \cup {x}
  <2>1. /\ Len(c) \in Nat /\ Len(Append(c, x)) = Len(c) + 1 /\ DOMAIN c = 1 .. Len(c)
        /\ DOMAIN Append(c, x) = 1 .. Len(c) + 1
        /\ \A i \in 1 .. Len(c) : Append(c, x)[i] = c[i]
        /\ Append(c, x)[Len(c) + 1] = x
    OBVIOUS
  <2> DEFINE d == Append(c, x)
  <2> HIDE DEF d
  <2> QED BY <2>1 DEF ToSet, d
<1> DEFINE C == ToSet(c)
<1>3. \A s \in Sectors \ C : g.type[s] \in {"first", "cont"} =>
        \/ g.next[s] = Nil
        \/ g.next[s] \in Sectors \ C /\ g.type[g.next[s]] = "cont"
  BY DEF Woven
<1> HIDE DEF C
<1>4. ToSet(Append(c, x)) = C \cup {x}
  BY <1>2 DEF C
<1> QED BY <1>1, <1>3, <1>4 DEF Woven

\* Only sectors that were free are changed, and stay free or become unused.
LEMMA WovenApart ==
  ASSUME NEW g \in Header, NEW h \in Header, NEW c, Woven(g, c, {}), Apart(g, h)
  PROVE  Woven(h, c, {})
<1> SUFFICES ASSUME NEW s \in Sectors \ ToSet(c), h.type[s] \in {"first", "cont"}
             PROVE  \/ h.next[s] = Nil
                    \/ h.next[s] \in Sectors \ ToSet(c) /\ h.type[h.next[s]] = "cont"
  BY DEF Woven
<1>1. h.type[s] = g.type[s] /\ h.next[s] = g.next[s]
  BY DEF Apart
<1>2. \/ g.next[s] = Nil
      \/ g.next[s] \in Sectors \ ToSet(c) /\ g.type[g.next[s]] = "cont"
  BY <1>1 DEF Woven
<1>3. ASSUME g.next[s] \in Sectors, g.type[g.next[s]] = "cont"
      PROVE  h.type[g.next[s]] = "cont"
  BY <1>3 DEF Apart, FreeSectors
<1> QED BY <1>1, <1>2, <1>3

\* The chain is linked.
LEMMA WovenSealed ==
  ASSUME NEW g \in Header, NEW c \in Seq(Sectors), OneByOne(c), Strung(g, c), Woven(g, c, {}),
         NEW h, h.type = g.type,
         \A s \in Sectors \ ToSet(c) : h.next[s] = g.next[s],
         \A i \in DOMAIN c : h.next[c[i]] = IF i = Len(c) THEN Nil ELSE c[i + 1]
  PROVE  Woven(h, <<>>, {})
<1>1. ToSet(<<>>) = {}
  BY DEF ToSet
<1> SUFFICES ASSUME NEW s \in Sectors, h.type[s] \in {"first", "cont"}
             PROVE  h.next[s] = Nil \/ (h.next[s] \in Sectors /\ h.type[h.next[s]] = "cont")
  BY <1>1 DEF Woven
<1>2. CASE s \notin ToSet(c)
  BY <1>2 DEF Woven
<1>3. CASE s \in ToSet(c)
  <2>1. PICK i \in DOMAIN c : c[i] = s
    BY <1>3 DEF ToSet
  <2>2. DOMAIN c = 1 .. Len(c) /\ Len(c) \in Nat
    OBVIOUS
  <2>3. CASE i = Len(c)
    BY <2>1, <2>3
  <2>4. CASE i # Len(c)
    <3>1. i + 1 \in DOMAIN c /\ i + 1 # 1
      BY <2>1, <2>2, <2>4
    <3>2. h.next[s] = c[i + 1] /\ c[i + 1] \in Sectors /\ g.type[c[i + 1]] = "cont"
      BY <2>1, <2>4, <3>1 DEF Strung
    <3> QED BY <3>2
  <2> QED BY <2>3, <2>4
<1> QED BY <1>2, <1>3

-----------------------------------------------------------------------------
(* Each action keeps the lists apart.                                      *)

LEMMA DiskWovenStays ==
  ASSUME DiskWoven, gen \in Nat, disk' \in {disk, None}, gen' \in {gen, gen + 1}
  PROVE  DiskWoven' /\ gen' \in Nat
<1>1. gen' \in Nat
  OBVIOUS
<1>2. CASE disk' = None
  BY <1>1, <1>2 DEF DiskWoven
<1>3. CASE disk' = disk
  <2> SUFFICES ASSUME disk # None
               PROVE  /\ disk.gen \in Nat /\ disk.gen <= gen'
                      /\ Knit(Parsed(disk), disk.chain, FirstsOf(disk.files) \cup {disk.chain[1]})
                      /\ Woven(Parsed(disk), <<>>, {})
    BY <1>1, <1>3 DEF DiskWoven
  <2>1. disk.gen \in Nat /\ disk.gen <= gen
    BY DEF DiskWoven
  <2>2. disk.gen <= gen'
    BY <2>1
  <2> QED BY <2>1, <2>2 DEF DiskWoven
<1> QED BY <1>1, <1>2, <1>3

\* A step within a flash.
LEMMA WeaveStays ==
  ASSUME WeaveHeld, Working, Working', gen' = gen, disk' \in {disk, None},
         Knit(hdr', chain', FirstsOf(files') \cup Begun'), Strung(hdr', chain'),
         pc' \in {"file", "place", "pop"} => Woven(hdr', chain', GoesOn'),
         pc' = "flash" => Woven(hdr', <<>>, {}) /\ Encodable(hdr')
  PROVE  WeaveHeld'
<1>1. DiskWoven' /\ gen' \in Nat
  BY DiskWovenStays DEF WeaveHeld
<1>2. disk' # None => disk'.gen < gen'
  BY DEF WeaveHeld
<1> QED BY <1>1, <1>2 DEF WeaveHeld

\* A step that leaves the patch, for the file system there was.
LEMMA WeaveLeft ==
  ASSUME WeaveHeld, pc' \in {"idle", "lost"}, gen' = gen, disk' \in {disk, None}
  PROVE  WeaveHeld'
<1>1. DiskWoven' /\ gen' \in Nat
  BY DiskWovenStays DEF WeaveHeld
<1> QED BY <1>1 DEF WeaveHeld, Working

LEMMA WeaveBeginTfs ==
  ASSUME WeaveHeld, BeginTfs
  PROVE  WeaveHeld'
<1> DEFINE h == FreshHeader
<1>1. /\ hdr' = h /\ chain' = <<>> /\ files' = [f \in Files |-> None] /\ csc' = FALSE /\ pc' = "file"
      /\ at' = [i |-> 0, frst |-> h.free] /\ disk' = disk /\ gen' = gen + 1
  BY DEF BeginTfs, Enter, phoneVars
<1>2. DiskWoven' /\ gen' \in Nat /\ (disk' # None => disk'.gen < gen')
  <2>1. DiskWoven' /\ gen' \in Nat
    BY <1>1, DiskWovenStays DEF WeaveHeld
  <2>2. disk # None => disk.gen \in Nat /\ disk.gen <= gen
    BY DEF WeaveHeld, DiskWoven
  <2>3. disk # None => disk.gen < gen + 1
    BY <2>2 DEF WeaveHeld
  <2> QED BY <1>1, <2>1, <2>3
<1>3. FirstsOf(files') = {} /\ Begun' = {0}
  <2>1. Begun' = {0}
    BY <1>1 DEF Begun
  <2> QED BY <1>1, <2>1 DEF FirstsOf
<1>4. /\ \A s \in Sectors : h.type[s] \in {"free", "unused"}
      /\ h.fctrl = BlockSize /\ BlockSize \in Nat /\ BlockSize > 0 /\ 0 \in Sectors
  <2>1. h.type = [s \in Sectors |-> IF s >= FirstOf(2) THEN "free" ELSE "unused"]
    BY DEF FreshHeader
  <2>2. h.fctrl = FirstOf(1) /\ FirstOf(1) = BlockSize /\ BlockSize \in Nat /\ BlockSize > 0
    BY BlockSizeIs DEF FirstOf, FreshHeader
  <2>3. 0 \in Sectors
    BY SectsIs DEF Sectors
  <2> HIDE DEF h
  <2> QED BY <2>1, <2>2, <2>3
<1>5. CtrlBlock(<<>>, h.fctrl) = BlockOf(h.fctrl)
  BY DEF CtrlBlock
<1>6. FreeSectors(h) \cap Rest(h.fctrl, BlockOf(h.fctrl)) = {} /\ 0 \notin FreeSectors(h)
  BY FreshIs
<1> HIDE DEF h
<1>7. \A s \in Rest(h.fctrl, BlockOf(h.fctrl)) : h.type[s] = "unused"
  BY <1>4, <1>6 DEF Rest, FreeSectors
<1>8. 0 \notin Spare(h, <<>>)
  BY <1>4, <1>5, <1>6 DEF Spare, Rest
<1>9. Knit(h, <<>>, {0})
  BY <1>4, <1>5, <1>7, <1>8 DEF Knit
<1>10. Woven(h, <<>>, GoesOn')
  BY <1>4 DEF Woven
<1>11. Strung(h, <<>>)
  BY DEF Strung
<1> QED BY <1>1, <1>2, <1>3, <1>9, <1>10, <1>11 DEF WeaveHeld, Working

LEMMA WeaveBeginCsc ==
  ASSUME ListHeld, WeaveHeld, Plainly', BeginCsc
  PROVE  WeaveHeld'
<1> DEFINE h == Parsed(disk)
           c == disk.chain
           H == FirstsOf(disk.files) \cup {disk.chain[1]}
<1>1. /\ hdr' = h /\ chain' = <<>> /\ files' = disk.files /\ csc' = TRUE /\ pc' = "file"
      /\ at' = [i |-> 0, frst |-> h.free] /\ disk' = disk /\ disk # None /\ gen' = gen + 1
      /\ InOrder(disk)
  BY DEF BeginCsc, Enter, phoneVars, Wreck, Taken, Plainly
<1>2. DiskWoven' /\ gen' \in Nat /\ (disk' # None => disk'.gen < gen')
  <2>1. DiskWoven' /\ gen' \in Nat
    BY <1>1, DiskWovenStays DEF WeaveHeld
  <2>2. disk # None => disk.gen \in Nat /\ disk.gen <= gen
    BY DEF WeaveHeld, DiskWoven
  <2>3. disk # None => disk.gen < gen + 1
    BY <2>2 DEF WeaveHeld
  <2> QED BY <1>1, <2>1, <2>3
<1>3. FirstsOf(files') \cup Begun' = H
  <2>1. Begun' = {disk.chain[1]}
    BY <1>1 DEF Begun
  <2> QED BY <1>1, <2>1
<1>4. Knit(h, c, H) /\ Woven(h, <<>>, {})
  BY <1>1 DEF WeaveHeld, DiskWoven
<1>5. CtrlBlock(<<>>, h.fctrl) = CtrlBlock(c, h.fctrl)
  <2>1. disk.fctrl = h.fctrl
    BY DEF Parsed
  <2> QED BY <1>1, <2>1, SameBlock DEF ListHeld
<1> HIDE DEF h, c, H
<1>6. Knit(h, <<>>, H)
  BY <1>4, <1>5 DEF Knit, Spare
<1>7. Woven(h, <<>>, GoesOn')
  BY <1>4 DEF Woven
<1>8. Strung(h, <<>>)
  BY DEF Strung
<1> QED BY <1>1, <1>2, <1>3, <1>6, <1>7, <1>8 DEF WeaveHeld, Working

LEMMA WeaveStore ==
  ASSUME ListHeld, WeaveHeld, Plainly', Store
  PROVE  WeaveHeld'
<1> DEFINE x == hdr.free
           ty == IF at.i = 0 THEN "first" ELSE "cont"
           to == IF at.i = Head(todo).len - 1 THEN Nil ELSE hdr.next[x]
           H == FirstsOf(files) \cup Begun
           R == Rest(hdr.fctrl, CtrlBlock(chain, hdr.fctrl))
<1>1. /\ pc = "file" /\ pc' = "file" /\ hdr.free # Nil /\ todo # <<>> /\ at.i < Head(todo).len
      /\ hdr' = [hdr EXCEPT !.type[x] = ty, !.next[x] = to, !.free = hdr.next[x]]
      /\ at' = [at EXCEPT !.i = @ + 1] /\ chain' = chain /\ files' = files /\ csc' = csc
      /\ todo' = todo /\ disk' = disk /\ gen' = gen
  <2>1. hdr.free # Nil
    BY ListStore, SectsIs
  <2>2. /\ pc = "file" /\ pc' = "file" /\ hdr.free # Nil
        /\ hdr' = [hdr EXCEPT !.type[x] = ty, !.next[x] = to, !.free = hdr.next[x]]
        /\ at' = [at EXCEPT !.i = @ + 1] /\ chain' = chain /\ files' = files /\ csc' = csc
        /\ todo' = todo /\ disk' = disk
    BY <2>1 DEF Store, phoneVars, InFile
  <2>3. todo # <<>> /\ at.i < Head(todo).len /\ gen' = gen
    BY DEF Store, InFile
  <2> QED BY <2>2, <2>3
<1>2. /\ Sound(hdr, chain, files) /\ AtFile /\ Knit(hdr, chain, H) /\ Strung(hdr, chain)
      /\ Woven(hdr, chain, GoesOn) /\ chain = <<>>
  BY <1>1 DEF ListHeld, WeaveHeld, Working, AtFile
<1>3. hdr \in Header /\ Ascends(hdr) /\ FreeSectors(hdr) \cap R = {}
  BY <1>2 DEF Sound
<1>4. x \in FreeSectors(hdr) /\ x \in Sectors
  BY <1>1, <1>3, HeaderIs DEF Ascends, After
<1>5. /\ hdr' = [free |-> hdr.next[x], last |-> hdr.last, fctrl |-> hdr.fctrl,
                 type |-> [hdr.type EXCEPT ![x] = ty], next |-> [hdr.next EXCEPT ![x] = to]]
  <2>1. hdr = [free |-> hdr.free, last |-> hdr.last, fctrl |-> hdr.fctrl,
               type |-> hdr.type, next |-> hdr.next]
    BY <1>3, HeaderIs
  <2> HIDE DEF ty, to, x
  <2> QED BY <1>1, <2>1
<1>6. /\ to \in Sectors \cup {Nil} /\ ty \in {"unused", "first", "cont"} /\ ToSet(chain) = {}
  BY <1>2, <1>3, <1>4, HeaderIs DEF ToSet
<1>7. at.i \in Nat /\ at'.i = at.i + 1 /\ at'.frst = at.frst /\ Head(todo).len \in Nat
      /\ (at.i = 0 => at.frst = x)
  <2>1. \A T : todo \in Seq(T) /\ todo # <<>> => Head(todo) \in T
    OBVIOUS
  <2>2. Head(todo) \in [file : Files, len : Nat]
    BY <1>1, <1>2, <2>1 DEF AtFile
  <2> QED BY <1>1, <1>2, <2>2 DEF AtFile
<1>8. GoesOn \subseteq {x} /\ (GoesOn # {} => ty = "cont")
  BY <1>7 DEF GoesOn, Storing
<1>9. to = Nil \/ to \in GoesOn'
  <2> SUFFICES ASSUME at.i # Head(todo).len - 1
               PROVE  to \in GoesOn'
    OBVIOUS
  <2>1. at'.i > 0 /\ at'.i < Head(todo).len
    BY <1>1, <1>7
  <2>2. to = hdr'.free
    BY <1>5
  <2> QED BY <1>1, <2>1, <2>2 DEF GoesOn, Storing
<1>10. Woven(hdr', chain, GoesOn')
  <2> DEFINE h == hdr'
             P == GoesOn'
  <2>1. /\ h.free = hdr.next[hdr.free] /\ h.type = [hdr.type EXCEPT ![hdr.free] = ty]
        /\ h.next = [hdr.next EXCEPT ![hdr.free] = to]
    BY <1>5
  <2>2. to = Nil \/ to \in P
    BY <1>9
  <2> HIDE DEF h, P, ty, to
  <2>3. hdr.free \notin ToSet(chain) /\ hdr.free \in FreeSectors(hdr)
    BY <1>4, <1>6
  <2>4. Woven(h, chain, P)
    BY <1>2, <1>3, <1>6, <1>8, <2>1, <2>2, <2>3, WovenTakes
  <2> QED BY <2>4 DEF h, P
<1>11. \A s \in Sectors : s # x => hdr'.type[s] = hdr.type[s]
  BY <1>3, <1>4, <1>5, HeaderIs
<1>12. Spare(hdr', chain) = Spare(hdr, chain) \ {x}
  BY <1>1, ListStore
<1>13. Begun' \subseteq Begun \cup (IF at.i = 0 THEN {x} ELSE {})
  BY <1>1, <1>7 DEF Begun
<1>14. x \in Spare(hdr, chain)
  BY <1>4 DEF Spare
<1>15. hdr'.fctrl = hdr.fctrl /\ (at.i = 0 => hdr'.type[x] = "first")
  <2>1. hdr'.fctrl = hdr.fctrl /\ hdr'.type = [hdr.type EXCEPT ![x] = ty]
    BY <1>5
  <2>2. hdr'.type[x] = ty
    <3> HIDE DEF x, ty
    <3> QED BY <1>3, <1>4, <2>1, HeaderIs
  <2> QED BY <2>1, <2>2
<1> HIDE DEF x, ty, to, R
<1>16. \A s \in R : hdr'.type[s] = "unused"
  <2>1. \A s \in R : s \in Sectors /\ s # x /\ hdr.type[s] = "unused"
    BY <1>2, <1>3, <1>4 DEF R, Rest, Knit
  <2> QED BY <1>11, <2>1
<1>17. ASSUME NEW s \in FirstsOf(files) \cup Begun'
       PROVE  s \in Sectors /\ s \notin Spare(hdr', chain) /\ hdr'.type[s] # "cont"
  <2>1. CASE s \in H
    <3>1. s \in Sectors /\ s \notin Spare(hdr, chain) /\ hdr.type[s] # "cont"
      BY <1>2, <2>1 DEF Knit
    <3> QED BY <1>11, <1>12, <1>14, <3>1
  <2>2. CASE at.i = 0 /\ s = x
    BY <1>4, <1>12, <1>15, <2>2
  <2> QED BY <1>13, <1>17, <2>1, <2>2
<1>18. Knit(hdr', chain', FirstsOf(files') \cup Begun')
  <2> DEFINE h == hdr'
             K == FirstsOf(files) \cup Begun'
  <2>1. \A s \in K : s \in Sectors /\ s \notin Spare(h, chain) /\ h.type[s] # "cont"
    BY <1>17
  <2>2. \A s \in Rest(h.fctrl, CtrlBlock(chain, h.fctrl)) : h.type[s] = "unused"
    BY <1>15, <1>16 DEF R
  <2> HIDE DEF h, K
  <2>3. Knit(h, chain, K)
    BY <2>1, <2>2 DEF Knit
  <2> QED BY <1>1, <2>3 DEF h, K
<1>19. Strung(hdr', chain')
  BY <1>1, <1>2 DEF Strung
<1>20. Working /\ Working' /\ pc' # "flash" /\ Woven(hdr', chain', GoesOn')
  BY <1>1, <1>10 DEF Working
<1> QED BY <1>1, <1>18, <1>19, <1>20, WeaveStays

\* A step after which the first sectors are among those there were.
LEMMA WeaveFewer ==
  ASSUME WeaveHeld, Working, Working', gen' = gen, disk' \in {disk, None},
         NEW h, h = hdr', Spare(h, chain') \subseteq Spare(hdr, chain),
         FirstsOf(files') \cup Begun' \subseteq FirstsOf(files) \cup Begun,
         \A s \in Rest(h.fctrl, CtrlBlock(chain', h.fctrl)) : h.type[s] = "unused",
         \A s \in Sectors : s \notin Spare(hdr, chain) /\ h.type[s] = "cont" => hdr.type[s] = "cont",
         Strung(h, chain'),
         pc' \in {"file", "place", "pop"} => Woven(h, chain', GoesOn'),
         pc' = "flash" => Woven(h, <<>>, {}) /\ Encodable(h)
  PROVE  WeaveHeld'
<1> DEFINE H == FirstsOf(files) \cup Begun
           c == chain'
           K == FirstsOf(files') \cup Begun'
<1>1. Knit(hdr, chain, H)
  BY DEF WeaveHeld
<1>2. /\ K \subseteq H /\ Spare(h, c) \subseteq Spare(hdr, chain)
      /\ \A s \in Rest(h.fctrl, CtrlBlock(c, h.fctrl)) : h.type[s] = "unused"
  OBVIOUS
<1> HIDE DEF H, K, c
<1>3. \A s \in K : h.type[s] = "cont" => hdr.type[s] = "cont"
  BY <1>1, <1>2 DEF Knit
<1>4. Knit(h, c, K)
  BY <1>1, <1>2, <1>3, KnitThen
<1> QED BY <1>4, WeaveStays DEF K, c

LEMMA WeaveEndFile ==
  ASSUME ListHeld, WeaveHeld, Plainly', EndFile
  PROVE  WeaveHeld'
<1> DEFINE f == Head(todo).file
           h == WithLast(hdr)
           old == files[f]
           frst == IF old = None /\ at.i = 0 THEN None ELSE at.frst
           k == hdr'
<1>1. /\ pc = "file" /\ todo # <<>> /\ at.i = Head(todo).len
      /\ old # None => old.frst \in Sectors /\ at.i # 0
      /\ k = IF old = None THEN h ELSE [h EXCEPT !.type[old.frst] = "unused"]
      /\ files' = [files EXCEPT ![f] = [frst |-> frst, len |-> at.i, gen |-> gen]]
      /\ todo' = Tail(todo) /\ at' = [i |-> 0, frst |-> hdr'.free]
      /\ pc' = "file" /\ csc' = csc /\ chain' = chain /\ disk' = disk /\ gen' = gen
  <2>1. ~Wreck("empty") /\ ~Wreck("clean") /\ ~Taken("empty")
    BY DEF Wreck, Taken, Plainly
  <2> QED BY <2>1 DEF EndFile, InFile, Enter, phoneVars
<1>2. /\ Sound(hdr, chain, files) /\ AtFile /\ Knit(hdr, chain, FirstsOf(files) \cup Begun)
      /\ Strung(hdr, chain) /\ Woven(hdr, chain, GoesOn) /\ chain = <<>>
  BY <1>1 DEF ListHeld, WeaveHeld, Working, AtFile
<1>3. hdr \in Header /\ DOMAIN files = Files
  BY <1>2 DEF Sound
<1>4. f \in Files /\ at.i \in Nat
  <2>1. todo \in Seq([file : Files, len : Nat]) /\ at.i \in Nat
    BY <1>2 DEF AtFile
  <2>2. \A T : todo \in Seq(T) /\ todo # <<>> => Head(todo) \in T
    OBVIOUS
  <2>3. Head(todo) \in [file : Files, len : Nat]
    BY <1>1, <2>1, <2>2
  <2> QED BY <2>1, <2>3
<1>5. GoesOn = {} /\ GoesOn' = {}
  BY <1>1, <1>4 DEF GoesOn, Storing
<1> HIDE DEF f
<1>6. /\ h \in Header /\ h.fctrl = hdr.fctrl /\ h.type = hdr.type /\ h.next = hdr.next
  BY <1>3, WithLastIs
<1>7. Woven(h, chain, {})
  BY <1>2, <1>5, <1>6 DEF Woven
<1>8. /\ Woven(k, chain, {}) /\ k.fctrl = hdr.fctrl
      /\ \A s \in Sectors : k.type[s] \in {hdr.type[s], "unused"}
  <2>1. CASE old = None
    <3>1. k = h
      BY <1>1, <2>1
    <3> HIDE DEF h, k
    <3> QED BY <1>6, <1>7, <3>1
  <2>2. CASE old # None
    <3> DEFINE x == old.frst
    <3>1. x \in Sectors /\ x \in FirstsOf(files)
      BY <1>1, <1>4, <2>2 DEF FirstsOf
    <3>2. h.type[x] # "cont"
      BY <1>2, <1>6, <3>1 DEF Knit
    <3>3. k = [h EXCEPT !.type[x] = "unused"]
      BY <1>1, <2>2
    <3> HIDE DEF x, k, h
    <3>4. h = [free |-> h.free, last |-> h.last, fctrl |-> h.fctrl, type |-> h.type, next |-> h.next]
      BY <1>6, HeaderIs
    <3>5. k.type = [h.type EXCEPT ![x] = "unused"] /\ k.next = h.next /\ k.fctrl = h.fctrl
      BY <3>3, <3>4
    <3>6. Woven(k, chain, {})
      BY <1>6, <1>7, <3>1, <3>2, <3>5, WovenUnused
    <3>7. \A s \in Sectors : k.type[s] \in {hdr.type[s], "unused"}
      BY <1>6, <3>1, <3>5, HeaderIs
    <3> QED BY <1>6, <3>5, <3>6, <3>7
  <2> QED BY <2>1, <2>2
<1>9. Spare(hdr', chain') = Spare(hdr, chain)
  BY <1>1, ListEndFile
<1>10. FirstsOf(files') \cup Begun' \subseteq FirstsOf(files) \cup Begun
  <2>1. Begun' \subseteq Begun
    BY <1>1 DEF Begun
  <2>2. ASSUME NEW s \in FirstsOf(files')
        PROVE  s \in FirstsOf(files) \cup Begun
    <3>1. PICK y \in Files : s \in Sectors /\ files'[y] # None /\ files'[y].frst = s
      BY DEF FirstsOf
    <3>2. CASE y # f
      <4>1. files'[y] = files[y]
        BY <1>1, <1>3, <1>4, <3>2
      <4> QED BY <3>1, <4>1 DEF FirstsOf
    <3>3. CASE y = f
      <4>1. files'[y] = [frst |-> frst, len |-> at.i, gen |-> gen]
        BY <1>1, <1>3, <1>4, <3>3
      <4>2. s = frst
        BY <3>1, <4>1
      <4>3. frst # None
        BY <3>1, <4>2, BatchesAssumption
      <4>4. s = at.frst /\ at.i # 0
        BY <1>1, <4>2, <4>3
      <4>5. at.i > 0
        BY <1>4, <4>4
      <4> QED BY <1>1, <4>4, <4>5 DEF Begun
    <3> QED BY <3>2, <3>3
  <2> QED BY <2>1, <2>2
<1>11. \A s \in Rest(k.fctrl, CtrlBlock(chain', k.fctrl)) : k.type[s] = "unused"
  BY <1>1, <1>2, <1>8 DEF Knit, Rest
<1>12. \A s \in Sectors : k.type[s] = "cont" => hdr.type[s] = "cont"
  BY <1>8
<1>13. Strung(k, chain')
  BY <1>1, <1>2 DEF Strung
<1>14. Working /\ Working' /\ pc' # "flash" /\ Woven(k, chain', GoesOn')
  BY <1>1, <1>5, <1>8 DEF Working
<1>15. k = hdr' /\ Spare(k, chain') \subseteq Spare(hdr, chain)
  BY <1>9
<1> HIDE DEF k
<1> QED BY <1>1, <1>10, <1>11, <1>12, <1>13, <1>14, <1>15, WeaveFewer

LEMMA WeaveInvalidate ==
  ASSUME ListHeld, WeaveHeld, Plainly', Invalidate
  PROVE  WeaveHeld'
<1> DEFINE x == IF csc THEN disk.chain[1] ELSE 0
           k == hdr'
<1>1. /\ pc = "file" /\ todo = <<>> /\ k = [hdr EXCEPT !.type[x] = "unused"]
      /\ pc' = "place" /\ chain' = chain /\ files' = files /\ disk' = disk /\ gen' = gen
  <2>1. ~Wreck("full") /\ ~Wreck("stray")
    BY DEF Wreck, Taken, Plainly
  <2> QED BY <2>1 DEF Invalidate, phoneVars
<1>2. /\ Sound(hdr, chain, files) /\ AtFile /\ Knit(hdr, chain, FirstsOf(files) \cup Begun)
      /\ Strung(hdr, chain) /\ Woven(hdr, chain, GoesOn) /\ chain = <<>>
  BY <1>1 DEF ListHeld, WeaveHeld, Working, AtFile
<1>3. hdr \in Header
  BY <1>2 DEF Sound
<1>4. GoesOn = {} /\ GoesOn' = {}
  BY <1>1 DEF GoesOn, Storing
<1>5. x \in Begun
  BY <1>1 DEF Begun
<1>6. x \in Sectors /\ hdr.type[x] # "cont"
  BY <1>2, <1>5 DEF Knit
<1>7. Begun' = {}
  BY <1>1 DEF Begun
<1>8. Spare(hdr', chain') = Spare(hdr, chain)
  BY ListInvalidate
<1>9. k = hdr' /\ Spare(k, chain') \subseteq Spare(hdr, chain)
  BY <1>8
<1> HIDE DEF x, k
<1>10. k.type = [hdr.type EXCEPT ![x] = "unused"] /\ k.next = hdr.next /\ k.fctrl = hdr.fctrl
  <2>1. hdr = [free |-> hdr.free, last |-> hdr.last, fctrl |-> hdr.fctrl,
               type |-> hdr.type, next |-> hdr.next]
    BY <1>3, HeaderIs
  <2> QED BY <1>1, <2>1
<1>11. Woven(k, chain, {})
  BY <1>2, <1>3, <1>4, <1>6, <1>10, WovenUnused
<1>12. \A s \in Sectors : k.type[s] \in {hdr.type[s], "unused"}
  BY <1>3, <1>6, <1>10, HeaderIs
<1>13. \A s \in Rest(k.fctrl, CtrlBlock(chain', k.fctrl)) : k.type[s] = "unused"
  BY <1>1, <1>2, <1>10, <1>12 DEF Knit, Rest
<1>14. \A s \in Sectors : k.type[s] = "cont" => hdr.type[s] = "cont"
  BY <1>12
<1>15. Strung(k, chain')
  BY <1>1, <1>2 DEF Strung
<1>16. Working /\ Working' /\ pc' # "flash" /\ Woven(k, chain', GoesOn')
  BY <1>1, <1>4, <1>11 DEF Working
<1>17. FirstsOf(files') \cup Begun' \subseteq FirstsOf(files) \cup Begun
  BY <1>1, <1>7
<1> QED BY <1>1, <1>9, <1>13, <1>14, <1>15, <1>16, <1>17, WeaveFewer

LEMMA WeavePlace ==
  ASSUME ListHeld, WeaveHeld, Plainly', Place
  PROVE  WeaveHeld'
<1> DEFINE k == hdr'
<1>1. /\ pc = "place" /\ pc' = "place" /\ files' = files /\ disk' = disk /\ gen' = gen
  BY PlaceGoes
<1>2. PICK g, x, ty : PlacesIn(g, x, ty) /\ chain' = Append(chain, x)
  BY PlaceGoes
<1>3. /\ Sound(hdr, chain, files) /\ Knit(hdr, chain, FirstsOf(files) \cup Begun)
      /\ Strung(hdr, chain) /\ Woven(hdr, chain, GoesOn)
  BY <1>1 DEF ListHeld, WeaveHeld, Working
<1>4. /\ hdr \in Header /\ chain \in Seq(Sectors) /\ FreeSectors(hdr) \cap ToSet(chain) = {}
  BY <1>3 DEF Sound, Chained
<1>5. GoesOn = {} /\ GoesOn' = {} /\ Begun' = {}
  BY <1>1 DEF GoesOn, Storing, Begun
<1>6. /\ g \in Header /\ x \in Sectors /\ Apart(hdr, g)
      /\ Rest(x, BlockOf(x)) \cap FreeSectors(g) = {}
      /\ FreeSectors(g) \cup Rest(x, BlockOf(x)) \subseteq Spare(hdr, chain)
      /\ \A i \in DOMAIN chain : BlockOf(chain[i]) = BlockOf(x) => chain[i] < x
      /\ ty = (IF chain = <<>> THEN "first" ELSE "cont")
      /\ k.type = [g.type EXCEPT ![x] = ty] /\ k.next = g.next /\ k.fctrl = x + 1
  BY <1>2 DEF PlacesIn
<1>7. x \in Nat /\ x \in Rest(x, BlockOf(x)) /\ Sectors \subseteq Nat
  BY <1>6, SectsIs DEF Rest
<1>8. Spare(hdr', chain') \subseteq Spare(hdr, chain)
  BY ListPlace
<1> HIDE DEF k
<1>9. \A s \in Rest(x, BlockOf(x)) : g.type[s] = "unused"
  <2> SUFFICES ASSUME NEW s \in Rest(x, BlockOf(x)) PROVE g.type[s] = "unused"
    OBVIOUS
  <2>1. s \in Sectors /\ s \notin FreeSectors(g) /\ s \in Spare(hdr, chain)
    BY <1>6 DEF Rest
  <2>2. g.type[s] # "free"
    BY <2>1 DEF FreeSectors
  <2>3. hdr.type[s] \in {"free", "unused"}
    BY <1>3, <2>1 DEF Spare, Knit, FreeSectors
  <2> QED BY <1>6, <2>1, <2>2, <2>3 DEF Apart
<1>10. Woven(g, chain, {})
  BY <1>3, <1>4, <1>5, <1>6, WovenApart
<1>11. Woven(k, Append(chain, x), {})
  BY <1>4, <1>6, <1>7, <1>9, <1>10, WovenPlaces
<1>12. \A s \in Sectors : k.type[s] = IF s = x THEN ty ELSE g.type[s]
  BY <1>6, HeaderIs
<1>13. /\ Len(chain) \in Nat /\ DOMAIN chain = 1 .. Len(chain)
       /\ DOMAIN Append(chain, x) = 1 .. Len(chain) + 1 /\ Len(Append(chain, x)) = Len(chain) + 1
       /\ \A i \in 1 .. Len(chain) : Append(chain, x)[i] = chain[i]
       /\ Append(chain, x)[Len(chain) + 1] = x /\ (chain = <<>> <=> Len(chain) = 0)
       /\ Append(chain, x) # <<>>
  <2>1. chain \in Seq(Sectors) /\ x \in Sectors
    BY <1>4, <1>6
  <2>2. Len(chain) \in Nat /\ DOMAIN chain = 1 .. Len(chain) /\ (chain = <<>> <=> Len(chain) = 0)
    BY <2>1, EmptySeq
  <2>3. /\ Append(chain, x) \in Seq(Sectors) /\ Append(chain, x) # <<>>
        /\ Len(Append(chain, x)) = Len(chain) + 1
        /\ \A i \in 1 .. Len(chain) : Append(chain, x)[i] = chain[i]
        /\ Append(chain, x)[Len(chain) + 1] = x
    BY <2>1, AppendProperties
  <2> QED BY <2>2, <2>3
<1> DEFINE c == Append(chain, x)
<1>14. c # <<>> /\ LastIn(c) = x
  BY <1>13 DEF LastIn
<1>15. Strung(k, c)
  <2> SUFFICES ASSUME NEW i \in DOMAIN c PROVE k.type[c[i]] = IF i = 1 THEN "first" ELSE "cont"
    BY DEF Strung
  <2>1. CASE i = Len(chain) + 1
    <3>1. c[i] = x /\ k.type[x] = ty
      BY <1>6, <1>12, <1>13, <2>1
    <3>2. i = 1 <=> chain = <<>>
      BY <1>13, <2>1
    <3> QED BY <1>6, <3>1, <3>2
  <2>2. CASE i # Len(chain) + 1
    <3>1. i \in DOMAIN chain /\ c[i] = chain[i]
      BY <1>13, <2>2
    <3> DEFINE y == chain[i]
    <3>2. y \in Sectors /\ y \in ToSet(chain)
      BY <1>4, <3>1 DEF ToSet
    <3>3. y # x
      BY <1>6, <1>7, <3>1
    <3>4. hdr.type[y] = IF i = 1 THEN "first" ELSE "cont"
      BY <1>3, <3>1 DEF Strung
    <3> HIDE DEF y
    <3>5. g.type[y] = hdr.type[y]
      BY <1>4, <1>6, <3>2 DEF Apart
    <3>6. k.type[y] = g.type[y]
      BY <1>12, <3>2, <3>3
    <3> QED BY <3>1, <3>4, <3>5, <3>6 DEF y
  <2> QED BY <2>1, <2>2
<1> HIDE DEF c
<1>16. \A s \in Rest(k.fctrl, CtrlBlock(c, k.fctrl)) : k.type[s] = "unused"
  <2> SUFFICES ASSUME NEW s \in Rest(x + 1, BlockOf(x)) PROVE k.type[s] = "unused"
    BY <1>6, <1>14 DEF CtrlBlock
  <2>1. s \in Sectors /\ s \in Nat /\ s >= x + 1 /\ BlockOf(s) = BlockOf(x)
    BY <1>7 DEF Rest
  <2>2. s # x /\ s \in Rest(x, BlockOf(x))
    BY <1>7, <2>1 DEF Rest
  <2> QED BY <1>9, <1>12, <2>1, <2>2
<1>17. \A s \in Sectors : s \notin Spare(hdr, chain) /\ k.type[s] = "cont" => hdr.type[s] = "cont"
  <2> SUFFICES ASSUME NEW s \in Sectors, s \notin Spare(hdr, chain), k.type[s] = "cont"
               PROVE  hdr.type[s] = "cont"
    OBVIOUS
  <2>1. s # x
    BY <1>6, <1>7
  <2> QED BY <1>6, <1>12, <2>1 DEF Apart
<1>18. Working /\ Working' /\ pc' # "flash" /\ Woven(k, chain', GoesOn')
  BY <1>1, <1>2, <1>5, <1>11 DEF Working
<1>19. k = hdr' /\ Spare(k, chain') \subseteq Spare(hdr, chain) /\ chain' = c
  BY <1>2, <1>8 DEF k, c
<1>20. FirstsOf(files') \cup Begun' \subseteq FirstsOf(files) \cup Begun
  BY <1>1, <1>5
<1> QED BY <1>1, <1>15, <1>16, <1>17, <1>18, <1>19, <1>20, WeaveFewer

LEMMA WeavePlaced ==
  ASSUME WeaveHeld, Plainly', Placed
  PROVE  WeaveHeld'
<1>1. /\ pc = "place" /\ pc' = "pop" /\ hdr' = hdr /\ chain' = chain /\ files' = files
      /\ disk' = disk /\ gen' = gen
  <2>1. ~Wreck("stray")
    BY DEF Wreck, Taken, Plainly
  <2> QED BY <2>1 DEF Placed, phoneVars
<1>2. /\ Knit(hdr, chain, FirstsOf(files) \cup Begun) /\ Strung(hdr, chain) /\ Woven(hdr, chain, GoesOn)
  BY <1>1 DEF WeaveHeld, Working
<1>3. GoesOn = {} /\ GoesOn' = {} /\ Begun' = {} /\ Begun = {}
  BY <1>1 DEF GoesOn, Storing, Begun
<1>4. Working /\ Working' /\ pc' # "flash"
  BY <1>1 DEF Working
<1> QED BY <1>1, <1>2, <1>3, <1>4, WeaveStays

LEMMA WeavePop ==
  ASSUME ListHeld, WeaveHeld, Plainly', Pop
  PROVE  WeaveHeld'
<1> DEFINE x == hdr.free
           k == hdr'
<1>1. /\ pc = "pop" /\ pc' = "pop" /\ hdr.free # Nil
      /\ k = [hdr EXCEPT !.type[x] = "unused", !.free = hdr.next[x]]
      /\ chain' = chain /\ files' = files /\ disk' = disk /\ gen' = gen
  <2>1. hdr.free # Nil
    BY DEF Pop, Taken, Plainly
  <2> QED BY <2>1 DEF Pop, phoneVars
<1>2. /\ Sound(hdr, chain, files) /\ Knit(hdr, chain, FirstsOf(files) \cup Begun)
      /\ Strung(hdr, chain) /\ Woven(hdr, chain, GoesOn)
  BY <1>1 DEF ListHeld, WeaveHeld, Working
<1>3. hdr \in Header /\ Ascends(hdr) /\ FreeSectors(hdr) \cap ToSet(chain) = {} /\ chain \in Seq(Sectors)
  BY <1>2 DEF Sound, Chained
<1>4. GoesOn = {} /\ GoesOn' = {} /\ Begun' = {}
  BY <1>1 DEF GoesOn, Storing, Begun
<1>5. x \in FreeSectors(hdr) /\ x \in Sectors /\ hdr.next[x] \in Sectors \cup {Nil}
  BY <1>1, <1>3, HeaderIs DEF Ascends, After
<1>6. Spare(hdr', chain') \subseteq Spare(hdr, chain)
  BY ListPop
<1>7. k = hdr' /\ Spare(k, chain') \subseteq Spare(hdr, chain)
  BY <1>6
<1> HIDE DEF k
<1>8. k.type = [hdr.type EXCEPT ![x] = "unused"] /\ k.next = hdr.next /\ k.fctrl = hdr.fctrl
      /\ k.free = hdr.next[x]
  <2>1. hdr = [free |-> hdr.free, last |-> hdr.last, fctrl |-> hdr.fctrl,
               type |-> hdr.type, next |-> hdr.next]
    BY <1>3, HeaderIs
  <2> QED BY <1>1, <2>1
<1>9. Woven(k, chain, {})
  <2>1. k.next = [hdr.next EXCEPT ![x] = hdr.next[x]]
    BY <1>3, <1>8, HeaderIs
  <2>2. x \notin ToSet(chain)
    BY <1>3, <1>5
  <2> DEFINE to == hdr.next[x]
             ty == "unused"
             none == {}
  <2>3. /\ ty \in {"unused", "first", "cont"} /\ to \in Sectors \cup {Nil} /\ k.free = hdr.next[hdr.free]
        /\ k.type = [hdr.type EXCEPT ![hdr.free] = ty] /\ k.next = [hdr.next EXCEPT ![hdr.free] = to]
        /\ none \subseteq {hdr.free} /\ (none # {} => ty = "cont")
        /\ (ty = "unused" \/ to = Nil \/ to \in none)
        /\ Woven(hdr, chain, none) /\ hdr.free \in FreeSectors(hdr) /\ hdr.free \notin ToSet(chain)
    BY <1>2, <1>4, <1>5, <1>8, <2>1, <2>2
  <2> HIDE DEF to, ty, none
  <2>4. Woven(k, chain, none)
    BY <1>3, <2>3, WovenTakes
  <2> QED BY <2>4 DEF none
<1>10. \A s \in Sectors : k.type[s] \in {hdr.type[s], "unused"}
  BY <1>3, <1>5, <1>8, HeaderIs
<1>11. \A s \in Rest(k.fctrl, CtrlBlock(chain', k.fctrl)) : k.type[s] = "unused"
  BY <1>1, <1>2, <1>8, <1>10 DEF Knit, Rest
<1>12. Strung(k, chain')
  <2> SUFFICES ASSUME NEW i \in DOMAIN chain PROVE k.type[chain[i]] = hdr.type[chain[i]]
    BY <1>1, <1>2 DEF Strung
  <2>1. chain[i] \in Sectors /\ chain[i] # x
    BY <1>3, <1>5 DEF ToSet
  <2> QED BY <1>3, <1>8, <2>1, HeaderIs
<1>13. Working /\ Working' /\ pc' # "flash" /\ Woven(k, chain', GoesOn')
  BY <1>1, <1>4, <1>9 DEF Working
<1>14. \A s \in Sectors : k.type[s] = "cont" => hdr.type[s] = "cont"
  BY <1>10
<1>15. FirstsOf(files') \cup Begun' \subseteq FirstsOf(files) \cup Begun
  BY <1>1, <1>4
<1> QED BY <1>1, <1>7, <1>11, <1>12, <1>13, <1>14, <1>15, WeaveFewer

LEMMA WeaveSeal ==
  ASSUME ListHeld, WeaveHeld, Plainly', Seal
  PROVE  WeaveHeld'
<1> DEFINE nextOf(i) == IF i = Len(chain) THEN Nil ELSE chain[i + 1]
           place(s) == CHOOSE i \in DOMAIN chain : chain[i] = s
           links == [s \in Sectors |-> IF s \in ToSet(chain) THEN nextOf(place(s)) ELSE hdr.next[s]]
           g == [hdr EXCEPT !.next = links]
           k == hdr'
<1>1. /\ pc = "pop" /\ k = WithLast(g) /\ pc' = "flash" /\ chain' = chain /\ files' = files
      /\ disk' \in {disk, None} /\ gen' = gen /\ Encodable(k)
  <2>1. ~Wreck("full") /\ ~Wreck("stray")
    BY DEF Wreck, Taken, Plainly
  <2> QED BY <2>1 DEF Seal
<1>2. /\ Sound(hdr, chain, files) /\ Knit(hdr, chain, FirstsOf(files) \cup Begun)
      /\ Strung(hdr, chain) /\ Woven(hdr, chain, GoesOn)
  BY <1>1 DEF ListHeld, WeaveHeld, Working
<1>3. hdr \in Header /\ chain \in Seq(Sectors) /\ OneByOne(chain)
  BY <1>2 DEF Sound, Chained
<1>4. GoesOn = {} /\ Begun' = {}
  BY <1>1 DEF GoesOn, Storing, Begun
<1>5. \A i \in DOMAIN chain : links[chain[i]] = nextOf(i)
  <2> SUFFICES ASSUME NEW i \in DOMAIN chain PROVE links[chain[i]] = nextOf(i)
    OBVIOUS
  <2>1. chain[i] \in Sectors /\ chain[i] \in ToSet(chain)
    BY <1>3 DEF ToSet
  <2>2. place(chain[i]) = i
    BY <1>3 DEF OneByOne
  <2> HIDE DEF nextOf, place
  <2> QED BY <2>1, <2>2
<1>6. \A s \in Sectors \ ToSet(chain) : links[s] = hdr.next[s]
  <2> HIDE DEF nextOf, place
  <2> QED OBVIOUS
<1>7. links \in [Sectors -> Sectors \cup {Nil}]
  <2>1. ASSUME NEW s \in Sectors
        PROVE  links[s] \in Sectors \cup {Nil}
    <3>1. CASE s \in ToSet(chain)
      <4>1. PICK i \in DOMAIN chain : chain[i] = s
        BY <3>1 DEF ToSet
      <4>2. i # Len(chain) => i + 1 \in DOMAIN chain
        BY <1>3, <4>1
      <4>3. nextOf(i) \in Sectors \cup {Nil}
        BY <1>3, <4>2
      <4> HIDE DEF links, nextOf
      <4> QED BY <1>5, <4>1, <4>3
    <3>2. CASE s \notin ToSet(chain)
      <4> HIDE DEF links
      <4> QED BY <1>3, <1>6, <3>2, HeaderIs
    <3> QED BY <3>1, <3>2
  <2>2. links = [s \in Sectors |-> links[s]]
    <3> HIDE DEF nextOf, place
    <3> QED OBVIOUS
  <2> HIDE DEF links
  <2> QED BY <2>1, <2>2
<1>8. \A i \in DOMAIN chain : links[chain[i]] = IF i = Len(chain) THEN Nil ELSE chain[i + 1]
  <2> HIDE DEF links
  <2> QED BY <1>5
<1> HIDE DEF links
<1>9. g = [free |-> hdr.free, last |-> hdr.last, fctrl |-> hdr.fctrl, type |-> hdr.type, next |-> links]
  <2>1. hdr = [free |-> hdr.free, last |-> hdr.last, fctrl |-> hdr.fctrl,
               type |-> hdr.type, next |-> hdr.next]
    BY <1>3, HeaderIs
  <2> QED BY <2>1
<1> HIDE DEF g
<1>10. g \in Header
  BY <1>3, <1>7, <1>9, HeaderIs DEF Header
<1> HIDE DEF k
<1>11. k.type = hdr.type /\ k.next = links /\ k.fctrl = hdr.fctrl
  BY <1>1, <1>9, <1>10, WithLastIs
<1>12. Woven(k, <<>>, {})
  <2>1. \A s \in Sectors \ ToSet(chain) : k.next[s] = hdr.next[s]
    BY <1>6, <1>11
  <2>2. \A i \in DOMAIN chain : k.next[chain[i]] = IF i = Len(chain) THEN Nil ELSE chain[i + 1]
    BY <1>8, <1>11
  <2> QED BY <1>2, <1>3, <1>4, <1>11, <2>1, <2>2, WovenSealed
<1>13. Spare(hdr', chain') = Spare(hdr, chain)
  BY ListSeal
<1>14. k = hdr' /\ Spare(k, chain') \subseteq Spare(hdr, chain)
  BY <1>13 DEF k
<1>15. \A s \in Rest(k.fctrl, CtrlBlock(chain', k.fctrl)) : k.type[s] = "unused"
  BY <1>1, <1>2, <1>11 DEF Knit
<1>16. Strung(k, chain')
  BY <1>1, <1>2, <1>11 DEF Strung
<1>17. Working /\ Working' /\ pc' \notin {"file", "place", "pop"}
  BY <1>1 DEF Working
<1>18. \A s \in Sectors : k.type[s] = "cont" => hdr.type[s] = "cont"
  BY <1>11
<1>19. FirstsOf(files') \cup Begun' \subseteq FirstsOf(files) \cup Begun
  BY <1>1, <1>4
<1> QED BY <1>1, <1>12, <1>14, <1>15, <1>16, <1>17, <1>18, <1>19, WeaveFewer

LEMMA WeaveAct ==
  ASSUME WeaveHeld, Act
  PROVE  WeaveHeld'
<1>1. /\ pc = "flash" /\ pc' = pc /\ hdr' = hdr /\ chain' = chain /\ files' = files
      /\ disk' = disk /\ gen' = gen
  BY DEF Act, patchVars
<1>2. /\ Knit(hdr, chain, FirstsOf(files) \cup Begun) /\ Strung(hdr, chain)
      /\ Woven(hdr, <<>>, {}) /\ Encodable(hdr)
  BY <1>1 DEF WeaveHeld, Working
<1>3. Begun' = {} /\ Begun = {} /\ Working /\ Working' /\ pc' \notin {"file", "place", "pop"}
  BY <1>1 DEF Begun, Working
<1> QED BY <1>1, <1>2, <1>3, WeaveStays

\* What is written is read back, and its lists are as far apart as they were.
LEMMA WeaveFlashed ==
  ASSUME ListHeld, WeaveHeld, Flashed
  PROVE  WeaveHeld' /\ ReadBack'
<1> DEFINE d == disk'
           h == Parsed(d)
           H == FirstsOf(files) \cup {chain[1]}
<1>1. /\ pc = "flash" /\ pc' = "idle" /\ d.gen = gen /\ d.files = files
      /\ d.chain = chain /\ hdr' = hdr /\ gen' = gen /\ AsWritten(d, hdr)
  BY DEF Flashed, patchVars, AsWritten
<1>2. /\ Sound(hdr, chain, files) /\ chain # <<>> /\ Knit(hdr, chain, FirstsOf(files) \cup Begun)
      /\ Strung(hdr, chain) /\ Woven(hdr, <<>>, {}) /\ Encodable(hdr) /\ gen \in Nat
  BY <1>1 DEF ListHeld, WeaveHeld, Working
<1>3. hdr \in Header /\ Ascends(hdr) /\ hdr.free # Nil /\ Chained(chain, hdr.fctrl)
      /\ FreeSectors(hdr) \cap ToSet(chain) = {}
  BY <1>2 DEF Sound, Encodable
<1>4. PICK D : Regained(hdr, D)
  BY <1>2, <1>3, TableRegained
<1> HIDE DEF d
<1>5. /\ Walk(h.next, h.free) = Walk(hdr.next, hdr.free)
      /\ FreeSectors(h) = FreeSectors(hdr) /\ Firsts(h) = Firsts(hdr)
      /\ \A s \in Firsts(hdr) : Walk(h.next, s) = Walk(hdr.next, s)
  BY <1>1, <1>3, <1>4, ListsRegained
<1>6. /\ h \in Header /\ h.fctrl = hdr.fctrl
      /\ \A s \in Sectors \ D : h.type[s] = "unused"
      /\ \A s \in D : h.type[s] = hdr.type[s] /\ h.next[s] = hdr.next[s]
  BY <1>1, <1>3, <1>4, ParsedIs
<1> HIDE DEF h
<1>7. ReadBack'
  <2>1. /\ h \in Header
        /\ Walk(h.next, h.free) = Walk(hdr'.next, hdr'.free)
        /\ FreeSectors(h) = FreeSectors(hdr') /\ Firsts(h) = Firsts(hdr')
        /\ \A s \in Firsts(hdr') : Walk(h.next, s) = Walk(hdr'.next, s)
    BY <1>1, <1>5, <1>6
  <2> QED BY <2>1 DEF ReadBack, h, d
<1>8. \A s \in D : hdr.next[s] = Nil \/ hdr.next[s] \in D
  BY <1>4 DEF Regained, Lists
<1>9. D \subseteq Sectors
  BY <1>4 DEF Regained, Lists
<1>10. Woven(h, <<>>, {})
  <2>1. ToSet(<<>>) = {}
    BY DEF ToSet
  <2> SUFFICES ASSUME NEW s \in Sectors, h.type[s] \in {"first", "cont"}
               PROVE  h.next[s] = Nil \/ (h.next[s] \in Sectors /\ h.type[h.next[s]] = "cont")
    BY <2>1 DEF Woven
  <2>2. s \in D
    BY <1>6
  <2>3. h.type[s] = hdr.type[s] /\ h.next[s] = hdr.next[s]
    BY <1>6, <2>2
  <2>4. hdr.next[s] = Nil \/ (hdr.next[s] \in Sectors /\ hdr.type[hdr.next[s]] = "cont")
    BY <1>2, <2>1, <2>3 DEF Woven
  <2>5. CASE hdr.next[s] \in D /\ hdr.type[hdr.next[s]] = "cont"
    BY <1>6, <1>9, <2>3, <2>5
  <2> QED BY <1>8, <2>2, <2>3, <2>4, <2>5
<1>11. \A s \in Sectors : h.type[s] \in {hdr.type[s], "unused"}
  BY <1>6
<1>12. chain[1] \in Sectors /\ chain[1] \notin Spare(hdr, chain) /\ hdr.type[chain[1]] = "first"
  <2>1. chain \in Seq(Sectors) /\ Len(chain) \in Nat /\ 1 \in DOMAIN chain /\ Len(chain) \in DOMAIN chain
    BY <1>2, <1>3 DEF Chained
  <2> DEFINE x == chain[1]
  <2>2. x \in Sectors /\ x \in ToSet(chain)
    BY <2>1 DEF ToSet
  <2>3. hdr.type[x] = "first"
    BY <1>2, <2>1 DEF Strung
  <2>4. BlockOf(x) = BlockOf(LastIn(chain)) => x < hdr.fctrl
    BY <1>2, <1>3, <2>1 DEF Chained
  <2> HIDE DEF x
  <2>5. x \in Nat /\ hdr.fctrl \in Nat
    BY <1>3, <2>2, HeaderIs, SectsIs
  <2>6. x \notin Rest(hdr.fctrl, CtrlBlock(chain, hdr.fctrl))
    BY <1>2, <2>4, <2>5 DEF Rest, CtrlBlock
  <2> QED BY <1>3, <2>2, <2>3, <2>6 DEF Spare, x
<1>13. Spare(h, chain) = Spare(hdr, chain)
  BY <1>5, <1>6 DEF Spare
<1>14. Knit(hdr, chain, H)
  BY <1>2, <1>12 DEF Knit
<1> HIDE DEF H
<1>15. Knit(h, chain, H)
  <2>1. \A s \in Rest(h.fctrl, CtrlBlock(chain, h.fctrl)) : h.type[s] = "unused"
    BY <1>6, <1>11, <1>14 DEF Knit, Rest
  <2>2. \A s \in H : h.type[s] = "cont" => hdr.type[s] = "cont"
    BY <1>11, <1>14 DEF Knit
  <2> QED BY <1>13, <1>14, <2>1, <2>2, KnitThen
<1>16. DiskWoven'
  <2>1. Knit(Parsed(d), d.chain, FirstsOf(d.files) \cup {d.chain[1]}) /\ Woven(Parsed(d), <<>>, {})
    BY <1>1, <1>10, <1>15 DEF h, H
  <2>2. d.gen \in Nat /\ d.gen <= gen'
    BY <1>1, <1>2
  <2> QED BY <2>1, <2>2 DEF DiskWoven, d
<1> QED BY <1>1, <1>2, <1>7, <1>16 DEF WeaveHeld, Working

-----------------------------------------------------------------------------
(* Through any number of flashes.                                          *)

LEMMA WeaveInit ==
  ASSUME Init
  PROVE  WeaveInv
  BY DEF Init, WeaveInv, WeaveHeld, DiskWoven, Working, ReadBack

\* What was read back before this flash is not asked for after it.
LEMMA ReadBackStays ==
  ASSUME WeaveHeld, pc' # "idle" \/ (Working /\ gen' = gen /\ disk' \in {disk, None})
  PROVE  ReadBack'
<1> SUFFICES ASSUME pc' = "idle", disk' # None, disk'.gen = gen' PROVE FALSE
  BY DEF ReadBack
<1>1. disk.gen \in Nat /\ gen \in Nat /\ disk.gen < gen /\ disk.gen = gen
  BY DEF WeaveHeld, DiskWoven
<1> QED BY <1>1

LEMMA WeaveNext ==
  ASSUME ListInv, WeaveInv, [Next]_vars
  PROVE  WeaveInv'
<1>0. ~Plainly' => ReadBack'
  BY DEF ReadBack, Plainly
<1> SUFFICES ASSUME Plainly' PROVE WeaveHeld' /\ ReadBack'
  BY <1>0 DEF WeaveInv
<1>1. CASE BeginTfs
  <2>1. Plainly /\ pc' = "file"
    BY <1>1 DEF BeginTfs, Taken, Plainly
  <2>2. ListHeld /\ WeaveHeld
    BY <2>1 DEF ListInv, WeaveInv
  <2> QED BY <1>1, <2>1, <2>2, WeaveBeginTfs, ReadBackStays
<1>2. CASE BeginCsc
  <2>1. Plainly /\ pc' # "idle"
    BY <1>2 DEF BeginCsc, Wreck, Taken, Plainly
  <2>2. ListHeld /\ WeaveHeld
    BY <2>1 DEF ListInv, WeaveInv
  <2> QED BY <1>2, <2>1, <2>2, WeaveBeginCsc, ReadBackStays
<1>3. CASE Store
  <2>1. Plainly /\ pc' # "idle"
    BY <1>3 DEF Store, InFile, Taken, Plainly
  <2>2. ListHeld /\ WeaveHeld
    BY <2>1 DEF ListInv, WeaveInv
  <2> QED BY <1>3, <2>1, <2>2, WeaveStore, ReadBackStays
<1>4. CASE EndFile
  <2>1. Plainly /\ pc' # "idle"
    BY <1>4 DEF EndFile, InFile, Wreck, Taken, Plainly
  <2>2. ListHeld /\ WeaveHeld
    BY <2>1 DEF ListInv, WeaveInv
  <2> QED BY <1>4, <2>1, <2>2, WeaveEndFile, ReadBackStays
<1>5. CASE Invalidate
  <2>1. Plainly /\ pc' # "idle"
    BY <1>5 DEF Invalidate, Wreck, Taken, Plainly
  <2>2. ListHeld /\ WeaveHeld
    BY <2>1 DEF ListInv, WeaveInv
  <2> QED BY <1>5, <2>1, <2>2, WeaveInvalidate, ReadBackStays
<1>6. CASE Place
  <2>1. Plainly /\ pc' # "idle"
    BY <1>6 DEF Place, Wreck, Taken, Plainly
  <2>2. ListHeld /\ WeaveHeld
    BY <2>1 DEF ListInv, WeaveInv
  <2> QED BY <1>6, <2>1, <2>2, WeavePlace, ReadBackStays
<1>7. CASE Placed
  <2>1. Plainly /\ pc' # "idle"
    BY <1>7 DEF Placed, Wreck, Taken, Plainly
  <2>2. ListHeld /\ WeaveHeld
    BY <2>1 DEF ListInv, WeaveInv
  <2> QED BY <1>7, <2>1, <2>2, WeavePlaced, ReadBackStays
<1>8. CASE Pop
  <2>1. Plainly /\ pc' # "idle"
    BY <1>8 DEF Pop, Taken, Plainly
  <2>2. ListHeld /\ WeaveHeld
    BY <2>1 DEF ListInv, WeaveInv
  <2> QED BY <1>8, <2>1, <2>2, WeavePop, ReadBackStays
<1>9. CASE Seal
  <2>1. Plainly /\ pc' # "idle"
    BY <1>9 DEF Seal, Wreck, Taken, Plainly
  <2>2. ListHeld /\ WeaveHeld
    BY <2>1 DEF ListInv, WeaveInv
  <2> QED BY <1>9, <2>1, <2>2, WeaveSeal, ReadBackStays
<1>10. CASE NoSpace \/ Fragmented \/ NothingToPop
  <2>1. Abandon /\ Working
    BY <1>10 DEF NoSpace, Fragmented, NothingToPop, InFile, Working
  <2>2. pc' = "idle" /\ disk' = disk /\ gen' = gen /\ hit' = hit
    BY <2>1 DEF Abandon, phoneVars
  <2>3. WeaveHeld
    BY <2>2 DEF WeaveInv, Plainly
  <2> QED BY <2>1, <2>2, <2>3, WeaveLeft, ReadBackStays
<1>11. CASE Act
  <2>1. Plainly /\ pc' # "idle"
    BY <1>11 DEF Act, Plainly
  <2>2. WeaveHeld
    BY <2>1 DEF WeaveInv
  <2> QED BY <1>11, <2>1, <2>2, WeaveAct, ReadBackStays
<1>12. CASE Flashed
  <2>1. Plainly
    BY <1>12 DEF Flashed, Plainly
  <2>2. ListHeld /\ WeaveHeld
    BY <2>1 DEF ListInv, WeaveInv
  <2> QED BY <1>12, <2>2, WeaveFlashed
<1>13. CASE PowerCut
  <2>1. /\ pc' = "idle" /\ disk' \in {disk, None} /\ gen' = gen /\ Plainly /\ Working
    BY <1>13 DEF PowerCut, Taken, Plainly, Working
  <2>2. WeaveHeld
    BY <2>1 DEF WeaveInv
  <2> QED BY <2>1, <2>2, WeaveLeft, ReadBackStays
<1>14. CASE UNCHANGED vars
  <2>1. /\ pc' = pc /\ gen' = gen /\ hdr' = hdr /\ chain' = chain /\ files' = files /\ disk' = disk
        /\ hit' = hit /\ at' = at /\ todo' = todo /\ csc' = csc
    BY <1>14 DEF vars, patchVars, phoneVars
  <2>2. Plainly /\ WeaveHeld /\ ReadBack
    BY <2>1 DEF WeaveInv, Plainly
  <2>3. ReadBack'
    BY <2>1, <2>2 DEF ReadBack
  <2>4. DiskWoven' /\ gen' \in Nat
    BY <2>1, <2>2, DiskWovenStays DEF WeaveHeld
  <2>5. GoesOn' = GoesOn /\ Begun' = Begun
    BY <2>1 DEF GoesOn, Storing, Begun
  <2> QED BY <2>1, <2>2, <2>3, <2>4, <2>5 DEF WeaveHeld, Working
<1> QED BY <1>1, <1>2, <1>3, <1>4, <1>5, <1>6, <1>7, <1>8, <1>9, <1>10, <1>11, <1>12, <1>13, <1>14
        DEF Next, Patch

TableInv == ListInv /\ WeaveInv /\ BlankInv

LEMMA TableKept == Spec => []TableInv
<1>1. Init => TableInv
  BY ListInit, WeaveInit, BlankInit DEF TableInv
<1>2. TableInv /\ [Next]_vars => TableInv'
  <2> SUFFICES ASSUME ListInv, WeaveInv, BlankInv, [Next]_vars
               PROVE  ListInv' /\ WeaveInv' /\ BlankInv'
    BY DEF TableInv
  <2>1. WeaveInv'
    BY WeaveNext
  <2>2. ReadBack'
    BY <2>1 DEF WeaveInv
  <2> QED BY <2>1, <2>2, ListNext, BlankNext
<1> QED BY <1>1, <1>2, PTL DEF Spec

\* The words of a control as it is built are read as the same lists, in the same
\* order: build_ctrl_header and parse_ctrl_header agree on the tables of every
\* flash of any number of flashes, for areas of any size, whatever is flashed, as
\* long as no block has been cleaned, no file made empty and the table is neither
\* run out of nor run over.  That all the words reach the phone is ControlFits.
THEOREM ReadBackKept == Spec => []ReadBack
<1>1. TableInv => ReadBack
  BY DEF TableInv, WeaveInv
<1> QED BY <1>1, TableKept, PTL

\* The free list ends and holds exactly the free sectors, all through every
\* flash of any number of flashes, a retry after a power cut included, but for
\* the paths FreeListSound leaves out: for tables of any size, whatever is flashed.
THEOREM ListsKept == Spec => []FreeListSound
<1>1. TableInv => FreeListSound
  BY ListThen DEF TableInv
<1> QED BY <1>1, TableKept, PTL

\* What the next flash may write to, the free sectors and the rest of the
\* control's block, is blank on the phone after any number of flashes, of which
\* any .tfs may have been cut short, and any .csc once it had marked a control
\* sector.  A .csc that is cut before that ("torn") ends it: what it has written
\* stays in the free list of the old control, and create_file burns over it.
THEOREM BlankKept == Spec => []FreeIsBlank
<1>1. TableInv => FreeIsBlank
  BY BlankThen DEF TableInv
<1> QED BY <1>1, TableKept, PTL
=============================================================================
