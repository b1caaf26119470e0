------------------------------ MODULE TfsCodec -------------------------------
(***************************************************************************)
(* The sector table as a control header stores it (src/tfs.c): a sequence  *)
(* of 16-bit words, the free list first, then the other lists, in which    *)
(* runs of consecutive sectors are cut short.                              *)
(***************************************************************************)
EXTENDS TfsTable

CONSTANT Run   \* 0xfffe: the last sector of a run follows

ASSUME CodecAssumption == Run \notin Sectors /\ Run # Nil

\* The sectors of the list that begins at s.
ListFrom(next, s) ==
  LET to == Walk(next, s)
  IN [k \in 1 .. Cardinality({j \in 0 .. NumSects : to[j] \in Sectors}) |-> to[k - 1]]

\* Whether the i-th sector of list c begins a run, and whether it ends one.
Begins(c, i) == i = 1 \/ c[i] # c[i - 1] + 1
Stops(c, i) == i = Len(c) \/ c[i + 1] # c[i] + 1

Piece(c, i, words) == IF words THEN <<c[i]>> ELSE <<>>

\* The free list: last sector of the first run, then first and last of each
\* other; the header holds the first sector.
FreeWords(h) ==
  LET c == ListFrom(h.next, h.free)
  IN FlattenSeq([i \in DOMAIN c |-> Piece(c, i, i # 1 /\ Begins(c, i))
                                    \o Piece(c, i, Stops(c, i))]) \o <<Nil>>

\* Mutant: the end of a run is forgotten when the list ends with it.
ListWordsOpen(h, s) ==
  LET c == ListFrom(h.next, s)
  IN FlattenSeq([i \in DOMAIN c |->
       Piece(c, i, Begins(c, i))
       \o (IF Stops(c, i) /\ ~Begins(c, i) /\ i # Len(c)
           THEN <<Run, c[i]>> ELSE <<>>)]) \o <<Nil>>

\* Any other list: the first sector of each run and, if it has more than one,
\* Run and its last.
ListWords(h, s) ==
  LET c == ListFrom(h.next, s)
  IN FlattenSeq([i \in DOMAIN c |->
       Piece(c, i, Begins(c, i))
       \o (IF Stops(c, i) /\ ~Begins(c, i) THEN <<Run, c[i]>> ELSE <<>>)]) \o <<Nil>>

\* build_ctrl_header walks lists that end; it never returns from another, nor
\* from a free list that is empty.
Encodable(h) == /\ h.free # Nil
                /\ Ends(h.next, h.free)
                /\ \A s \in Firsts(h) : Ends(h.next, s)

\* update_ctrl_sizes counts these words, build_ctrl_header writes them.
TableWords(h) ==
  LET firsts == Ascending(Firsts(h))
  IN FreeWords(h) \o FlattenSeq([i \in DOMAIN firsts |-> ListWords(h, firsts[i])])
Encoded(h) == Append(TableWords(h), Nil)

(* parse_ctrl_header, word by word: what the word is, the sector read last, *)
(* which type it has in its list, and the table so far.                     *)
Linked(tbl, lo, hi, t) ==
  [type |-> [s \in Sectors |-> IF s \in lo .. hi /\ (t = "free" \/ s > lo) THEN t
                               ELSE tbl.type[s]],
   next |-> [s \in Sectors |-> IF s \in lo .. hi - 1 THEN s + 1 ELSE tbl.next[s]]]

ReadWord(st, w) ==
  LET to(next) == [st.tbl EXCEPT !.next[st.sect] = next]
      typed(tbl) == [tbl EXCEPT !.type[st.sect] = st.type]
  IN CASE st.at = "free end" ->
            [st EXCEPT !.at = "free link", !.sect = w, !.tbl = Linked(st.tbl, st.sect, w, "free")]
       [] st.at = "free link" ->
            [st EXCEPT !.at = IF w = Nil THEN "list" ELSE "free end", !.sect = w, !.tbl = to(w)]
       [] st.at = "list" ->
            IF w = Nil THEN [st EXCEPT !.at = "done"]
            ELSE [st EXCEPT !.at = "link", !.sect = w, !.type = "first"]
       [] st.at = "link" ->
            IF w = Run THEN [st EXCEPT !.at = "run", !.type = "cont", !.tbl = typed(st.tbl)]
            ELSE [st EXCEPT !.at = IF w = Nil THEN "list" ELSE "link",
                            !.sect = w, !.type = "cont", !.tbl = typed(to(w))]
       [] st.at = "run" ->
            [st EXCEPT !.at = "link", !.sect = w, !.tbl = Linked(st.tbl, st.sect, w, "cont")]
       [] OTHER -> st

Reading(st, words) ==
  LET upto[k \in 0 .. Len(words)] ==
        IF k = 0 THEN st ELSE ReadWord(upto[k - 1], words[k])
  IN upto[Len(words)]

\* What no list holds is unused, and linked to sector 0.
Decoded(free, words) ==
  LET empty == [type |-> [s \in Sectors |-> "unused"], next |-> [s \in Sectors |-> 0]]
  IN Reading([at |-> "free end", sect |-> free, type |-> "first", tbl |-> empty], words).tbl
=============================================================================
