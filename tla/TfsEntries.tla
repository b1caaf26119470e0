----------------------------- MODULE TfsEntries ------------------------------
(***************************************************************************)
(* The entry table of a TFS4 control header (src/tfs.c): directories and   *)
(* files, each with an entry of its own for what the two have in common,   *)
(* linked by their places in the table.                                    *)
(*                                                                         *)
(* An entry is [type, name, parent, next, prev, comm, first, data]; data   *)
(* is a common entry's, the other fields are a directory's or a file's.    *)
(* What an entry of type "null" holds is whatever its memory held before.  *)
(***************************************************************************)
EXTENDS TfsPointers, Sequences, FiniteSetsExt, SequencesExt

CONSTANT Grow      \* entries a full table is extended by; 20

Blank == [type |-> "null", name |-> "", parent |-> NoEnt, next |-> NoEnt, prev |-> NoEnt,
          comm |-> NoEnt, first |-> NoEnt, data |-> <<>>]

Named(tbl) == {i \in DOMAIN tbl : tbl[i].type \in {"dir", "file"}}
Children(tbl, d) == {i \in Named(tbl) : tbl[i].parent = d}

\* An empty entry, in a heap that holds an old table or nothing.  Only what was
\* a file there can be taken for one: a directory has its name elsewhere.
Fresh(heap, i) ==
  IF i \in DOMAIN heap /\ heap[i].type \in {"file", "null"}
  THEN [heap[i] EXCEPT !.type = "null"] ELSE Blank

(* The walk along a path.  A name that is not found is passed over.  For a  *)
(* directory only directories are looked at; for a file all that is no      *)
(* directory counts as a file.                                              *)
Dirs(tbl) == {i \in DOMAIN tbl : tbl[i].type = "dir"}
NotComm(tbl) == {i \in DOMAIN tbl : tbl[i].type # "comm"}

Located(tbl, path, among) ==
  LET step(at, k) ==
        LET fit == {i \in among : tbl[i].parent = at.parent /\ tbl[i].name = path[k]}
        IN IF fit = {} THEN at
           ELSE [parent |-> Min(fit), found |-> IF k = Len(path) THEN Min(fit) ELSE NoEnt]
  IN FoldLeft(step, [parent |-> NoEnt, found |-> NoEnt], [k \in DOMAIN path |-> k])

\* Mutant: links to the entry that was there before are left.
add_entry_stale(tbl, ent, heap) ==
  LET n == Cardinality(DOMAIN tbl)
      empty == {i \in DOMAIN tbl : tbl[i].type = "null"}
      new == IF empty = {} THEN n ELSE Min(empty)
      all == IF empty = {} THEN [i \in 0 .. n + Grow - 1 |->
                                   IF i < n THEN tbl[i] ELSE Fresh(heap, i)]
             ELSE tbl
  IN [tbl |-> [all EXCEPT ![new] = ent], at |-> new]

\* The first empty entry, of a table made longer if it has none; next and prev
\* of other entries no longer lead to it.
add_entry(tbl, ent, heap) ==
  LET n == Cardinality(DOMAIN tbl)
      empty == {i \in DOMAIN tbl : tbl[i].type = "null"}
      new == IF empty = {} THEN n ELSE Min(empty)
      all == IF empty = {} THEN [i \in 0 .. n + Grow - 1 |->
                                   IF i < n THEN tbl[i] ELSE Fresh(heap, i)]
             ELSE tbl
      cut(p) == IF p = new THEN NoEnt ELSE p
  IN [tbl |-> [i \in DOMAIN all |->
                 IF i = new THEN ent
                 ELSE IF i \in Named(all)
                 THEN [all[i] EXCEPT !.next = cut(@), !.prev = cut(@)] ELSE all[i]],
      at |-> new]

\* A directory or file, at the head of its parent's list, and its common entry.
Added(tbl, type, name, parent, data, heap) ==
  LET first == IF parent = NoEnt THEN NoEnt ELSE tbl[parent].first
      one == add_entry(tbl, [Blank EXCEPT !.type = type, !.name = name, !.next = first,
                                          !.parent = parent], heap)
      two == add_entry(one.tbl, [Blank EXCEPT !.type = "comm", !.data = data], heap)
  IN [i \in DOMAIN two.tbl |->
        CASE i = one.at -> [two.tbl[i] EXCEPT !.comm = two.at]
          [] i = first  -> [two.tbl[i] EXCEPT !.prev = one.at]
          [] i = parent -> [two.tbl[i] EXCEPT !.first = one.at]
          [] OTHER      -> two.tbl[i]]

\* create_file reads what is not there: a path through a file has the file's
\* name taken for the head of a list, an empty entry may name any other.
Misled(tbl, path) ==
  LET at == Located(tbl, path, NotComm(tbl))
  IN IF at.found = NoEnt THEN at.parent # NoEnt /\ tbl[at.parent].type # "dir"
     ELSE tbl[at.found].comm \notin DOMAIN tbl \ Named(tbl)
\* It takes an empty entry for the file, or for a directory on the way to it.
Haunted(tbl, path) ==
  LET at == Located(tbl, path, NotComm(tbl))
  IN \E i \in {at.found, at.parent} \ {NoEnt} : tbl[i].type = "null"

create_dir(tbl, path, heap) ==
  LET at == Located(tbl, path, Dirs(tbl))
  IN IF at.found # NoEnt THEN tbl
     ELSE Added(tbl, "dir", Last(path), at.parent, <<>>, heap)

\* A file that is found has its contents replaced, in the entry it names.
create_file(tbl, path, data, heap) ==
  LET at == Located(tbl, path, NotComm(tbl))
  IN IF at.found # NoEnt THEN [tbl EXCEPT ![tbl[at.found].comm].data = data]
     ELSE Added(tbl, "file", Last(path), at.parent, data, heap)

(* build_ctrl_header and parse_ctrl_header: links as words, and of an empty *)
(* entry nothing but that it is empty.                                      *)
Relinked(e, convert(_)) ==
  [e EXCEPT !.next = convert(@), !.prev = convert(@), !.comm = convert(@),
            !.parent = convert(@), !.first = convert(@)]
Stored(tbl) ==
  [i \in DOMAIN tbl |-> IF tbl[i].type = "null" THEN Blank
                        ELSE Relinked(tbl[i], convert_from_ptr)]
Loaded(stored, heap) ==
  [i \in DOMAIN stored |-> IF stored[i].type = "null" THEN Fresh(heap, i)
                           ELSE Relinked(stored[i], convert_to_ptr)]
=============================================================================
