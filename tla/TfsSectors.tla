----------------------------- MODULE TfsSectors ------------------------------
(***************************************************************************)
(* The sectors of the TFS4 file system across flashes: which of them       *)
(* tfs4_patch (src/tfs.c) gives to files and to the control chain, what    *)
(* flash_tfs then does to the phone, and what is left for the next flash.  *)
(*                                                                         *)
(* The length in sectors of a file and of the control chain are chosen     *)
(* freely.  A page holds the set of things burnt into it since it was last *)
(* erased, so that a page with two contents is seen.                       *)
(***************************************************************************)
EXTENDS TfsCodec, CtrlOrder

CONSTANTS None,          \* also 0xffff, the first sector of an empty file
          Batches,       \* what a flash may bring: sequences of [file, len]
          CtrlLens,      \* lengths the control chain may have
          MaxPatches     \* bound of the model

ASSUME SectorsAssumption ==
  /\ CtrlLens \subseteq 1 .. BlockSize     \* a chain is in two blocks at most
  /\ MaxPatches \in Nat

Files == UNION {{batch[i].file : i \in DOMAIN batch} : batch \in Batches}

ASSUME BatchesAssumption ==
  /\ \A batch \in Batches : batch \in Seq([file : Files, len : Nat])
  /\ None \notin Sectors
  /\ "ctrl" \notin Files                \* it names what control sectors hold

VARIABLES pc,       \* where tfs4_patch and flash_tfs are
          gen,      \* flashes begun, counting the one in progress
          csc,      \* whether it is a .csc: into the file system there is
          hdr,      \* tfs4_ctrl_header: [free, last, fctrl, type, next]
          marks,    \* sect_marks, the host's copy
          todo,     \* the files still to create
          at,       \* [i, frst]: in create_file, the sectors done and the first
          files,    \* the entries: [frst, len, gen], or None
          left,     \* control sectors, or pops of the free list, still to do
          chain,    \* new_ctrl_sects
          counted,  \* the words of the sector table when ctrl_size was settled
          erasing,  \* the sectors of chain whose action is ERASE_AND_WRITE
          acts,     \* act_list, from the next action on
          cell,     \* the phone: what each page has had burnt into it
          locked,   \* the blocks an action of this flash has locked again
          disk,     \* what the control chain on the phone describes, or None
          hit       \* history: the paths of the code that have been taken

patchVars == <<hdr, marks, todo, at, files, left, chain, counted, erasing>>
phoneVars == <<cell, locked, disk>>
vars == <<pc, gen, csc, patchVars, acts, phoneVars, hit>>

-----------------------------------------------------------------------------
(* What the phone's pages say.  A mark of 0 wins over 0xf0.                 *)
IsCtrl(x) == x[1] = "ctrl"
ChipMark(s) == IF cell[s] = {} THEN 255
               ELSE IF \A x \in cell[s] : IsCtrl(x) THEN 240 ELSE 0

\* The control sectors are found by their marks, and are those of d.
Readable(d) ==
  /\ {s \in Sectors : ChipMark(s) = 240} = {d.chain[i] : i \in DOMAIN d.chain}
  /\ \A i \in DOMAIN d.chain : cell[d.chain[i]] = {<<"ctrl", d.gen, i>>}

\* tfs4_ctrl_fix_sect_order finds the chain in the sectors that are marked.
MarkedSects == Ascending({s \in Sectors : ChipMark(s) = 240})
InOrder(d) == FixedOrder(MarkedSects, d.chain) = d.chain

\* parse_ctrl_header
Parsed(d) == LET tbl == Decoded(d.free, d.words)
             IN [free |-> d.free, last |-> d.last, fctrl |-> d.fctrl,
                 type |-> tbl.type, next |-> tbl.next]

\* Every file d lists is there: its first sector begins a list, and from there
\* on come its own contents.
FilesThere(d) ==
  LET h == Parsed(d)
  IN \A f \in Files : d.files[f] # None =>
       \A i \in 0 .. d.files[f].len - 1 :
         LET s == Walk(h.next, d.files[f].frst)[i]
         IN /\ s \in Sectors /\ cell[s] \ {<<"void">>} = {<<f, d.files[f].gen, i>>}
            /\ i = 0 => h.type[s] = "first"

-----------------------------------------------------------------------------
Init ==
  /\ pc = "idle" /\ gen = 0 /\ csc = FALSE
  /\ hdr = FreshHeader /\ marks = [s \in Sectors |-> 0]
  /\ todo = <<>> /\ at = [i |-> 0, frst |-> Nil] /\ files = [f \in Files |-> None]
  /\ left = 0 /\ chain = <<>> /\ counted = 0 /\ erasing = {}
  /\ acts = <<>> /\ cell = [s \in Sectors |-> {}] /\ locked = {} /\ disk = None
  /\ hit = {}

Taken(path) == hit' = hit \cup {path}
Enter == [i |-> 0, frst |-> hdr'.free]

\* An index outside sect_tbl, or a walk that never meets its block: the code
\* does nothing defined from here on.
Wreck(path) == /\ pc' = "lost" /\ Taken(path)
               /\ UNCHANGED <<gen, csc, patchVars, acts, phoneVars>>

\* A .tfs into an erased area.  flash_tfs gets a sect_marks that main has not
\* filled: fresh memory, or the array the flash before has freed.
BeginTfs ==
  /\ pc = "idle" /\ gen < MaxPatches
  /\ \E batch \in Batches, old \in BOOLEAN :
       /\ todo' = batch
       /\ marks' = IF old THEN marks ELSE [s \in Sectors |-> 0]
       /\ IF old /\ \E s \in Sectors : marks[s] = 240 THEN Taken("recycled") ELSE UNCHANGED hit
  /\ gen' = gen + 1 /\ csc' = FALSE /\ pc' = "file"
  /\ hdr' = FreshHeader /\ files' = [f \in Files |-> None] /\ at' = Enter
  /\ left' = 0 /\ chain' = <<>> /\ counted' = 0 /\ erasing' = {}
  /\ UNCHANGED <<acts, phoneVars>>

\* A .csc into the file system there is, if its control can be put in order.
\* Without the end of the control parse_ctrl_header reads beyond it.
BeginCsc ==
  /\ pc = "idle" /\ gen < MaxPatches /\ disk # None /\ Readable(disk) /\ InOrder(disk)
  /\ IF ~disk.whole THEN Wreck("short")
     ELSE /\ todo' \in Batches
          /\ marks' = [s \in Sectors |-> ChipMark(s)]
          /\ gen' = gen + 1 /\ csc' = TRUE /\ pc' = "file"
          /\ hdr' = Parsed(disk) /\ files' = disk.files /\ at' = Enter
          /\ left' = 0 /\ chain' = <<>> /\ counted' = 0 /\ erasing' = {}
          /\ IF "torn" \in hit THEN Taken("retry") ELSE UNCHANGED hit
          /\ UNCHANGED <<acts, phoneVars>>

\* "No free space!", "control fragmentation fault": nothing has been sent yet.
Abandon == /\ pc' = "idle" /\ acts' = <<>>
           /\ UNCHANGED <<gen, csc, patchVars, phoneVars, hit>>

InFile == pc = "file" /\ todo # <<>>

\* Mutant: the sector after this one is taken to be the next free one.
StoreNeighbour ==
  /\ InFile /\ at.i < Head(todo).len /\ hdr.free # Nil
  /\ LET s == hdr.free
     IN /\ hdr' = [hdr EXCEPT !.type[s] = IF at.i = 0 THEN "first" ELSE "cont",
                              !.next[s] = IF at.i = Head(todo).len - 1 THEN Nil ELSE @,
                              !.free = s + 1]
        /\ acts' = Append(acts, [op |-> "write", sect |-> s,
                                 what |-> <<Head(todo).file, gen, at.i>>])
  /\ at' = [at EXCEPT !.i = @ + 1]
  /\ UNCHANGED <<pc, gen, csc, marks, todo, files, left, chain, counted, erasing, phoneVars, hit>>

\* One turn of create_file's loop.
Store ==
  /\ InFile /\ at.i < Head(todo).len
  /\ LET full == hdr.free = Nil
         h == IF full THEN Cleaned(hdr, marks) ELSE hdr
         s == h.free
     IN /\ full => Dirty(marks) # {}
        /\ hdr' = [h EXCEPT !.type[s] = IF at.i = 0 THEN "first" ELSE "cont",
                            !.next[s] = IF at.i = Head(todo).len - 1 THEN Nil ELSE @,
                            !.free = h.next[s]]
        /\ marks' = IF full THEN CleanMarks(marks) ELSE marks
        /\ acts' = Append(acts, [op |-> IF full THEN "erase" ELSE "write", sect |-> s,
                                 what |-> <<Head(todo).file, gen, at.i>>])
        /\ IF full THEN Taken("clean") ELSE UNCHANGED hit
  /\ at' = [at EXCEPT !.i = @ + 1]
  /\ UNCHANGED <<pc, gen, csc, todo, files, left, chain, counted, erasing, phoneVars>>

NoSpace == /\ InFile /\ at.i < Head(todo).len /\ hdr.free = Nil /\ Dirty(marks) = {}
           /\ Abandon

\* Mutant: the old first sector goes back to the free list.
EndFileFreesOld ==
  /\ InFile /\ at.i = Head(todo).len
  /\ LET f == Head(todo).file
         h == WithLast(hdr)
         old == files[f]
     IN /\ hdr' = IF old = None THEN h
                  ELSE [h EXCEPT !.type[old.frst] = "free", !.next[old.frst] = h.free,
                                 !.free = old.frst]
        /\ files' = [files EXCEPT ![f] = [frst |-> at.frst, len |-> at.i, gen |-> gen]]
        /\ todo' = Tail(todo) /\ at' = Enter
        /\ UNCHANGED <<pc, gen, csc, marks, left, chain, counted, erasing, acts, phoneVars, hit>>

\* The rest of create_file: a file that was there loses its first sector, and
\* has a new one even when it is now empty.
EndFile ==
  /\ InFile /\ at.i = Head(todo).len
  /\ LET f == Head(todo).file
         h == WithLast(hdr)
         old == files[f]
         frst == IF old = None /\ at.i = 0 THEN None ELSE at.frst
     IN IF old # None /\ old.frst \notin Sectors
        THEN Wreck(IF old.len = 0 THEN "empty" ELSE "clean")
        ELSE /\ hdr' = IF old = None THEN h ELSE [h EXCEPT !.type[old.frst] = "unused"]
             /\ files' = [files EXCEPT ![f] = [frst |-> frst, len |-> at.i, gen |-> gen]]
             /\ IF old # None /\ at.i = 0 THEN Taken("empty") ELSE UNCHANGED hit
             /\ todo' = Tail(todo) /\ at' = Enter
             /\ UNCHANGED <<pc, gen, csc, marks, left, chain, counted, erasing, acts, phoneVars>>

MarkActs(S) == [i \in 1 .. Cardinality(S) |->
                  [op |-> "mark", sect |-> Ascending(S)[i], what |-> <<"void">>]]

\* Mutant: the old control sectors are forgotten, but not marked on the phone.
InvalidateNot ==
  /\ pc = "file" /\ todo = <<>> /\ hdr.free # Nil
  /\ marks' = [s \in Sectors |-> IF marks[s] = 240 THEN 0 ELSE marks[s]]
  /\ hdr' = [hdr EXCEPT !.type[IF csc THEN disk.chain[1] ELSE 0] = "unused"]
  /\ left' \in CtrlLens /\ pc' = "place" /\ counted' = Len(TableWords(hdr'))
  /\ UNCHANGED <<gen, csc, todo, at, files, chain, erasing, acts, phoneVars, hit>>

\* The old control sectors are to be marked, and the length of the new chain is
\* settled (update_ctrl_sizes follows every list of the table).
Invalidate ==
  /\ pc = "file" /\ todo = <<>>
  /\ LET old == {s \in Sectors : marks[s] = 240}
         head == IF csc THEN disk.chain[1] ELSE 0
         h == [hdr EXCEPT !.type[head] = "unused"]
     IN IF ~Encodable(h) THEN Wreck(IF h.free = Nil THEN "full" ELSE "stray")
        ELSE /\ marks' = [s \in Sectors |-> IF s \in old THEN 0 ELSE marks[s]]
             /\ hdr' = h
             /\ acts' = acts \o MarkActs(old)
             /\ counted' = Len(TableWords(h)) /\ left' \in CtrlLens
             /\ pc' = "place"
             /\ UNCHANGED <<gen, csc, todo, at, files, chain, erasing, phoneVars, hit>>

Crossing == chain # <<>> /\ hdr.fctrl % BlockSize = 0

\* One control sector, in the block the chain is in, or in a free one.
Place ==
  /\ pc = "place" /\ left > 0
  /\ LET clean == Crossing /\ FreeBlocks(hdr) = {}
         h1 == IF clean THEN Cleaned(hdr, marks) ELSE hdr
         m1 == IF clean THEN CleanMarks(marks) ELSE marks
         b == LeastOf(FreeBlocks(h1))
         h2 == IF Crossing THEN Occupied(h1, b) ELSE h1
         s == h2.fctrl
     IN /\ clean => Dirty(marks) # {} /\ FreeBlocks(h1) # {}
        /\ IF \/ Crossing /\ FirstOf(b) \notin Reach(h1.next, h1.free)
              \/ s \notin Sectors
           THEN Wreck("stray")
           ELSE /\ hdr' = [h2 EXCEPT !.type[s] = IF chain = <<>> THEN "first" ELSE "cont",
                                     !.fctrl = @ + 1]
                /\ marks' = [m1 EXCEPT ![s] = 240]
                /\ chain' = Append(chain, s)
                /\ erasing' = IF clean THEN erasing \cup {s} ELSE erasing
                /\ left' = left - 1
                /\ hit' = hit \cup (IF clean THEN {"clean"} ELSE {})
                              \cup (IF Crossing /\ h1.free = FirstOf(b) THEN {"head"} ELSE {})
                /\ UNCHANGED <<pc, gen, csc, todo, at, files, counted, acts, phoneVars>>

Fragmented == /\ pc = "place" /\ left > 0 /\ Crossing /\ FreeBlocks(hdr) = {}
              /\ Dirty(marks) # {} => FreeBlocks(Cleaned(hdr, marks)) = {}
              /\ Abandon

\* If the sector after the chain is not a fresh control sector, as many free
\* sectors as the chain has are taken out of the list.
Placed ==
  /\ pc = "place" /\ left = 0
  /\ IF hdr.fctrl \notin Sectors THEN Wreck("stray")
     ELSE /\ pc' = "pop"
          /\ left' = IF hdr.type[hdr.fctrl] # "unused" \/ marks[hdr.fctrl] # 255
                     THEN Len(chain) ELSE 0
          /\ UNCHANGED <<gen, csc, hdr, marks, todo, at, files, chain, counted, erasing, acts,
                         phoneVars, hit>>

Pop ==
  /\ pc = "pop" /\ left > 0
  /\ LET full == hdr.free = Nil
         h == IF full THEN Cleaned(hdr, marks) ELSE hdr
     IN /\ full => Dirty(marks) # {}
        /\ hdr' = [h EXCEPT !.type[h.free] = "unused", !.free = h.next[h.free]]
        /\ marks' = IF full THEN CleanMarks(marks) ELSE marks
        /\ IF full THEN Taken("clean") ELSE UNCHANGED hit
  /\ left' = left - 1
  /\ UNCHANGED <<pc, gen, csc, todo, at, files, chain, counted, erasing, acts, phoneVars>>

NothingToPop == /\ pc = "pop" /\ left > 0 /\ hdr.free = Nil /\ Dirty(marks) = {}
                /\ Abandon

\* The chain is linked and the control built (build_ctrl_header follows every
\* list again); flash_tfs unlocks the area and erases it for a .tfs.
Seal ==
  /\ pc = "pop" /\ left = 0
  /\ LET nextOf(i) == IF i = Len(chain) THEN Nil ELSE chain[i + 1]
         place(s) == CHOOSE i \in DOMAIN chain : chain[i] = s
         h == WithLast([hdr EXCEPT !.next =
                [s \in Sectors |-> IF s \in ToSet(chain) THEN nextOf(place(s))
                                   ELSE hdr.next[s]]])
     IN IF ~Encodable(h) THEN Wreck(IF h.free = Nil THEN "full" ELSE "stray")
        ELSE /\ hdr' = h
             /\ acts' = acts \o [i \in DOMAIN chain |->
                   [op |-> IF chain[i] \in erasing THEN "erase" ELSE "write",
                    sect |-> chain[i], what |-> <<"ctrl", gen, i>>]]
             /\ pc' = "flash" /\ locked' = {}
             /\ IF csc THEN UNCHANGED <<cell, disk>>
                ELSE cell' = [s \in Sectors |-> {}] /\ disk' = None
             /\ UNCHANGED <<gen, csc, marks, todo, at, files, left, chain, counted,
                            erasing, hit>>

-----------------------------------------------------------------------------
(* flash_tfs and the preloader.                                            *)

\* SECT_WRITE erases first if told to, but only then unlocks the block, which
\* a write or a mark before it may have locked.
Act ==
  /\ pc = "flash" /\ acts # <<>>
  /\ LET a == Head(acts)
         b == BlockOf(a.sect)
         blank == a.op = "erase" /\ b \notin locked
     IN /\ cell' = [s \in Sectors |->
                      (IF blank /\ s \in SectorsOf(b) THEN {} ELSE cell[s])
                      \cup (IF s = a.sect THEN {a.what} ELSE {})]
        /\ locked' = locked \cup {b}
  /\ acts' = Tail(acts)
  /\ UNCHANGED <<pc, gen, csc, patchVars, disk, hit>>

\* What ctrl_size has room for: the words counted before the chain was placed,
\* two, and one for each sector there would be without these.  The checksum, and
\* the link at the end of a block, may take the last of them.
Rooms ==
  LET n == Len(chain)
      links == Cardinality({i \in 1 .. n - 1 : chain[i] = LastOf(BlockOf(chain[i]))})
  IN {counted + 2 + n - taken : taken \in 0 .. 2 + links}
     \cup (IF n > 1 THEN {counted + 2 + n - 1} ELSE {})

Flashed ==
  /\ pc = "flash" /\ acts = <<>>
  /\ \E room \in Rooms :
       disk' = [free |-> hdr.free, last |-> hdr.last, fctrl |-> hdr.fctrl,
                words |-> Encoded(hdr), whole |-> Len(Encoded(hdr)) <= room,
                files |-> files, chain |-> chain, gen |-> gen]
  /\ pc' = "idle"
  /\ UNCHANGED <<gen, csc, patchVars, acts, cell, locked, hit>>

\* No old control sector has been marked yet.
Untouched == csc /\ \A i \in DOMAIN disk.chain :
                      \E k \in DOMAIN acts : acts[k].op = "mark" /\ acts[k].sect = disk.chain[i]

\* The phone loses power: before the first mark it has the file system it had,
\* torn by what has been burnt into its free sectors; then none until the last
\* control sector is written.
PowerCut ==
  /\ pc = "flash" /\ acts # <<>>
  /\ IF disk # None /\ Untouched THEN disk' = disk /\ Taken("torn")
                               ELSE disk' = None /\ Taken("cut")
  /\ pc' = "idle" /\ acts' = <<>>
  /\ UNCHANGED <<gen, csc, patchVars, cell, locked>>

Patch == \/ Store \/ NoSpace \/ EndFile \/ Invalidate \/ Place \/ Fragmented
         \/ Placed \/ Pop \/ NothingToPop \/ Seal
Next == BeginTfs \/ BeginCsc \/ Patch \/ Act \/ Flashed \/ PowerCut

Spec == Init /\ [][Next]_vars

-----------------------------------------------------------------------------
(* Every variable has its type.                                            *)
Content == {<<"void">>} \cup ((Files \cup {"ctrl"}) \X (0 .. MaxPatches) \X (0 .. NumSects))
Header == [free : Sectors \cup {Nil}, last : Sectors \cup {Nil}, fctrl : 0 .. NumSects,
           type : [Sectors -> {"unused", "free", "first", "cont"}],
           next : [Sectors -> Sectors \cup {Nil}]]
ActionType == [op : {"write", "erase", "mark"}, sect : Sectors, what : Content]

SectorsTypeOK ==
  /\ pc \in {"idle", "file", "place", "pop", "flash", "lost"}
  /\ gen \in 0 .. MaxPatches /\ csc \in BOOLEAN
  /\ hdr \in Header /\ marks \in [Sectors -> {0, 240, 255}]
  /\ todo \in Seq([file : Files, len : 0 .. NumSects])
  /\ chain \in Seq(Sectors) /\ erasing \subseteq Sectors
  /\ acts \in Seq(ActionType) /\ counted \in Nat
  /\ cell \in [Sectors -> SUBSET Content] /\ locked \subseteq 0 .. NumBlocks - 1
  /\ hit \subseteq {"clean", "head", "recycled", "full", "stray", "cut",
                    "torn", "retry", "short", "empty"}

\* The free list ends, and holds exactly the sectors the table calls free, all
\* through a patch that has taken no path but these.
ListSound(paths) ==
  pc \in {"file", "place", "pop", "flash"} /\ hit \subseteq paths
  => /\ Ends(hdr.next, hdr.free)
     /\ Reach(hdr.next, hdr.free) = {s \in Sectors : hdr.type[s] = "free"}

\* The free list is sound all through every patch (create_file,
\* occupy_free_block), a retry after a power cut included.  Not so once a block
\* has been cleaned, the control area has taken a block off the list's head, a
\* used array has served as sect_marks, or a file has been made empty.
FreeListSound == ListSound({"cut", "torn", "retry"})

\* What a whole control on the phone lists as free is blank there, and so is the
\* rest of the control block: the next flash burns over nothing, a .tfs that was
\* cut short before it, or a .csc once a mark was down, included.  It does not
\* hold from a .csc on that was cut before its first mark ("torn"): create_file
\* takes the free list as it stands, and the .csc after it ("retry") burns over
\* what the cut one left.  Nor after the paths that FreeListSound leaves out.
FreeIsBlank ==
  pc = "idle" /\ disk # None /\ disk.whole /\ hit \subseteq {"cut"} =>
    /\ \A s \in FreeSectors(Parsed(disk)) : cell[s] = {}
    /\ \A s \in Sectors : /\ s >= disk.fctrl
                          /\ BlockOf(s) = BlockOf(disk.chain[Len(disk.chain)])
                          => cell[s] = {}

\* The phone has a file system with all its files: after every flash, and while
\* a .csc is flashed, cut short or not, until the old control is marked.
Intact(paths) ==
  /\ hit \subseteq paths /\ disk # None /\ pc # "lost" /\ (pc = "flash" => Untouched)
  /\ disk.whole
  => Readable(disk) /\ FilesThere(disk)

\* So it is unless: a block had to be cleaned; the control chain ran over the
\* end of its block onto the head of the free list; sect_marks was a used array;
\* the last free sector was taken; a file has been made empty; the control lost
\* its end; or a .csc is flashed after one that was cut before its first mark.
FilesKept == Intact({"cut", "torn"})

\* What build_ctrl_header writes, read by parse_ctrl_header, has the lists it was
\* made from, the free list and every file's and the chain's own, in the same
\* order.  These are the words as built: whether all of them reach the phone is
\* ControlFits.
ReadBack ==
  /\ pc = "idle" /\ disk # None /\ disk.gen = gen
  /\ hit \subseteq {"cut", "torn", "retry", "recycled"}
  =>
    LET h == Parsed(disk)
    IN /\ h \in Header
       /\ Walk(h.next, h.free) = Walk(hdr.next, hdr.free)
       /\ FreeSectors(h) = FreeSectors(hdr) /\ Firsts(h) = Firsts(hdr)
       /\ \A s \in Firsts(hdr) : Walk(h.next, s) = Walk(hdr.next, s)

\* The flasher can put a control chain that it has written in order again,
\* wherever the chain crosses from one block into another, unless the chain
\* ends with a block.
Reorderable ==
  /\ pc = "idle" /\ disk # None /\ hit = {}
  /\ LET s == disk.chain[Len(disk.chain)] IN s # LastOf(BlockOf(s))
  => InOrder(disk)

\* "erase dirty blocks and reuse them": what flash_clean erases was dirty, so the
\* files are kept when blocks are cleaned too.
CleanKeeps == Intact({"clean"})

\* Flashing a .csc into an existing file system works "without any bug": the
\* flasher can put the control chain that it wrote itself in order again.
Reflashable == pc = "idle" /\ disk # None /\ hit = {} => InOrder(disk)

\* An entry's first sector is 0xffff for an empty file, so that an empty file
\* costs no other file its sectors.
EmptyKeeps == Intact({"empty"})

\* "update ctrl_header->ctrl_size and ctrl_header->ctrl_num_shorts": ctrl_size
\* is the size of what build_ctrl_header writes, and all of it is flashed.
ControlFits == disk # None /\ hit = {} => disk.whole
=============================================================================
