------------------------------ MODULE TfsTree --------------------------------
(***************************************************************************)
(* The files and directories of the TFS4 volume across flashes: tfs4_patch *)
(* (src/tfs.c) reads a .cfg, makes what it lists in the entry table of a   *)
(* new control (.tfs) or of the one on the phone (.csc), and writes it.    *)
(***************************************************************************)
EXTENDS TfsConfig, TfsEntries

CONSTANTS Cfgs,          \* the .cfg files there are, as sequences of lines
          MaxFlashes, MaxRemovals   \* bounds of the model

ASSUME TreeAssumption == MaxFlashes \in Nat /\ MaxRemovals \in Nat

VARIABLES at,       \* "idle", "parse", "dirs" and "files" to make, or "lost"
          flashes,  \* flashes begun
          removals, \* files the phone has removed
          lines,    \* the .cfg of the flash in progress
          csc,      \* whether it goes into the volume there is
          code,     \* whether it updates tfsVersionCode.tfs
          tbl,      \* ent_tbl
          next,     \* the directory, then the file, to make next
          heap,     \* the entry table the flash before has freed, or nothing
          disk,     \* the entry table in the phone's control, or NULL
          want,     \* history: the volume as the .cfg files describe it
          odd,      \* history: why the phone's may be another
          ghost     \* history: whether this flash has used an empty entry

flashVars == <<flashes, removals, lines, csc, code>>
volume == <<disk, want, odd>>
treeVars == <<at, flashVars, tbl, next, heap, volume, ghost>>
vars == <<cfgVars, treeVars>>

Empty == [i \in {} |-> Blank]
VersionCode == Root \o <<"v">>

-----------------------------------------------------------------------------
(* What a .cfg means: each DIR_NAME is a directory, each FILE_SIZE with the *)
(* FILE_NAME before it a file, whose data follow those of the files before. *)
Vals(cmds, key) == {cmds[i].val : i \in {j \in DOMAIN cmds : cmds[j].key = key}}
Places(cmds, key) == {i \in DOMAIN cmds : cmds[i].key = key}

FilesOf(cmds, gen) ==
  LET of(k) == SelectSeq(cmds, LAMBDA c : c.key = k)
      names == of("FILE_NAME")
      sizes == of("FILE_SIZE")
      offset[i \in 1 .. Len(sizes) + 1] ==
        IF i = 1 THEN 0 ELSE offset[i - 1] + sizes[i - 1].val
  IN [i \in DOMAIN sizes |-> [path |-> Root \o names[i].val,
                              data |-> <<gen, offset[i], sizes[i].val>>]]

\* Counts come before the tables they are the lengths of, and are right;
\* directories come before what is in them; no name is used twice.
Orderly(cmds) ==
  LET dirPaths == [i \in Places(cmds, "DIR_NAME") |-> cmds[i].val]
      listed(path, i) == Len(path) = 1
        \/ \E j \in DOMAIN dirPaths : j < i /\ dirPaths[j] = Front(path)
      once(count, table, key) ==
        /\ \A i \in Places(cmds, count) : cmds[i].val = Cardinality(Places(cmds, key))
        /\ Cardinality(Places(cmds, count)) = 1 /\ Cardinality(Places(cmds, table)) = 1
        /\ \A i \in Places(cmds, count), j \in Places(cmds, table) : i < j
  IN /\ once("NUM_DIR", "SET_DIR", "DIR_NAME") /\ once("MAXFILES", "SET_FILE", "FILE_NAME")
     /\ \A i \in Places(cmds, "DIR_NAME") \cup Places(cmds, "FILE_NAME") :
          listed(cmds[i].val, i)
     /\ Vals(cmds, "DIR_NAME") \cap Vals(cmds, "FILE_NAME") = {}

\* The volume want, once the .cfg has been flashed into it.
Meant(vol, cmds, gen) ==
  LET fs == FilesOf(cmds, gen)
      all == IF code THEN <<[path |-> VersionCode, data |-> <<gen, "version">>]>> \o fs ELSE fs
      put(files, f) == [p \in DOMAIN files \cup {f.path} |->
                          IF p = f.path THEN f.data ELSE files[p]]
  IN [dirs |-> vol.dirs \cup {Root} \cup {Root \o v : v \in Vals(cmds, "DIR_NAME")},
      files |-> FoldLeft(put, vol.files, all)]

NoVolume == [dirs |-> {}, files |-> [p \in {} |-> <<>>]]

-----------------------------------------------------------------------------
Init == /\ cfg = <<>> /\ mode = "top" /\ num_dir = 0 /\ max_files = 0
        /\ dirs = NULL /\ cfgFiles = NULL /\ name = NULL /\ md5 = NULL /\ version = NULL
        /\ at = "idle" /\ flashes = 0 /\ removals = 0 /\ lines = <<>> /\ csc = FALSE /\ code = FALSE
        /\ tbl = Empty /\ next = 1 /\ heap = Empty
        /\ disk = NULL /\ want = NoVolume /\ odd = {} /\ ghost = FALSE

\* Memory that has been freed may come back, or not.
Begin ==
  /\ at = "idle" /\ flashes < MaxFlashes
  /\ \E c \in Cfgs : lines' = c /\ ParserReset(c)
  /\ csc' \in BOOLEAN /\ (csc' => disk # NULL) /\ code' \in BOOLEAN
  /\ heap' \in {heap, Empty}
  /\ flashes' = flashes + 1 /\ at' = "parse" /\ next' = 1 /\ ghost' = FALSE
  /\ UNCHANGED <<removals, tbl, volume>>

Parse == at = "parse" /\ ParseStep /\ UNCHANGED treeVars

\* A .tfs begins with no entries, a .csc with those of the phone.
PatchStart ==
  /\ at = "parse" /\ mode = "accepted"
  /\ at' = "dirs" /\ tbl' = IF csc THEN Loaded(disk, heap) ELSE Empty
  /\ UNCHANGED <<cfgVars, flashVars, next, heap, volume, ghost>>

\* tfs4_patch returns; no one looks at its tables any more.
Return == /\ at' = "idle" /\ tbl' = Empty /\ next' = 1
          /\ ParserReset(<<>>) /\ lines' = <<>> /\ csc' = FALSE /\ code' = FALSE
          /\ ghost' = FALSE
          /\ UNCHANGED <<flashes, removals>>

\* ... false: the volume is what it was.
Fail == Return /\ UNCHANGED <<heap, volume>>
Refused == at = "parse" /\ mode = "refused" /\ Fail

\* Nothing that the code does from here on is defined.
Crash == at' = "lost" /\ UNCHANGED <<cfgVars, flashVars, tbl, next, heap, volume, ghost>>

\* tfs_num_dir directories and tfs_max_files files, whatever the tables hold.
Entry(table, i) == IF table # NULL /\ i \in DOMAIN table THEN table[i] ELSE NULL

CreateDir ==
  /\ at = "dirs" /\ next <= num_dir
  /\ IF Entry(dirs, next) = NULL THEN Crash
     ELSE /\ tbl' = create_dir(tbl, dirs[next], heap)
          /\ next' = next + 1
          /\ UNCHANGED <<cfgVars, at, flashVars, heap, volume, ghost>>

Made(path, data, then) ==
  /\ ghost' = (ghost \/ Haunted(tbl, path))
  /\ IF Misled(tbl, path)
     THEN at' = "lost" /\ UNCHANGED <<cfgVars, flashVars, tbl, next, heap, volume>>
     ELSE /\ next' = then /\ at' = "files"
          /\ tbl' = create_file(tbl, path, data, heap)
          /\ UNCHANGED <<cfgVars, flashVars, heap, volume>>

CreateVersionCode ==
  /\ at = "dirs" /\ next > num_dir
  /\ IF code THEN Made(VersionCode, <<flashes, "version">>, 1)
     ELSE /\ at' = "files" /\ next' = 1
          /\ UNCHANGED <<cfgVars, flashVars, tbl, heap, volume, ghost>>

\* The image is not looked at: a file's data are where the files before end.
Offset == LET upto[i \in 0 .. next - 1] == IF i = 0 THEN 0 ELSE upto[i - 1] + cfgFiles[i].size
          IN upto[next - 1]
CreateFile ==
  /\ at = "files" /\ next <= max_files
  /\ IF Entry(cfgFiles, next) = NULL THEN Crash
     ELSE IF cfgFiles[next].name = NULL THEN Crash
     ELSE Made(cfgFiles[next].name, <<flashes, Offset, cfgFiles[next].size>>, next + 1)

\* "No free space!"
NoSpace == at = "files" /\ next <= max_files /\ Fail

\* The control is built and flashed, and its table freed.
Flash ==
  /\ at = "files" /\ next > max_files
  /\ Return /\ disk' = Stored(tbl) /\ heap' = tbl
  /\ want' = Meant(IF csc THEN want ELSE NoVolume, lines, flashes)
  /\ odd' = (IF csc THEN odd ELSE {}) \cup (IF Orderly(lines) THEN {} ELSE {"cfg"})
             \cup (IF ghost THEN {"ghost"} ELSE {})

(* The volume the phone has.                                                *)
Volume == Loaded(disk, Empty)
PathOf(t) ==
  LET path[i \in DOMAIN t] ==
        IF t[i].parent = NoEnt THEN <<t[i].name>> ELSE Append(path[t[i].parent], t[i].name)
  IN path
Found(t, type) == {i \in DOMAIN t : t[i].type = type}

\* The phone removes a file.  Its two entries become empty; when it was the first
\* of its list the next one still names it, for which add_entry allows.
PhoneRemoves ==
  /\ at = "idle" /\ disk # NULL /\ odd = {} /\ removals < MaxRemovals
  /\ \E i \in Found(Volume, "file") :
       LET e == Volume[i]
           head == Volume[e.parent].first = i
           cut(t) == [j \in DOMAIN t |->
             CASE j \in {i, e.comm} -> Blank
               [] j = e.prev /\ ~head -> [t[j] EXCEPT !.next = e.next]
               [] j = e.parent /\ head -> [t[j] EXCEPT !.first = e.next]
               [] j = e.next /\ ~head -> [t[j] EXCEPT !.prev = e.prev]
               [] OTHER -> t[j]]
       IN /\ disk' = Stored(cut(Volume))
          /\ want' = [want EXCEPT !.files =
               [p \in DOMAIN want.files \ {PathOf(Volume)[i]} |-> want.files[p]]]
  /\ removals' = removals + 1
  /\ UNCHANGED <<cfgVars, at, flashes, lines, csc, code, tbl, next, heap, odd, ghost>>

Patch == Parse \/ PatchStart \/ Refused \/ CreateDir \/ CreateVersionCode \/ CreateFile
         \/ NoSpace \/ Flash
Next == Begin \/ Patch \/ PhoneRemoves

Spec == Init /\ [][Next]_vars

-----------------------------------------------------------------------------
(* Every variable has its type, and so have the entries a host would read  *)
(* from the phone: links that are written as words come back as links.     *)
Link == Nat \cup {NoEnt}
IsTable(t) ==
  \A i \in DOMAIN t : /\ t[i].type \in {"null", "dir", "comm", "file"}
                      /\ {t[i].next, t[i].prev, t[i].parent, t[i].comm, t[i].first} \subseteq Link
TreeTypeOK ==
  /\ at \in {"idle", "parse", "dirs", "files", "lost"} /\ flashes \in 0 .. MaxFlashes
  /\ removals \in 0 .. MaxRemovals
  /\ mode \in {"top", "dirs", "files", "refused", "accepted"}
  /\ num_dir \in Nat /\ max_files \in Nat /\ next \in Nat
  /\ csc \in BOOLEAN /\ code \in BOOLEAN /\ ghost \in BOOLEAN
  /\ IsTable(tbl) /\ IsTable(heap) /\ (disk # NULL => IsTable(disk) /\ IsTable(Volume))
  /\ odd \subseteq {"cfg", "ghost"}

\* Every path of t, and nothing else, is in the volume vol, each file with the
\* data that were meant for it; no two entries have one path.
Describes(t, vol) ==
  LET path == PathOf(t)
  IN /\ {path[i] : i \in Found(t, "dir")} = vol.dirs
     /\ {path[i] : i \in Found(t, "file")} = DOMAIN vol.files
     /\ \A i \in Found(t, "file") : t[t[i].comm].data = vol.files[path[i]]
     /\ \A i, j \in Named(t) : path[i] = path[j] => i = j

\* The volume is the one the .cfg files describe, after every flash of a .tfs or
\* .csc and whatever the phone has removed between two: whatever files they list
\* again, and however the table has grown.
TreeRight == at = "idle" /\ disk # NULL /\ odd = {} => Describes(Volume, want)

\* A directory's list, from first along next, is its entries, and prev leads
\* back, at the first to none; two entries never share what they have in common.
ListsSound ==
  at = "idle" /\ disk # NULL /\ odd = {} =>
    LET t == Volume
        from(d) == LET to[k \in 0 .. Cardinality(DOMAIN t)] ==
                         IF k = 0 THEN t[d].first
                         ELSE IF to[k - 1] \in DOMAIN t THEN t[to[k - 1]].next ELSE NoEnt
                   IN to
    IN /\ \A d \in Found(t, "dir") :
            /\ {from(d)[k] : k \in DOMAIN from(d)} \ {NoEnt} = Children(t, d)
            /\ \A k \in DOMAIN from(d) \ {0} :
                 from(d)[k] # NoEnt => t[from(d)[k]].prev = from(d)[k - 1]
            /\ from(d)[0] # NoEnt =>
                 t[from(d)[0]].prev \notin {i \in DOMAIN t : t[i].type # "null"}
       /\ \A i \in Named(t) : t[t[i].comm].type = "comm"
       /\ \A i, j \in Named(t) : t[i].comm = t[j].comm => i = j

\* tfs4_patch keeps to its tables for every .cfg in which the counts come first
\* and are right, also where an entry table has been freed and comes back.  It
\* need not for a .csc on a volume that a wrong .cfg has built (odd), nor once
\* create_file has taken an empty entry, with what its memory held, for a file or
\* for the head of a path (ghost).
InTables == at = "lost" => ~Orderly(lines) \/ (csc /\ odd # {}) \/ ghost
=============================================================================
