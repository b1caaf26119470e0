----------------------------- MODULE MCTfsTree ------------------------------
(***************************************************************************)
(* .cfg files for TLC, on a table that grows by a few entries.             *)
(***************************************************************************)
EXTENDS TfsTree

L(k, v) == [key |-> k, val |-> v]
Counts(n, m) == <<L("MD5", "right"), L("TFSVERSION", "corona"), L("NUM_DIR", n), L("MAXFILES", m)>>
DirTable(ds) == <<L("SET_DIR", 0)>> \o [i \in DOMAIN ds |-> L("DIR_NAME", ds[i])]
                \o <<L("END_DIR", 0)>>
FileTable(fs) ==
  <<L("SET_FILE", 0)>>
  \o FlattenSeq([i \in DOMAIN fs |-> <<L("FILE_NAME", fs[i]), L("FILE_SIZE", i)>>])
  \o <<L("END_FILE", 0)>>
Done == <<L("END_TFS", 0)>>
Plain(ds, fs) == Counts(Len(ds), Len(fs)) \o DirTable(ds) \o FileTable(fs) \o Done

\* A volume, one that adds to it and repeats a file, and one without either.
Whole == Plain(<<<<"d">>, <<"d", "e">>>>, <<<<"f">>, <<"d", "f">>, <<"d", "e", "g">>>>)
More == Plain(<<<<"d">>>>, <<<<"d", "g">>, <<"f">>>>)
Bare == Plain(<<>>, <<>>)

\* Counts that are wrong or come too late, a directory after what is in it, a
\* wrong digest, another version, tables and files cut short.
Odd == {
  DirTable(<<<<"d">>>>) \o Counts(1, 0) \o Done,
  Counts(1, 1) \o FileTable(<<<<"f">>>>) \o Done,
  Counts(0, 1) \o DirTable(<<<<"d">>>>) \o FileTable(<<<<"d", "f">>>>) \o Done,
  Plain(<<<<"d", "e">>, <<"d">>>>, <<<<"d", "e">>>>),
  Counts(2, 1) \o DirTable(<<<<"d">>>>) \o Done,
  Counts(0, 2) \o DirTable(<<>>) \o FileTable(<<<<"f">>>>) \o Done,
  Counts(0, 1) \o DirTable(<<>>) \o <<L("SET_FILE", 0), L("FILE_SIZE", 1)>> \o Done,
  <<L("MD5", "wrong")>> \o Done, <<L("MD5", "short")>> \o Done,
  <<L("TFSVERSION", "other")>> \o Done, DirTable(<<>>)}

AllCfgs == {Whole, More, Bare} \cup Odd
=============================================================================
