----------------------------- MODULE TfsConfig -------------------------------
(***************************************************************************)
(* The .cfg that comes with a .tfs or .csc, as tfs4_patch (src/tfs.c)      *)
(* reads it: line by line, into a table of directories and one of files    *)
(* that are as long as the counts seen before them say.                    *)
(*                                                                         *)
(* A line is a command [key, val]; a path is a sequence of names; a last   *)
(* line without its newline is as good as missing.                         *)
(***************************************************************************)
EXTENDS Integers, Sequences

CONSTANT NULL   \* a table that is not there, a name or a digest never read

VARIABLES cfg,         \* the lines still to read
          mode,        \* the loop the parser is in, or how it ended
          num_dir, max_files,   \* tfs_num_dir and tfs_max_files
          dirs,        \* tfs_dir_table, as far as it is filled
          cfgFiles,    \* tfs_file_table likewise: [name, size]
          name,        \* the FILE_NAME read last into the entry to fill
          md5, version

cfgVars == <<cfg, mode, num_dir, max_files, dirs, cfgFiles, name, md5, version>>

Root == <<"a">>

\* parser_reset
ParserReset(lines) ==
  /\ cfg' = lines /\ mode' = "top" /\ num_dir' = 0 /\ max_files' = 0
  /\ dirs' = NULL /\ cfgFiles' = NULL /\ name' = NULL /\ md5' = NULL /\ version' = NULL

Line == Head(cfg)
Reads(loop, key) == mode = loop /\ cfg # <<>> /\ Line.key = key /\ cfg' = Tail(cfg)

Refuse == mode' = "refused" /\ UNCHANGED <<num_dir, max_files, dirs, cfgFiles, name, md5, version>>

\* Mutant: NUM_DIR counts /a.
NumDirBare ==
  /\ Reads("top", "NUM_DIR") /\ num_dir' = Line.val
  /\ UNCHANGED <<mode, max_files, dirs, cfgFiles, name, md5, version>>

\* NUM_DIR does not count /a, which comes first.
NumDir == /\ Reads("top", "NUM_DIR") /\ num_dir' = Line.val + 1
          /\ UNCHANGED <<mode, max_files, dirs, cfgFiles, name, md5, version>>
MaxFiles == /\ Reads("top", "MAXFILES") /\ max_files' = Line.val
            /\ UNCHANGED <<mode, num_dir, dirs, cfgFiles, name, md5, version>>

SetDir == /\ Reads("top", "SET_DIR")
          /\ dirs' = <<Root>> /\ mode' = IF num_dir > 1 THEN "dirs" ELSE "top"
          /\ UNCHANGED <<num_dir, max_files, cfgFiles, name, md5, version>>
DirName == /\ Reads("dirs", "DIR_NAME")
           /\ dirs' = Append(dirs, Root \o Line.val)
           /\ mode' = IF Len(dirs') = num_dir THEN "top" ELSE "dirs"
           /\ UNCHANGED <<num_dir, max_files, cfgFiles, name, md5, version>>

SetFile == /\ Reads("top", "SET_FILE")
           /\ cfgFiles' = <<>> /\ name' = NULL
           /\ mode' = IF max_files > 0 THEN "files" ELSE "top"
           /\ UNCHANGED <<num_dir, max_files, dirs, md5, version>>
FileName == /\ Reads("files", "FILE_NAME") /\ name' = Root \o Line.val
            /\ UNCHANGED <<mode, num_dir, max_files, dirs, cfgFiles, md5, version>>
\* Mutant: the table is taken to be full one file early.
FileSizeEarly ==
  /\ Reads("files", "FILE_SIZE")
  /\ cfgFiles' = Append(cfgFiles, [name |-> name, size |-> Line.val]) /\ name' = NULL
  /\ mode' = IF Len(cfgFiles') = max_files - 1 THEN "top" ELSE "files"
  /\ UNCHANGED <<num_dir, max_files, dirs, md5, version>>
FileSize == /\ Reads("files", "FILE_SIZE")
            /\ cfgFiles' = Append(cfgFiles, [name |-> name, size |-> Line.val]) /\ name' = NULL
            /\ mode' = IF Len(cfgFiles') = max_files THEN "top" ELSE "files"
            /\ UNCHANGED <<num_dir, max_files, dirs, md5, version>>

\* "directory table incomplete", "file table incomplete"
Incomplete == (Reads("dirs", "END_DIR") \/ Reads("files", "END_FILE")) /\ Refuse

Digest == /\ Reads("top", "MD5")
          /\ IF Line.val = "short" THEN Refuse
             ELSE md5' = Line.val
                  /\ UNCHANGED <<mode, num_dir, max_files, dirs, cfgFiles, name, version>>
Version == /\ Reads("top", "TFSVERSION") /\ version' = Line.val
           /\ UNCHANGED <<mode, num_dir, max_files, dirs, cfgFiles, name, md5>>

\* Each loop passes over what it has no use for: directories and files beyond
\* their number, and the ends of tables that are full.
Known == [top |-> {"NUM_DIR", "MAXFILES", "SET_DIR", "SET_FILE", "MD5", "TFSVERSION", "END_TFS"},
          dirs |-> {"DIR_NAME", "END_DIR"},
          files |-> {"FILE_NAME", "FILE_SIZE", "END_FILE"}]
Ignore == /\ mode \in DOMAIN Known /\ cfg # <<>> /\ Line.key \notin Known[mode]
          /\ cfg' = Tail(cfg)
          /\ UNCHANGED <<mode, num_dir, max_files, dirs, cfgFiles, name, md5, version>>

UnexpectedEOF == mode \in DOMAIN Known /\ cfg = <<>> /\ Refuse /\ UNCHANGED cfg

\* END_TFS, then the digest and the version are checked, if they are given.
EndTfs == /\ Reads("top", "END_TFS")
          /\ IF md5 = "wrong" \/ version = "other" THEN Refuse
             ELSE mode' = "accepted"
                  /\ UNCHANGED <<num_dir, max_files, dirs, cfgFiles, name, md5, version>>

ParseStep == \/ NumDir \/ MaxFiles \/ SetDir \/ DirName \/ SetFile \/ FileName \/ FileSize
             \/ Incomplete \/ Digest \/ Version \/ Ignore \/ UnexpectedEOF \/ EndTfs
=============================================================================
