----------------------------- MODULE MarksCodec ------------------------------
(***************************************************************************)
(* The sector marks on the line, four to a byte: READ_SECT_MARKS packs     *)
(* (preloader/src/main.c), CSC flashing unpacks (src/main.c).              *)
(***************************************************************************)
EXTENDS Integers, Sequences

CONSTANTS NumMarks      \* TFS_SECTS, 0x7800: no byte is left that is not full

ASSUME MarksAssumption == NumMarks \in Nat /\ NumMarks % 4 = 0

VARIABLES read,         \* the marks tfs_read_mark has returned
          packed, packed_ind,
          sent,         \* the bytes sent
          sect_marks    \* what the host makes of them; empty until it does

marksVars == <<read, packed, packed_ind, sent, sect_marks>>

\* Whatever a torn write has left is a mark, too.
MarkBytes == {0, 128, 240, 255}
MarksInit == read = <<>> /\ packed = 0 /\ packed_ind = 8 /\ sent = <<>> /\ sect_marks = <<>>

BitsOf(m) == CASE m = 255 -> 3 [] m = 240 -> 2 [] OTHER -> 0

\* 1 << n, for the shifts there are.
Bit(n) == CASE n = 6 -> 64 [] n = 4 -> 16 [] n = 2 -> 4 [] OTHER -> 1

\* packed and packed_ind are kept from mark to mark; a full byte goes out.
PackMark(m) ==
  /\ Len(read) < NumMarks /\ read' = Append(read, m)
  /\ LET ind == packed_ind - 2
         byte == packed + BitsOf(m) * Bit(ind)
     IN IF ind = 0 THEN sent' = Append(sent, byte) /\ packed' = 0 /\ packed_ind' = 8
        ELSE packed' = byte /\ packed_ind' = ind /\ UNCHANGED sent
  /\ UNCHANGED sect_marks

\* Mutant: tmp_mark is shifted before it is looked at.
Shifted(i) == (sent[i \div 4 + 1] * 4 * Bit(2 * (i % 4))) % 256
\* tmp_mark, eight bits wide, when mark i is taken from it.
tmp_mark(i) == (sent[i \div 4 + 1] * Bit(2 * (i % 4))) % 256

UnpackMarks ==
  /\ Len(read) = NumMarks /\ sect_marks = <<>>
  /\ sect_marks' = [i \in 1 .. NumMarks |-> LET t == tmp_mark(i - 1)
                                            IN IF t >= 192 THEN 255
                                               ELSE IF t >= 128 THEN 240 ELSE 0]
  /\ UNCHANGED <<read, packed, packed_ind, sent>>
=============================================================================
