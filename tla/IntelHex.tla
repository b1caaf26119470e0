------------------------------ MODULE IntelHex -------------------------------
(***************************************************************************)
(* create_ihex (src/ihex.c): the preloader as Intel HEX records, written   *)
(* one after the other, and the boot ROM that loads them as they come.  A  *)
(* record's checksum and its digits are left out.                          *)
(***************************************************************************)
EXTENDS Integers

CONSTANTS Segment,      \* 65536: what the 16 bits of a record's offset span
          RecordBytes   \* 16

ASSUME HexAssumption == Segment \in Nat \ {0} /\ RecordBytes \in Nat \ {0}

VARIABLES start, len,   \* where the image goes, and its bytes; never changed
          hex,          \* create_ihex: [offset, length, high, next]
          rom           \* the boot ROM: [upper, ram, entry]

hexVars == <<start, len, hex, rom>>

None == -1
HexInit(s, n) == /\ start = s /\ len = n
                 /\ hex = [offset |-> s, length |-> n, high |-> None, next |-> "data"]
                 /\ rom = [upper |-> 0, ram |-> <<>>, entry |-> None]

\* The ROM writes n bytes from the image's k on at an offset in its segment.
Load(offset, k, n) ==
  LET at == rom.upper * Segment + offset
  IN [rom EXCEPT !.ram = [a \in DOMAIN @ \cup at .. at + n - 1 |->
                            IF a \in at .. at + n - 1 THEN k + a - at ELSE @[a]]]

InData == hex.next = "data" /\ hex.offset < start + len
Upper == hex.offset \div Segment

\* Mutant: the upper half of the address is sent once, at the beginning.
NewUpperOnce == hex.high = None
NewUpper == hex.high # Upper

\* Type 04, when the upper half of the address is another than before.
HighRecord == /\ InData /\ NewUpper /\ hex' = [hex EXCEPT !.high = Upper]
              /\ rom' = [rom EXCEPT !.upper = Upper] /\ UNCHANGED <<start, len>>

\* Type 00; the length wraps below zero after the last, and is not used again.
DataRecord ==
  /\ InData /\ ~NewUpper
  /\ LET n == IF hex.length < RecordBytes THEN hex.length ELSE RecordBytes
     IN rom' = Load(hex.offset % Segment, len - hex.length, n)
  /\ hex' = [hex EXCEPT !.offset = @ + RecordBytes, !.length = @ - RecordBytes]
  /\ UNCHANGED <<start, len>>

\* Type 05, and then the end.
StartRecord == /\ hex.next = "data" /\ ~InData
               /\ rom' = [rom EXCEPT !.entry = start]
               /\ hex' = [hex EXCEPT !.next = "end"] /\ UNCHANGED <<start, len>>

HexStep == HighRecord \/ DataRecord \/ StartRecord
=============================================================================
