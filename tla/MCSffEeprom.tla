----------------------------- MODULE MCSffEeprom -----------------------------
(***************************************************************************)
(* Halves and pages of four bytes, the lower half, upper page 0 and two    *)
(* more pages.  One thread reads and writes, the other reads a byte.       *)
(***************************************************************************)
EXTENDS SffEeprom

CONSTANTS t1, t2

MCThreads == {t1, t2}
OneThread == {t1}

MCRequest(op, off, len, select) ==
  [op |-> op, off |-> off, len |-> len, select |-> select]

(* Within a half, across halves, from a half into pages, pages only, beyond *)
(* the pages of a flat module, up to the end; odd and even lengths.        *)
Reads == {MCRequest("read", 2, 1, 0), MCRequest("read", 3, 4, 0),
          MCRequest("read", 1, 8, 0),
          MCRequest("read", 0, 9, 0), MCRequest("read", 5, 8, 0),
          MCRequest("read", 6, 10, 0), MCRequest("read", 8, 3, 0),
          MCRequest("read", 10, 5, 0)}
Writes == {MCRequest("write", 2, 4, 2), MCRequest("write", 7, 3, 0)}

MCRequests == [t \in MCThreads |->
                 IF t = t1 THEN Reads \cup Writes
                 ELSE {MCRequest("read", 13, 1, 0)}]
LongRead == [t \in OneThread |-> {MCRequest("read", 6, 4, 0)}]
=============================================================================
