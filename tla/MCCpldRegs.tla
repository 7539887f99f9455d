------------------------------ MODULE MCCpldRegs ------------------------------
(***************************************************************************)
(* Two threads and ports 0 and 1, which share a register, and port 24 on   *)
(* the other CPLD.                                                         *)
(***************************************************************************)
EXTENDS CpldRegs

CONSTANTS t1, t2

MCThreads == {t1, t2}
MCInitial == {0}
MCErrorBytes == {{0, 1, 2, 3, 4, 5, 6, 7}}   \* -EPERM

MCRequest(drv, op, kind, port, value) ==
  [drv |-> drv, op |-> op, kind |-> kind, port |-> port, value |-> value, byte |-> {}]

CpldSet == {MCRequest("cpld", "set", "reset", 1, "0")}

MCRequests == CpldSet \cup
  {MCRequest("port", "set", "reset", 0, "0"),
   MCRequest("cpld", "show_all", "present", 0, "1"),
   MCRequest("cpld", "access", "reset", 0, "1"),
   MCRequest("cpld", "access", "reset", 24, "junk")}
=============================================================================
