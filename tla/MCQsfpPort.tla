------------------------------ MODULE MCQsfpPort ------------------------------
(***************************************************************************)
(* At most two threads on one port, whose presence bit is in one of two    *)
(* registers, and modules of two lanes.  The configurations choose the     *)
(* requests and the disturbances.                                          *)
(***************************************************************************)
EXTENDS QsfpPort

CONSTANTS t1, t2, own, far

MCThreads == {t1, t2}
OneThread == {t1}
MCCpldRegs == <<{own}, {far}>>
OwnCpldReg == <<{own}>>
MCLanes == {1, 2}

MCRequest(op, attr, lanes, disable) ==
  [op |-> op, attr |-> attr, lanes |-> lanes, disable |-> disable]

Setters == {MCRequest("set", "TX_DISABLE", {1}, "on"),
            MCRequest("set", "TX_DISABLE", {2}, "on"),
            MCRequest("set", "TX_DISABLE", {1}, "off"),
            MCRequest("set", "TX_DISABLE", {1, 2}, "off")}
ShowDisable == MCRequest("show", "TX_DISABLE", {1, 2}, "on")
ShowFault == MCRequest("show", "TX_FAULT", {1}, "on")
Junk == MCRequest("set", "TX_DISABLE", {1}, "junk")
Present == MCRequest("present", "RX_LOS", {}, "on")
PresentAll == MCRequest("present_all", "RX_LOS", {}, "on")

SteadyRequests == Setters \cup {ShowDisable, Junk, PresentAll}
FaultyRequests == {MCRequest("set", "TX_DISABLE", {1}, "on"),
                   Present, PresentAll}
PresenceRequests == {Present, PresentAll}
FaultRequests == {ShowFault}

Module(fault, disable, los) ==
  [r \in Registers |-> CASE r = "TX_FAULT" -> fault
                         [] r = "TX_DISABLE" -> disable
                         [] r = "RX_LOS" -> los]

NewModule == {Module({}, {}, {})}
FaultyModule == {Module({1}, {}, {})}
=============================================================================
