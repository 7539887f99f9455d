------------------------------- MODULE QsfpPort -------------------------------
(***************************************************************************)
(* The sysfs attributes of one QSFP port                                   *)
(* (recipes-kernel/accton-csp7551-mods/files/x86-64-accton-csp7551-sfp.c). *)
(*                                                                         *)
(* Every read or write of an attribute runs in the thread that opened the  *)
(* file.  The threads share the port's private data: the presence bits     *)
(* (data->present), refreshed from the CPLDs on every access, and a cache  *)
(* of three registers of the plugged module (data->qsfp), refreshed when   *)
(* it is older than 1.5 s.  The port's mutex update_lock is held while     *)
(* either is refreshed, but they are read after it was given back.         *)
(*                                                                         *)
(* The CPLDs, the module and the passing of time are external.  A read or  *)
(* write of a register fails when all its retries did; it always fails     *)
(* when no module is plugged.                                              *)
(***************************************************************************)
EXTENDS Integers, Sequences

CONSTANTS Threads,
          Own,          \* this port (data->port)
          CpldRegs,     \* the presence registers, a sequence of sets of ports
          Lanes,        \* the lanes of the module (4)
          Modules,      \* contents a plugged module's registers may start with
          InitPlugged,  \* the ports that hold a module at the start
          Requests,     \* the accesses threads may issue (a bound on the inputs)
          Disturbances  \* what the environment may do, see below

Ports == UNION {CpldRegs[i] : i \in 1..Len(CpldRegs)}

Registers == {"TX_FAULT", "TX_DISABLE", "RX_LOS"}

(* Mutated form: two registers of the list are swapped. *)
StatusReg_Swapped(k) == <<"TX_FAULT", "RX_LOS", "TX_DISABLE">>[k + 1]

(* u8 reg[]: the register that fills status[k]. *)
StatusReg(k) == <<"TX_FAULT", "TX_DISABLE", "RX_LOS">>[k + 1]

Request == [op : {"present", "present_all", "show", "set"}, attr : Registers,
            lanes : SUBSET Lanes, disable : {"on", "off", "junk"}]

ASSUME QsfpAssumption ==
  /\ CpldRegs \in Seq(SUBSET Ports)
  /\ Own \in Ports
  /\ Modules \subseteq [Registers -> SUBSET Lanes] /\ Modules # {}
  /\ InitPlugged \subseteq Ports
  /\ Requests \subseteq Request /\ Requests # {}
  /\ Disturbances \subseteq {"swap", "flicker", "cpld_error", "eeprom_error"}

VARIABLES
  pc,       \* where each thread is
  req,      \* its access
  i,        \* its loop index
  ret,      \* what its access returns
  val,      \* the bits it shows
  lock,     \* threads that hold update_lock
  present,  \* data->present: the ports whose bit is set, a set bit says "absent"
  valid,    \* data->qsfp->valid
  recent,   \* last_updated is less than 1.5 s ago
  status,   \* data->qsfp->status[0..2]
  plugged,  \* the ports that hold a module
  regs,     \* registers of the module in this port
  plugSeen, \* history: ports that held a module at some moment of the
            \* access, until presence is decided
  disturbed \* history: another thread cleared data->present since it was read

threadVars == <<pc, req, i, ret, val>>
cacheVars  == <<valid, recent, status>>
moduleVars == <<plugged, regs>>
history    == <<plugSeen, disturbed>>
vars       == <<threadVars, lock, present, cacheVars, moduleVars, history>>

Locations == {"idle", "lock_present", "read_present", "unlock_present",
              "test_present", "check_cache", "lock_status", "notify", "fetch",
              "unlock_status", "use", "write", "unlock_set", "return"}
Returns == {"OK", "error", "ENXIO", "EINVAL"}
Locked == {"read_present", "unlock_present", "notify", "fetch", "unlock_status",
           "write", "unlock_set"}

Presence == {"lock_present", "read_present", "unlock_present", "test_present"}

NoRequest == CHOOSE r \in Requests : TRUE

MaxIndex == IF Len(CpldRegs) > 2 THEN Len(CpldRegs) ELSE 2

TypeOK ==
  /\ pc \in [Threads -> Locations]
  /\ req \in [Threads -> Requests]
  /\ i \in [Threads -> 0..MaxIndex]
  /\ ret \in [Threads -> Returns]
  /\ val \in [Threads -> SUBSET (Lanes \cup Ports)]
  /\ lock \in SUBSET Threads
  /\ present \in SUBSET Ports
  /\ valid \in BOOLEAN /\ recent \in BOOLEAN
  /\ status \in [0..2 -> SUBSET Lanes]
  /\ plugged \in SUBSET Ports
  /\ regs \in [Registers -> SUBSET Lanes]
  /\ plugSeen \in [Threads -> SUBSET Ports]
  /\ disturbed \in [Threads -> BOOLEAN]

Init ==
  /\ pc = [t \in Threads |-> "idle"]
  /\ req = [t \in Threads |-> NoRequest]
  /\ i = [t \in Threads |-> 0]
  /\ ret = [t \in Threads |-> "OK"]
  /\ val = [t \in Threads |-> {}]
  /\ lock = {}
  /\ present = {}
  /\ valid = FALSE /\ recent = FALSE
  /\ status = [k \in 0..2 |-> {}]
  /\ plugged = InitPlugged
  /\ regs \in Modules
  /\ plugSeen = [t \in Threads |-> {}]
  /\ disturbed = [t \in Threads |-> FALSE]

-----------------------------------------------------------------------------
Goto(t, l) == pc' = [pc EXCEPT ![t] = l]

(* Locals of a thread are gone once its access has returned. *)
Answer(t, r, bits) ==
  /\ Goto(t, "return")
  /\ ret' = [ret EXCEPT ![t] = r]
  /\ val' = [val EXCEPT ![t] = bits]

Acquire(t) == lock = {} /\ lock' = {t}
Release(t) == lock' = lock \ {t}

Call(t) ==
  /\ pc[t] = "idle"
  /\ \E r \in Requests : req' = [req EXCEPT ![t] = r]
  /\ Goto(t, "lock_present")
  /\ plugSeen' = [plugSeen EXCEPT ![t] = plugged]
  /\ UNCHANGED <<i, ret, val, lock, present, cacheVars, moduleVars, disturbed>>

Return(t) ==
  /\ pc[t] = "return"
  /\ Goto(t, "idle")
  /\ req' = [req EXCEPT ![t] = NoRequest]
  /\ i' = [i EXCEPT ![t] = 0]
  /\ ret' = [ret EXCEPT ![t] = "OK"]
  /\ val' = [val EXCEPT ![t] = {}]
  /\ UNCHANGED <<lock, present, cacheVars, moduleVars, history>>

-----------------------------------------------------------------------------
(* sfp_update_present reads all presence registers, _by_port the port's own. *)
OwnReg == CHOOSE k \in 1..Len(CpldRegs) : Own \in CpldRegs[k]

FirstReg(r) == IF r.op = "present_all" THEN 1 ELSE OwnReg
LastReg(r)  == IF r.op = "present_all" THEN Len(CpldRegs) ELSE OwnReg

LockPresent(t) ==
  /\ pc[t] = "lock_present"
  /\ Acquire(t)
  /\ present' = {}
  /\ i' = [i EXCEPT ![t] = FirstReg(req[t])]
  /\ Goto(t, "read_present")
  /\ disturbed' = [u \in Threads |-> IF u = t THEN FALSE
                     ELSE disturbed[u] \/ pc[u] \in {"unlock_present", "test_present"}]
  /\ UNCHANGED <<req, ret, val, cacheVars, moduleVars, plugSeen>>

(* Mutated form: a failed read counts as one without absent ports. *)
ReadPresentFails_Ignored(t) ==
  /\ pc[t] = "read_present"
  /\ "cpld_error" \in Disturbances
  /\ Goto(t, "unlock_present")
  /\ UNCHANGED <<req, i, ret, val, lock, present, cacheVars, moduleVars, history>>

ReadPresentFails(t) ==
  /\ pc[t] = "read_present"
  /\ "cpld_error" \in Disturbances
  /\ ret' = [ret EXCEPT ![t] = "error"]
  /\ Goto(t, "unlock_present")
  /\ UNCHANGED <<req, i, val, lock, present, cacheVars, moduleVars, history>>

ReadPresent(t) ==
  /\ pc[t] = "read_present"
  /\ present' = present \cup (CpldRegs[i[t]] \ plugged)
  /\ IF i[t] = LastReg(req[t])
       THEN Goto(t, "unlock_present") /\ UNCHANGED i
       ELSE i' = [i EXCEPT ![t] = @ + 1] /\ UNCHANGED pc
  /\ UNCHANGED <<req, ret, val, lock, cacheVars, moduleVars, history>>

UnlockPresent(t) ==
  /\ pc[t] = "unlock_present"
  /\ Release(t)
  /\ Goto(t, IF ret[t] = "OK" THEN "test_present" ELSE "return")
  /\ plugSeen' = [plugSeen EXCEPT ![t] = IF ret[t] = "OK" THEN @ ELSE {}]
  /\ UNCHANGED <<req, i, ret, val, present, cacheVars, moduleVars, disturbed>>

(* data->present is read after the lock was given back. *)
TestPresent(t) ==
  /\ pc[t] = "test_present"
  /\ \/ /\ req[t].op = "present"
        /\ Answer(t, "OK", {Own} \ present)
     \/ /\ req[t].op = "present_all"
        /\ Answer(t, "OK", Ports \ present)
     \/ /\ req[t].op \in {"show", "set"}
        /\ Own \in present
        /\ Answer(t, "ENXIO", {})
     \/ /\ req[t].op = "set" /\ req[t].disable = "junk"
        /\ Own \notin present
        /\ Answer(t, "EINVAL", {})
     \/ /\ req[t].op = "show" \/ (req[t].op = "set" /\ req[t].disable # "junk")
        /\ Own \notin present
        /\ Goto(t, "check_cache")
        /\ UNCHANGED <<ret, val>>
  /\ plugSeen' = [plugSeen EXCEPT ![t] = {}]
  /\ disturbed' = [disturbed EXCEPT ![t] = FALSE]
  /\ UNCHANGED <<req, i, lock, present, cacheVars, moduleVars>>

-----------------------------------------------------------------------------
(* qsfp_update_tx_rx_status: the age of the cache is tested without the lock. *)
CheckCache(t) ==
  /\ pc[t] = "check_cache"
  /\ Goto(t, IF recent /\ valid THEN "use" ELSE "lock_status")
  /\ UNCHANGED <<req, i, ret, val, lock, present, cacheVars, moduleVars, history>>

(* Mutated form: the refresh forgets to invalidate the cache first. *)
LockStatus_KeepValid(t) ==
  /\ pc[t] = "lock_status"
  /\ Acquire(t)
  /\ status' = [k \in 0..2 |-> {}]
  /\ i' = [i EXCEPT ![t] = 0]
  /\ Goto(t, "notify")
  /\ UNCHANGED <<req, ret, val, present, valid, recent, moduleVars, history>>

LockStatus(t) ==
  /\ pc[t] = "lock_status"
  /\ Acquire(t)
  /\ valid' = FALSE
  /\ status' = [k \in 0..2 |-> {}]
  /\ i' = [i EXCEPT ![t] = 0]
  /\ Goto(t, "notify")
  /\ UNCHANGED <<req, ret, val, present, recent, moduleVars, history>>

EepromFails == Own \notin plugged \/ "eeprom_error" \in Disturbances

(* Mutated form: the error path returns with the mutex held. *)
ReadFails_NoUnlock(t) ==
  /\ pc[t] \in {"notify", "fetch"}
  /\ EepromFails
  /\ ret' = [ret EXCEPT ![t] = "error"]
  /\ Goto(t, "return")
  /\ UNCHANGED <<req, i, val, lock, present, cacheVars, moduleVars, history>>

ReadFails(t) ==
  /\ pc[t] \in {"notify", "fetch"}
  /\ EepromFails
  /\ ret' = [ret EXCEPT ![t] = "error"]
  /\ Goto(t, "unlock_status")
  /\ UNCHANGED <<req, i, val, lock, present, cacheVars, moduleVars, history>>

(* The first round of reads only makes the module update its registers. *)
Notify(t) ==
  /\ pc[t] = "notify"
  /\ Own \in plugged
  /\ Goto(t, "fetch")
  /\ UNCHANGED <<req, i, ret, val, lock, present, cacheVars, moduleVars, history>>

(* Mutated form: one register too many. *)
Fetch_Overrun(t) ==
  /\ pc[t] = "fetch"
  /\ Own \in plugged
  /\ status' = [status EXCEPT ![i[t]] = regs[StatusReg(i[t])]]
  /\ i' = [i EXCEPT ![t] = @ + 1]
  /\ UNCHANGED <<pc, valid, recent>>
  /\ UNCHANGED <<req, ret, val, lock, present, moduleVars, history>>

Fetch(t) ==
  /\ pc[t] = "fetch"
  /\ Own \in plugged
  /\ status' = [status EXCEPT ![i[t]] = regs[StatusReg(i[t])]]
  /\ IF i[t] < 2
       THEN i' = [i EXCEPT ![t] = @ + 1] /\ UNCHANGED <<pc, valid, recent>>
       ELSE /\ valid' = TRUE /\ recent' = TRUE
            /\ Goto(t, "unlock_status")
            /\ UNCHANGED i
  /\ UNCHANGED <<req, ret, val, lock, present, moduleVars, history>>

(* Mutated form: only a successful refresh gives the mutex back. *)
UnlockStatus_OkOnly(t) ==
  /\ pc[t] = "unlock_status"
  /\ lock' = IF ret[t] = "OK" THEN lock \ {t} ELSE lock
  /\ Goto(t, IF ret[t] = "OK" THEN "use" ELSE "return")
  /\ UNCHANGED <<req, i, ret, val, present, cacheVars, moduleVars, history>>

UnlockStatus(t) ==
  /\ pc[t] = "unlock_status"
  /\ Release(t)
  /\ Goto(t, IF ret[t] = "OK" THEN "use" ELSE "return")
  /\ UNCHANGED <<req, i, ret, val, present, cacheVars, moduleVars, history>>

-----------------------------------------------------------------------------
(* qsfp_show_tx_rx_status: the status word an attribute is taken from. *)
ShownFrom(attr) ==
  CASE attr = "TX_FAULT"   -> 2
    [] attr = "TX_DISABLE" -> 1
    [] attr = "RX_LOS"     -> 0

(* sfp_tx_disable shows the lanes' bits, the other attributes only whether  *)
(* one of the bits is set.                                                  *)
Shown(r) ==
  LET bits == status[ShownFrom(r.attr)] \cap r.lanes
  IN IF r.attr = "TX_DISABLE" \/ bits = {} THEN bits ELSE r.lanes

Show(t) ==
  /\ pc[t] = "use"
  /\ req[t].op = "show"
  /\ Answer(t, "OK", Shown(req[t]))
  /\ UNCHANGED <<req, i, lock, present, cacheVars, moduleVars, history>>

(* Mutated form: only the asked lanes are written. *)
Disabled_Others(r, bits) == IF r.disable = "on" THEN r.lanes ELSE {}

Disabled(r, bits) ==
  IF r.disable = "on" THEN bits \cup r.lanes ELSE bits \ r.lanes

(* Mutated form: the cached word is changed without taking the lock. *)
Modify_NoLock(t) ==
  /\ pc[t] = "use"
  /\ req[t].op = "set"
  /\ lock' = lock \cup {t}
  /\ status' = [status EXCEPT ![1] = Disabled(req[t], @)]
  /\ Goto(t, "write")
  /\ UNCHANGED <<req, i, ret, val, present, valid, recent, moduleVars, history>>

(* qsfp_set_tx_disable takes the lock again and changes the cached word. *)
Modify(t) ==
  /\ pc[t] = "use"
  /\ req[t].op = "set"
  /\ Acquire(t)
  /\ status' = [status EXCEPT ![1] = Disabled(req[t], @)]
  /\ Goto(t, "write")
  /\ UNCHANGED <<req, i, ret, val, present, valid, recent, moduleVars, history>>

Write(t) ==
  /\ pc[t] = "write"
  /\ Own \in plugged
  /\ regs' = [regs EXCEPT !["TX_DISABLE"] = status[1]]
  /\ Goto(t, "unlock_set")
  /\ UNCHANGED <<req, i, ret, val, lock, present, cacheVars, plugged, history>>

(* A write that is reported as failed may have reached the module. *)
WriteFails(t) ==
  /\ pc[t] = "write"
  /\ EepromFails
  /\ ret' = [ret EXCEPT ![t] = "error"]
  /\ \/ UNCHANGED regs
     \/ /\ Own \in plugged
        /\ regs' = [regs EXCEPT !["TX_DISABLE"] = status[1]]
  /\ Goto(t, "unlock_set")
  /\ UNCHANGED <<req, i, val, lock, present, cacheVars, plugged, history>>

UnlockSet(t) ==
  /\ pc[t] = "unlock_set"
  /\ Release(t)
  /\ Goto(t, "return")
  /\ UNCHANGED <<req, i, ret, val, present, cacheVars, moduleVars, history>>

-----------------------------------------------------------------------------
(* The environment: 1.5 s pass; a module is unplugged or plugged in; the    *)
(* link is lost or comes back.                                              *)
Expire ==
  /\ recent' = FALSE
  /\ UNCHANGED <<threadVars, lock, present, valid, status, moduleVars, history>>

Swap(p) ==
  /\ "swap" \in Disturbances
  /\ IF p \in plugged
       THEN plugged' = plugged \ {p} /\ UNCHANGED regs
       ELSE /\ plugged' = plugged \cup {p}
            /\ IF p = Own THEN regs' \in Modules ELSE UNCHANGED regs
  /\ plugSeen' = [t \in Threads |-> IF pc[t] \in Presence
                                    THEN plugSeen[t] \cup plugged' ELSE {}]
  /\ UNCHANGED <<threadVars, lock, present, cacheVars, disturbed>>

Flicker ==
  /\ "flicker" \in Disturbances
  /\ Own \in plugged
  /\ regs' = [regs EXCEPT !["RX_LOS"] = Lanes \ @]
  /\ UNCHANGED <<threadVars, lock, present, cacheVars, plugged, history>>

-----------------------------------------------------------------------------
UpdatePresent(t) == LockPresent(t) \/ ReadPresent(t) \/ ReadPresentFails(t)
                    \/ UnlockPresent(t)

UpdateStatus(t) == CheckCache(t) \/ LockStatus(t) \/ Notify(t) \/ Fetch(t)
                   \/ ReadFails(t) \/ UnlockStatus(t)

SetTxDisable(t) == Modify(t) \/ Write(t) \/ WriteFails(t) \/ UnlockSet(t)

Access(t) == UpdatePresent(t) \/ TestPresent(t) \/ UpdateStatus(t) \/ Show(t)
             \/ SetTxDisable(t) \/ Return(t)

Next ==
  \/ \E t \in Threads : Call(t) \/ Access(t)
  \/ Expire
  \/ \E p \in Ports : Swap(p)
  \/ Flicker

Spec == Init /\ [][Next]_vars

(* Threads are scheduled, and the mutex hands itself to a waiter sooner or  *)
(* later; nothing is assumed of the environment.                            *)
Fairness == \A t \in Threads : SF_vars(Access(t))

FairSpec == Spec /\ Fairness

-----------------------------------------------------------------------------
(* Properties.                                                              *)

(* The mutex is held by the one thread that is between a lock and its       *)
(* unlock, on error paths too.                                              *)
LockDiscipline ==
  /\ \A t \in Threads : t \in lock <=> pc[t] \in Locked
  /\ \A t, u \in lock : t = u

(* A module that keeps answering is described correctly by a valid cache:   *)
(* tx_disable shows, and is changed from, what the register holds.          *)
CacheAgrees ==
  lock = {} /\ valid /\ Own \in plugged => status[1] = regs["TX_DISABLE"]

(* Disabling or enabling one lane leaves the others as they are in the      *)
(* module, although each access rewrites the whole register from the cache  *)
(* and gave up the lock between reading and writing it.                     *)
OtherLanesKept ==
  [][\A l \in Lanes :
       (l \in regs["TX_DISABLE"]) # (l \in regs'["TX_DISABLE"]) =>
         \E t \in Threads : pc[t] = "write" /\ l \in req[t].lanes]_vars

(* Whatever fails or is unplugged, an access that reports success for a     *)
(* module still there has set its lanes as asked.                           *)
SetTakesEffect ==
  [][\A t \in Threads :
       pc[t] = "write" /\ pc'[t] = "unlock_set" /\ ret'[t] = "OK" =>
         IF req[t].disable = "on"
           THEN req[t].lanes \subseteq regs'["TX_DISABLE"]
           ELSE req[t].lanes \cap regs'["TX_DISABLE"] = {}]_vars

(* A port is taken for present only if it held a module at some moment of   *)
(* the access, unless another access has cleared the shared bits meanwhile. *)
PresenceHonest ==
  \A t \in Threads : pc[t] = "test_present" /\ ~disturbed[t] =>
    \A k \in FirstReg(req[t])..LastReg(req[t]) :
      CpldRegs[k] \ present \subseteq plugSeen[t]

(* While a refresh is in progress, or after it failed, the cache is not     *)
(* marked valid: an interrupted refresh never serves its zeros for 1.5 s.   *)
NoHalfCache ==
  /\ (\E t \in Threads : pc[t] \in {"notify", "fetch"}) => ~valid
  /\ \A t \in Threads : pc[t] = "unlock_status" /\ ret[t] # "OK" => ~valid

(* Every access returns, whatever fails and whoever else uses the port. *)
AccessReturns == \A t \in Threads : pc[t] # "idle" ~> pc[t] = "idle"

(* A port that holds no module is never shown as present, by sfp_is_present *)
(* or sfp_is_present_all ("port is not present" is the code's own comment   *)
(* on a cleared answer).  Stated for an environment without swaps.          *)
AbsentIsNotPresent ==
  \A t \in Threads :
    pc[t] = "return" /\ ret[t] = "OK" /\ req[t].op \in {"present", "present_all"}
      => val[t] \subseteq plugged

(* sfp_tx_fault<n> shows the transmit-fault bit of the module's lane n.     *)
FaultShownIsFault ==
  \A t \in Threads :
    pc[t] = "return" /\ ret[t] = "OK" /\ req[t].op = "show" /\ req[t].attr = "TX_FAULT"
      => val[t] = regs["TX_FAULT"] \cap req[t].lanes
=============================================================================
