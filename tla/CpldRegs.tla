------------------------------- MODULE CpldRegs -------------------------------
(***************************************************************************)
(* The registers of the two CPLDs and the two drivers that change them:    *)
(* the CPLD driver (accton_i2c_cpld.c) through its own sysfs attributes,   *)
(* and the port driver (x86-64-accton-csp7551-sfp.c) through the functions *)
(* accton_i2c_cpld_read and _write, which look the CPLD up in a list.      *)
(*                                                                         *)
(* An attribute of a port is one bit of a register that eight ports share. *)
(* Each driver reads the register, changes the bit and writes it back, but *)
(* under different locks: the CPLD driver under the mutex of the CPLD, the *)
(* port driver under the mutex of the port.  The list's lock covers single *)
(* transfers only.  Meanwhile a CPLD may be bound to its driver and        *)
(* unbound again.  The chips, the i2c bus and sysfs are external.          *)
(***************************************************************************)
EXTENDS Integers, FiniteSets

CONSTANTS Threads,
          Initial,      \* what every register holds at the start
          ErrorBytes,   \* low bytes of the error codes of a failed transfer
          Requests,     \* the accesses threads may issue (a bound on the inputs)
          Removable,    \* the CPLDs that may be unbound from their driver
          Disturbances  \* what may go wrong, see below

PORTS_PER_REG == 8
PORTS_PER_CPLD == 16
Ports == 0..31
Cplds == 0..1
Bits  == 0..(PORTS_PER_REG - 1)
Kinds == {"reset", "lp_mode", "present"}
Registers == Kinds \X Cplds \X (0..1)

(* The port driver's attributes, and those of the CPLD driver; "access"     *)
(* writes a byte to any register of its CPLD (the present ones are inputs). *)
Attribute(drv, op, kinds) ==
  [drv : {drv}, op : {op}, kind : kinds, port : Ports, value : {"0", "1", "junk"},
   byte : SUBSET Bits]

Request ==
  UNION {Attribute("port", "show", {"reset", "lp_mode"}),
         Attribute("port", "set", {"reset", "lp_mode"}),
         Attribute("cpld", "show", {"reset", "present"}),
         Attribute("cpld", "set", {"reset"}),
         Attribute("cpld", "show_all", {"present"}),
         Attribute("cpld", "access", {"reset", "lp_mode"})}

ASSUME CpldAssumption ==
  /\ Initial \in SUBSET Bits
  /\ ErrorBytes \subseteq SUBSET Bits
  /\ Requests \subseteq Request /\ Requests # {}
  /\ Disturbances \subseteq {"error", "nomem"}
  /\ Removable \subseteq Cplds

(* The port driver finds CPLD, register and bit from the port's number,    *)
(* with a table of the four registers of each kind.                        *)
PortTarget(kind, port) ==
  <<kind, port \div PORTS_PER_CPLD, <<0, 1, 0, 1>>[port \div PORTS_PER_REG + 1]>>

(* The CPLD driver numbers its attributes from 1 on the first CPLD and from *)
(* 17 on the second; get_reg_bit counts from the kind's first register.    *)
CpldTarget(kind, number) ==
  LET cpld == IF number < 17 THEN 0 ELSE 1
      j    == IF cpld = 0 THEN number - 1 ELSE number - 17
  IN  <<kind, cpld, j \div 8>>

(* Port p of the port driver is what the front panel calls p+1. *)
Target(r) ==
  IF r.drv = "port" THEN PortTarget(r.kind, r.port)
  ELSE CpldTarget(r.kind, r.port + 1)

Bit(r)  == r.port % PORTS_PER_REG
Cpld(r) == Target(r)[2]

(* update_lock of the port, or update_lock of the CPLD. *)
LockIds == ({"port"} \X Ports) \cup ({"cpld"} \X Cplds)
LockOf(r) == IF r.drv = "port" THEN <<"port", r.port>> ELSE <<"cpld", Cpld(r)>>

(* What a read of the attribute shows for the register's bits: the CPLD    *)
(* driver inverts, the port driver does not.                               *)
Shown(r, bits) == IF (Bit(r) \in bits) <=> (r.drv = "port") THEN "1" ELSE "0"

(* The register with the attribute's bit changed as asked. *)
Modified(r, bits) == IF (r.value = "1") <=> (r.drv = "port")
                     THEN bits \cup {Bit(r)} ELSE bits \ {Bit(r)}

VARIABLES
  pc,       \* where each thread is
  req,      \* its access
  i,        \* loop index of module_present_all
  ret,      \* what its access returns
  val,      \* the byte it read, or is about to write
  found,    \* the list holds the CPLD it looks for
  lock,     \* per mutex, the threads that hold it
  listLock, \* threads or CPLDs (probe, remove) that hold list_lock
  regs,     \* the registers
  life,     \* per CPLD, how far its probe or remove came
  listed,   \* the CPLDs on cpld_client_list
  readOk,   \* history: the thread's read succeeded
  wroteOk,  \* history: the thread's write succeeded
  since     \* history: the mutexes under which others wrote the thread's
            \* register since its last transfer

threadVars == <<pc, req, i, ret, val, found>>
lockVars   == <<lock, listLock>>
lifeVars   == <<life, listed>>
history    == <<readOk, wroteOk, since>>
vars       == <<threadVars, lockVars, regs, lifeVars, history>>

NoRequest == CHOOSE r \in Requests : TRUE

Locations == {"idle", "lock", "find_read", "read", "find_write", "write",
              "unlock", "return"}
Lives == {"unbound", "group", "unwind", "hwmon", "bound", "drain", "drained"}

TypeOK ==
  /\ pc \in [Threads -> Locations]
  /\ req \in [Threads -> Requests]
  /\ i \in [Threads -> 0..1]
  /\ ret \in [Threads -> {"OK", "error", "EINVAL"}]
  /\ val \in [Threads -> SUBSET Bits]
  /\ found \in [Threads -> BOOLEAN]
  /\ lock \in [LockIds -> SUBSET Threads]
  /\ listLock \in SUBSET Threads
  /\ regs \in [Registers -> SUBSET Bits]
  /\ life \in [Cplds -> Lives]
  /\ listed \in SUBSET Cplds
  /\ readOk \in [Threads -> BOOLEAN]
  /\ wroteOk \in [Threads -> BOOLEAN]
  /\ since \in [Threads -> SUBSET LockIds]

Init ==
  /\ pc = [t \in Threads |-> "idle"]
  /\ req = [t \in Threads |-> NoRequest]
  /\ i = [t \in Threads |-> 0]
  /\ ret = [t \in Threads |-> "OK"]
  /\ val = [t \in Threads |-> {}]
  /\ found = [t \in Threads |-> FALSE]
  /\ lock = [l \in LockIds |-> {}] /\ listLock = {}
  /\ regs = [r \in Registers |-> Initial]
  /\ life = [c \in Cplds |-> "bound"]
  /\ listed = Cplds
  /\ readOk = [t \in Threads |-> FALSE]
  /\ wroteOk = [t \in Threads |-> FALSE]
  /\ since = [t \in Threads |-> {}]

-----------------------------------------------------------------------------
Goto(t, l) == pc' = [pc EXCEPT ![t] = l]

Own(t) == LockOf(req[t])
Acquire(t) == lock[Own(t)] = {} /\ lock' = [lock EXCEPT ![Own(t)] = {t}]
Release(t) == lock' = [lock EXCEPT ![Own(t)] = @ \ {t}]

(* The CPLD driver's attributes exist: sysfs lets accesses start. *)
Active(c) == life[c] \in {"group", "hwmon", "bound"}

(* Accesses of the CPLD driver's attributes that sysfs still waits for. *)
InAttribute(c) == {t \in Threads : /\ pc[t] # "idle" /\ req[t].drv = "cpld"
                                   /\ Cpld(req[t]) = c}

(* A value that does not parse is refused before any lock is taken. *)
Call(t) ==
  /\ pc[t] = "idle"
  /\ \E r \in Requests :
       /\ r.drv = "cpld" => Active(Cpld(r))
       /\ req' = [req EXCEPT ![t] = r]
       /\ IF r.op \in {"set", "access"} /\ r.value = "junk"
          THEN Goto(t, "return") /\ ret' = [ret EXCEPT ![t] = "EINVAL"]
          ELSE Goto(t, "lock") /\ UNCHANGED ret
  /\ UNCHANGED <<i, val, found, lockVars, regs, lifeVars, history>>

Lock(t) ==
  /\ pc[t] = "lock"
  /\ Acquire(t)
  /\ Goto(t, CASE req[t].drv = "port" -> "find_read"
               [] req[t].op = "access" -> "write"
               [] OTHER -> "read")
  /\ val' = [val EXCEPT ![t] = req[t].byte]
  /\ UNCHANGED <<req, i, ret, found, listLock, regs, lifeVars, history>>

(* accton_i2c_cpld_read and _write take list_lock, look the address up and *)
(* keep the lock during the transfer.                                      *)
Find(t) ==
  /\ pc[t] \in {"find_read", "find_write"}
  /\ listLock = {} /\ listLock' = {t}
  /\ found' = [found EXCEPT ![t] = Cpld(req[t]) \in listed]
  /\ Goto(t, IF pc[t] = "find_read" THEN "read" ELSE "write")
  /\ UNCHANGED <<req, i, ret, val, lock, regs, lifeVars, history>>

(* Where a thread goes with the byte it read.  Neither driver notices that *)
(* the read failed: the port driver keeps the result in a u8, set_1bit     *)
(* tests the result of kstrtol instead, and show_bit tests nothing.        *)
AfterRead(t, byte) ==
  /\ CASE req[t].op = "set" /\ req[t].drv = "port" -> Goto(t, "find_write")
       [] req[t].op = "set" /\ req[t].drv = "cpld" -> Goto(t, "write")
       [] req[t].op = "show_all" /\ i[t] = 0       -> Goto(t, "read")
       [] OTHER                                    -> Goto(t, "unlock")
  /\ i' = [i EXCEPT ![t] = IF req[t].op = "show_all" THEN 1 ELSE @]
  /\ val' = [val EXCEPT ![t] = IF req[t].op = "set" THEN Modified(req[t], byte) ELSE byte]
  /\ listLock' = listLock \ {t}
  /\ since' = [since EXCEPT ![t] = {}]
  /\ UNCHANGED <<req, ret, found, lock, regs, lifeVars, wroteOk>>

(* module_present_all reads the registers one after the other. *)
ReadFrom(t) == IF req[t].op = "show_all" THEN <<"present", Cpld(req[t]), i[t]>>
               ELSE Target(req[t])

(* The CPLD driver holds a client, the port driver may have found none. *)
HasClient(t) == req[t].drv = "port" => found[t]

Read(t) ==
  /\ pc[t] = "read" /\ HasClient(t)
  /\ AfterRead(t, regs[ReadFrom(t)])
  /\ readOk' = [readOk EXCEPT ![t] = TRUE]

(* Mutated form: a read that fails is tried again without a limit. *)
ReadFails_Forever(t) ==
  /\ pc[t] = "read" /\ HasClient(t) /\ "error" \in Disturbances
  /\ Release(t)
  /\ listLock' = listLock \ {t}
  /\ Goto(t, "lock")
  /\ UNCHANGED <<req, i, ret, val, found, regs, lifeVars, history>>

(* All the tries of cpld_read_internal failed, or the port driver's one. *)
ReadFails(t) ==
  /\ pc[t] = "read" /\ HasClient(t) /\ "error" \in Disturbances
  /\ \E e \in ErrorBytes : AfterRead(t, e)
  /\ readOk' = [readOk EXCEPT ![t] = FALSE]

(* Mutated form: the result of the read keeps the width of an int. *)
ReadNoClient_Int(t) ==
  /\ pc[t] = "read" /\ ~HasClient(t)
  /\ AfterRead(t, 0..31)
  /\ readOk' = [readOk EXCEPT ![t] = FALSE]

(* The CPLD is not on the list: -EPERM, whose low byte is 0xFF. *)
ReadNoClient(t) ==
  /\ pc[t] = "read" /\ ~HasClient(t)
  /\ AfterRead(t, Bits)
  /\ readOk' = [readOk EXCEPT ![t] = FALSE]

-----------------------------------------------------------------------------
(* u is in a set and has read its register. *)
HasRead(u) == req[u].op = "set" /\ pc[u] \in {"find_write", "write", "unlock"}

(* The write of t's byte reached the chip. *)
Store(t) ==
  LET target == Target(req[t])
  IN  /\ regs' = [regs EXCEPT ![target] = val[t]]
      /\ since' = [u \in Threads |->
                     IF u = t THEN {}
                     ELSE IF Target(req[u]) = target /\ HasRead(u)
                     THEN since[u] \cup {Own(t)} ELSE since[u]]

EndWrite(t, r) ==
  /\ Goto(t, "unlock")
  /\ ret' = [ret EXCEPT ![t] = r]
  /\ val' = [val EXCEPT ![t] = {}]
  /\ found' = [found EXCEPT ![t] = FALSE]
  /\ listLock' = listLock \ {t}
  /\ UNCHANGED <<req, i, lock, lifeVars, readOk>>

(* Mutated form: the CPLD's mutex is given back before the write. *)
Write_Unlocked(t) ==
  /\ pc[t] = "write" /\ HasClient(t)
  /\ IF req[t].drv = "cpld" /\ t \in lock[Own(t)]
     THEN /\ Release(t)
          /\ UNCHANGED <<threadVars, listLock, regs, lifeVars, history>>
     ELSE /\ Store(t)
          /\ EndWrite(t, "OK")
          /\ wroteOk' = [wroteOk EXCEPT ![t] = TRUE]

Write(t) ==
  /\ pc[t] = "write" /\ HasClient(t)
  /\ Store(t)
  /\ EndWrite(t, "OK")
  /\ wroteOk' = [wroteOk EXCEPT ![t] = TRUE]

(* cpld_write_internal tries ten times and sleeps in between, with the      *)
(* mutex held: an attempt that failed may have reached the chip as well.    *)
(* One that did not changes nothing.                                        *)
WriteRetry(t) ==
  /\ pc[t] = "write" /\ req[t].drv = "cpld" /\ "error" \in Disturbances
  /\ Store(t)
  /\ UNCHANGED <<threadVars, lockVars, lifeVars, readOk, wroteOk>>

(* Mutated form: the CPLD driver ignores the result of its write as well. *)
WriteFails_Ignored(t) ==
  /\ pc[t] = "write" /\ HasClient(t) /\ "error" \in Disturbances
  /\ Store(t) \/ UNCHANGED <<regs, since>>
  /\ EndWrite(t, "OK")
  /\ UNCHANGED wroteOk

(* The last attempt failed, or the port driver's only one, and may have     *)
(* reached the chip.  The port driver ignores the result, the CPLD driver   *)
(* returns it.                                                              *)
WriteFails(t) ==
  /\ pc[t] = "write" /\ HasClient(t) /\ "error" \in Disturbances
  /\ Store(t) \/ UNCHANGED <<regs, since>>
  /\ EndWrite(t, IF req[t].drv = "port" THEN "OK" ELSE "error")
  /\ UNCHANGED wroteOk

(* -EIO of accton_i2c_cpld_write, ignored. *)
WriteNoClient(t) ==
  /\ pc[t] = "write" /\ ~HasClient(t)
  /\ EndWrite(t, "OK")
  /\ UNCHANGED <<regs, since, wroteOk>>

(* Mutated form: the mutex is kept when an error is returned. *)
Unlock_OkOnly(t) ==
  /\ pc[t] = "unlock"
  /\ IF ret[t] = "error" THEN UNCHANGED lock ELSE Release(t)
  /\ Goto(t, "return")
  /\ UNCHANGED <<req, i, ret, val, found, listLock, regs, lifeVars, history>>

Unlock(t) ==
  /\ pc[t] = "unlock"
  /\ Release(t)
  /\ Goto(t, "return")
  /\ UNCHANGED <<req, i, ret, val, found, listLock, regs, lifeVars, history>>

(* Locals of a thread are gone once its access has returned. *)
Return(t) ==
  /\ pc[t] = "return"
  /\ Goto(t, "idle")
  /\ req' = [req EXCEPT ![t] = NoRequest]
  /\ i' = [i EXCEPT ![t] = 0]
  /\ ret' = [ret EXCEPT ![t] = "OK"]
  /\ val' = [val EXCEPT ![t] = {}]
  /\ found' = [found EXCEPT ![t] = FALSE]
  /\ readOk' = [readOk EXCEPT ![t] = FALSE]
  /\ wroteOk' = [wroteOk EXCEPT ![t] = FALSE]
  /\ since' = [since EXCEPT ![t] = {}]
  /\ UNCHANGED <<lockVars, regs, lifeVars>>

Transfer(t) ==
  \/ Read(t) \/ ReadFails(t) \/ ReadNoClient(t)
  \/ Write(t) \/ WriteFails(t) \/ WriteNoClient(t)

Access(t) == Lock(t) \/ Find(t) \/ Transfer(t) \/ Unlock(t) \/ Return(t)

-----------------------------------------------------------------------------
(* Probe and remove of a CPLD. *)
Live(c, from, to) == life[c] = from /\ life' = [life EXCEPT ![c] = to]

BusUnchanged == UNCHANGED <<threadVars, lockVars, regs, history>>

(* sysfs_create_group *)
ProbeGroup(c) == Live(c, "unbound", "group") /\ BusUnchanged /\ UNCHANGED listed

(* hwmon_device_register *)
ProbeHwmon(c) == Live(c, "group", "hwmon") /\ BusUnchanged /\ UNCHANGED listed

ProbeHwmonFails(c) ==
  /\ "nomem" \in Disturbances
  /\ Live(c, "group", "unwind") /\ BusUnchanged /\ UNCHANGED listed

(* exit_remove: sysfs_remove_group waits for the accesses that are inside. *)
ProbeUnwind(c) ==
  /\ InAttribute(c) = {}
  /\ Live(c, "unwind", "unbound") /\ BusUnchanged /\ UNCHANGED listed

(* accton_i2c_cpld_add_client; without memory it returns and says nothing. *)
ProbeAddClient(c) ==
  /\ listLock = {}
  /\ Live(c, "hwmon", "bound") /\ BusUnchanged
  /\ listed' = listed \cup {c} \/ ("nomem" \in Disturbances /\ UNCHANGED listed)

Remove(c) ==
  /\ c \in Removable
  /\ Live(c, "bound", "drain") /\ BusUnchanged /\ UNCHANGED listed

RemoveGroup(c) ==
  /\ InAttribute(c) = {}
  /\ Live(c, "drain", "drained") /\ BusUnchanged /\ UNCHANGED listed

(* Mutated form: the client is taken off the list without its lock. *)
RemoveClient_NoLock(c) ==
  /\ Live(c, "drained", "unbound") /\ BusUnchanged
  /\ listed' = listed \ {c}

(* accton_i2c_cpld_remove_client *)
RemoveClient(c) ==
  /\ listLock = {}
  /\ Live(c, "drained", "unbound") /\ BusUnchanged
  /\ listed' = listed \ {c}

Finish(c) ==
  \/ ProbeHwmon(c) \/ ProbeUnwind(c) \/ ProbeAddClient(c)
  \/ RemoveGroup(c) \/ RemoveClient(c)

Next ==
  \/ \E t \in Threads : Call(t) \/ Access(t) \/ WriteRetry(t)
  \/ \E c \in Cplds : ProbeGroup(c) \/ ProbeHwmonFails(c) \/ Remove(c) \/ Finish(c)

Spec == Init /\ [][Next]_vars

(* Threads are scheduled, and a mutex is not withheld from a waiter for    *)
(* ever; the same holds of the task that probes or removes a CPLD.  The    *)
(* tenth attempt of a write is the last: WriteRetry is not repeated for    *)
(* ever, and Access is owed a step.                                        *)
Fairness == /\ \A t \in Threads : SF_vars(Access(t))
            /\ \A c \in Removable : SF_vars(Finish(c))

FairSpec == Spec /\ Fairness

-----------------------------------------------------------------------------
(* Properties.                                                              *)

(* update_lock of a port or CPLD is held by the one thread that is between *)
(* its lock and its unlock, and list_lock by the one that is in a transfer *)
(* of the port driver, on error paths too.                                 *)
LockDiscipline ==
  /\ \A t \in Threads, l \in LockIds :
       t \in lock[l] <=> /\ l = Own(t)
                         /\ pc[t] \in {"find_read", "read", "find_write", "write", "unlock"}
  /\ \A t \in Threads :
       t \in listLock <=> req[t].drv = "port" /\ pc[t] \in {"read", "write"}
  /\ \A t, u \in listLock : t = u
  /\ \A l \in LockIds : \A t, u \in lock[l] : t = u

(* A CPLD's client is only used while its driver is bound: the port driver *)
(* never transfers to a client that remove took off the list, and remove   *)
(* does not go on while an attribute of the CPLD is being accessed.        *)
NoTransferToGone ==
  \A t \in Threads :
    /\ pc[t] \in {"read", "write"} /\ req[t].drv = "port" /\ found[t]
         => /\ Cpld(req[t]) \in listed
            /\ life[Cpld(req[t])] \in {"bound", "drain", "drained"}
    /\ pc[t] # "idle" /\ req[t].drv = "cpld"
         => life[Cpld(req[t])] \notin {"unbound", "drained"}

(* Between its read of a register and its write, a thread's byte becomes   *)
(* stale only by accesses under another mutex than its own: two accesses   *)
(* of one CPLD's attributes, or of one port's, never undo each other.      *)
OwnLockSerialises ==
  \A t \in Threads :
    pc[t] \in {"find_write", "write"} /\ req[t].op = "set" =>
      /\ Own(t) \notin since[t]
      /\ readOk[t] /\ since[t] = {} =>
           val[t] = Modified(req[t], regs[Target(req[t])])

(* A set that reports success, and whose register nobody wrote since, has  *)
(* set what a read of the same attribute shows.  The port driver ignores   *)
(* that its write failed; of it only successful transfers are claimed.     *)
SetTakesEffect ==
  \A t \in Threads :
    /\ pc[t] = "unlock" /\ req[t].op = "set" /\ ret[t] = "OK" /\ since[t] = {}
    /\ req[t].drv = "port" => wroteOk[t]
    => Shown(req[t], regs[Target(req[t])]) = req[t].value

(* A set whose read failed writes nothing: the other ports' bits of the    *)
(* register are not known (set_1bit leaves on a negative status, and a     *)
(* reading is "Negative if there was a read error").                       *)
FailedReadWritesNothing ==
  \A t \in Threads : pc[t] = "write" /\ req[t].op = "set" => readOk[t]

(* Every access comes back: no order of the mutexes and no removal of a    *)
(* CPLD makes it wait for ever.                                            *)
AccessReturns == \A t \in Threads : pc[t] # "idle" ~> pc[t] = "idle"

(* A remove that has begun ends, whatever accesses go on. *)
RemoveEnds == \A c \in Cplds : life[c] = "drain" ~> life[c] = "unbound"
=============================================================================
