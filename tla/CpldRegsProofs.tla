---------------------------- MODULE CpldRegsProofs ----------------------------
(***************************************************************************)
(* What the locks of the CPLD registers achieve, for any threads, requests *)
(* and error codes, any CPLDs that may be unbound, and whatever fails.     *)
(***************************************************************************)
EXTENDS CpldRegs, TLAPS

(* Where a thread holds the mutex of its port or CPLD. *)
Holding == {"find_read", "read", "find_write", "write", "unlock"}

(* Only a bound CPLD is on the list. *)
ListedLive == \A c \in listed : life[c] \in {"bound", "drain", "drained"}

(* A set that got past its first test has a value, and once it has read, a *)
(* byte with its bit changed; its write is still to come.                  *)
SetInvOf(t) ==
  /\ pc[t] \in Holding \cup {"lock"} /\ req[t].op = "set" => req[t].value # "junk"
  /\ pc[t] \in {"find_write", "write"} /\ req[t].op = "set" =>
       \E byte \in SUBSET Bits : val[t] = Modified(req[t], byte)
  /\ pc[t] \notin {"unlock", "return"} => ~wroteOk[t]
  /\ pc[t] \in {"find_read", "find_write"} => req[t].drv = "port" /\ req[t].op # "show_all"

SetInv == \A t \in Threads : SetInvOf(t)

IInv == /\ TypeOK /\ LockDiscipline /\ ListedLive /\ NoTransferToGone
        /\ SetInv /\ OwnLockSerialises /\ SetTakesEffect
-----------------------------------------------------------------------------
LEMMA NoRequestType == NoRequest \in Requests
  BY CpldAssumption DEF NoRequest

LEMMA RequestType ==
  ASSUME NEW r \in Requests
  PROVE  /\ r.drv \in {"port", "cpld"} /\ r.op \in {"show", "show_all", "set", "access"}
         /\ r.drv = "port" => r.op \in {"show", "set"}
         /\ r.kind \in Kinds /\ r.port \in 0..31
         /\ r.value \in {"0", "1", "junk"} /\ r.byte \in SUBSET Bits
  BY CpldAssumption DEF Request, Attribute, Ports, Kinds

(* Port p of the port driver and attribute p+1 of the CPLD driver are one   *)
(* bit of one register.                                                    *)
THEOREM SameRegister ==
  ASSUME NEW kind, NEW p \in Ports
  PROVE  PortTarget(kind, p) = CpldTarget(kind, p + 1)
<1>1. CASE p \in 0..7
  BY <1>1 DEF PortTarget, CpldTarget, PORTS_PER_CPLD, PORTS_PER_REG
<1>2. CASE p \in 8..15
  BY <1>2 DEF PortTarget, CpldTarget, PORTS_PER_CPLD, PORTS_PER_REG
<1>3. CASE p \in 16..23
  BY <1>3 DEF PortTarget, CpldTarget, PORTS_PER_CPLD, PORTS_PER_REG
<1>4. CASE p \in 24..31
  BY <1>4 DEF PortTarget, CpldTarget, PORTS_PER_CPLD, PORTS_PER_REG
<1>5. QED
  BY <1>1, <1>2, <1>3, <1>4 DEF Ports

LEMMA TargetType ==
  ASSUME NEW r \in Requests
  PROVE  Target(r) \in Registers /\ Cpld(r) \in Cplds /\ LockOf(r) \in LockIds
         /\ Bit(r) \in Bits
<1>1. /\ r.kind \in Kinds /\ r.port \in Ports
      /\ r.drv \in {"port", "cpld"}
  BY RequestType DEF Ports
<1>2. Target(r) = PortTarget(r.kind, r.port)
  BY <1>1, SameRegister DEF Target
<1>3. /\ r.port \div 16 \in 0..1
      /\ r.port \div 8 + 1 \in 1..4
  BY <1>1 DEF Ports
<1>4. <<0, 1, 0, 1>>[r.port \div 8 + 1] \in 0..1
  BY <1>3
<1>5. Target(r) \in Registers /\ Cpld(r) \in Cplds
  BY <1>1, <1>2, <1>3, <1>4
     DEF PortTarget, Registers, Cpld, Cplds, PORTS_PER_CPLD, PORTS_PER_REG
<1>6. Bit(r) \in Bits
  BY <1>1 DEF Bit, Bits, Ports, PORTS_PER_REG
<1>7. QED
  BY <1>1, <1>5, <1>6 DEF LockOf, LockIds

LEMMA ModifiedType ==
  ASSUME NEW r \in Requests, NEW bits \in SUBSET Bits
  PROVE  Modified(r, bits) \in SUBSET Bits
  BY TargetType DEF Modified

(* An attempt to write that is repeated writes the same byte.               *)
LEMMA ModifiedTwice ==
  ASSUME NEW r \in Requests, NEW bits \in SUBSET Bits
  PROVE  Modified(r, Modified(r, bits)) = Modified(r, bits)
  BY TargetType DEF Modified

(* A set shows what it was asked to set, in the sense of its own driver.    *)
LEMMA ModifiedShown ==
  ASSUME NEW r \in Requests, NEW bits \in SUBSET Bits, r.value # "junk"
  PROVE  Shown(r, Modified(r, bits)) = r.value
  BY RequestType DEF Modified, Shown

-----------------------------------------------------------------------------
LEMMA AfterReadType ==
  ASSUME TypeOK, NEW t \in Threads, NEW byte \in SUBSET Bits, AfterRead(t, byte),
         readOk' \in [Threads -> BOOLEAN]
  PROVE  TypeOK'
<1>1. req[t] \in Requests
  BY DEF TypeOK
<1>2. Modified(req[t], byte) \in SUBSET Bits
  BY <1>1, ModifiedType
<1>3. val' \in [Threads -> SUBSET Bits]
  BY <1>2 DEF AfterRead, TypeOK
<1>4. pc' \in [Threads -> Locations]
  BY DEF AfterRead, TypeOK, Goto, Locations
<1>5. i' \in [Threads -> 0..1] /\ since' \in [Threads -> SUBSET LockIds]
  BY DEF AfterRead, TypeOK
<1>6. listLock' \in SUBSET Threads
  BY DEF AfterRead, TypeOK
<1>7. QED
  BY <1>3, <1>4, <1>5, <1>6 DEF AfterRead, TypeOK, lifeVars

LEMMA StoreType ==
  ASSUME TypeOK, NEW t \in Threads, Store(t)
  PROVE  regs' \in [Registers -> SUBSET Bits] /\ since' \in [Threads -> SUBSET LockIds]
<1>1. Target(req[t]) \in Registers /\ Own(t) \in LockIds /\ val[t] \in SUBSET Bits
  BY TargetType DEF TypeOK, Own
<1>2. QED
  BY <1>1 DEF Store, TypeOK

LEMMA EndWriteType ==
  ASSUME TypeOK, NEW t \in Threads, NEW r \in {"OK", "error"}, EndWrite(t, r),
         regs' \in [Registers -> SUBSET Bits], since' \in [Threads -> SUBSET LockIds],
         wroteOk' \in [Threads -> BOOLEAN]
  PROVE  TypeOK'
  BY DEF EndWrite, TypeOK, Goto, Locations, lifeVars

LEMMA NextType == TypeOK /\ [Next]_vars => TypeOK'
<1> SUFFICES ASSUME TypeOK, [Next]_vars PROVE TypeOK'
  OBVIOUS
<1> USE NoRequestType, CpldAssumption
<1>1. ASSUME NEW t \in Threads, Call(t) PROVE TypeOK'
  BY <1>1 DEF Call, Goto, TypeOK, Locations, lockVars, lifeVars, history
<1>2. ASSUME NEW t \in Threads, Lock(t) PROVE TypeOK'
  <2>1. Own(t) \in LockIds /\ req[t].byte \in SUBSET Bits
    BY TargetType, RequestType DEF TypeOK, Own
  <2>2. lock' \in [LockIds -> SUBSET Threads] /\ val' \in [Threads -> SUBSET Bits]
    BY <1>2, <2>1 DEF Lock, Acquire, TypeOK
  <2>3. pc' \in [Threads -> Locations]
    BY <1>2 DEF Lock, Goto, TypeOK, Locations
  <2>4. QED
    BY <1>2, <2>2, <2>3 DEF Lock, TypeOK, lifeVars, history
<1>3. ASSUME NEW t \in Threads, Find(t) PROVE TypeOK'
  BY <1>3 DEF Find, Goto, TypeOK, Locations, lifeVars, history
<1>4. ASSUME NEW t \in Threads, Read(t) PROVE TypeOK'
  <2>1. ReadFrom(t) \in Registers
    BY TargetType DEF ReadFrom, TypeOK, Registers, Kinds
  <2>2. regs[ReadFrom(t)] \in SUBSET Bits
    BY <2>1 DEF TypeOK
  <2>3. QED
    BY <1>4, <2>2, AfterReadType DEF Read, TypeOK
<1>5. ASSUME NEW t \in Threads, ReadFails(t) PROVE TypeOK'
  <2>1. PICK e \in ErrorBytes : AfterRead(t, e)
    BY <1>5 DEF ReadFails
  <2>2. QED
    BY <1>5, <2>1, AfterReadType DEF ReadFails, TypeOK
<1>6. ASSUME NEW t \in Threads, ReadNoClient(t) PROVE TypeOK'
  BY <1>6, AfterReadType DEF ReadNoClient, TypeOK
<1>7. ASSUME NEW t \in Threads, Write(t) PROVE TypeOK'
  BY <1>7, StoreType, EndWriteType DEF Write, TypeOK
<1>8. ASSUME NEW t \in Threads, WriteFails(t) PROVE TypeOK'
  <2>1. regs' \in [Registers -> SUBSET Bits] /\ since' \in [Threads -> SUBSET LockIds]
    BY <1>8, StoreType DEF WriteFails, TypeOK
  <2>2. QED
    BY <1>8, <2>1, EndWriteType DEF WriteFails, TypeOK
<1>9. ASSUME NEW t \in Threads, WriteNoClient(t) PROVE TypeOK'
  BY <1>9, EndWriteType DEF WriteNoClient, TypeOK
<1>10. ASSUME NEW t \in Threads, Unlock(t) PROVE TypeOK'
  BY <1>10 DEF Unlock, Release, Goto, TypeOK, Locations, lifeVars, history
<1>11. ASSUME NEW t \in Threads, Return(t) PROVE TypeOK'
  BY <1>11 DEF Return, Goto, TypeOK, Locations, lockVars, lifeVars
<1>12. ASSUME NEW c \in Cplds,
              ProbeGroup(c) \/ ProbeHwmon(c) \/ ProbeHwmonFails(c) \/ ProbeUnwind(c)
              \/ ProbeAddClient(c) \/ Remove(c) \/ RemoveGroup(c) \/ RemoveClient(c)
       PROVE  TypeOK'
  <2>1. /\ life' \in [Cplds -> Lives] /\ listed' \in SUBSET Cplds
        /\ BusUnchanged
    BY <1>12 DEF ProbeGroup, ProbeHwmon, ProbeHwmonFails, ProbeUnwind, ProbeAddClient,
                 Remove, RemoveGroup, RemoveClient, Live, TypeOK, Lives
  <2>2. QED
    BY <2>1 DEF BusUnchanged, TypeOK, threadVars, lockVars, history
<1>13. CASE UNCHANGED vars
  BY <1>13 DEF vars, threadVars, lockVars, lifeVars, history, TypeOK
<1>14. ASSUME NEW t \in Threads, WriteRetry(t) PROVE TypeOK'
  BY <1>14, StoreType DEF WriteRetry, TypeOK, threadVars, lockVars, lifeVars
<1>15. QED
  BY <1>1, <1>2, <1>3, <1>4, <1>5, <1>6, <1>7, <1>8, <1>9, <1>10, <1>11, <1>12, <1>13, <1>14
     DEF Next, Access, Transfer, Finish

LEMMA InitType == Init => TypeOK
<1> SUFFICES ASSUME Init PROVE TypeOK
  OBVIOUS
<1>1. req \in [Threads -> Requests]
  BY NoRequestType DEF Init
<1>2. regs \in [Registers -> SUBSET Bits]
  BY CpldAssumption DEF Init
<1>3. QED
  BY <1>1, <1>2 DEF Init, TypeOK, Locations, Lives

(* Every reachable state is well typed: a byte that was read or is written *)
(* has eight bits, whatever a transfer answered.                           *)
THEOREM TypeCorrect == Spec => []TypeOK
<1>1. QED
  BY InitType, NextType, PTL DEF Spec

-----------------------------------------------------------------------------
(* How the lock discipline is kept, once for each way a step treats the    *)
(* locks: outside of them, taking or giving back the mutex, and inside.    *)
Transferring(t) == req[t].drv = "port" /\ pc[t] \in {"read", "write"}

LEMMA OutsideKeeps ==
  ASSUME TypeOK, LockDiscipline, NEW t \in Threads, NEW l \in {"idle", "lock", "return"},
         pc[t] \in {"idle", "return"}, Goto(t, l), NEW r \in Requests,
         req' = [req EXCEPT ![t] = r], UNCHANGED lockVars
  PROVE  LockDiscipline'
  BY DEF TypeOK, LockDiscipline, Goto, Own, lockVars

LEMMA AcquireKeeps ==
  ASSUME TypeOK, LockDiscipline, NEW t \in Threads, NEW l \in Holding,
         pc[t] = "lock", Acquire(t), Goto(t, l), req' = req, listLock' = listLock,
         req[t].drv = "port" => l \notin {"read", "write"}
  PROVE  LockDiscipline'
<1>1. Own(t) \in LockIds
  BY TargetType DEF TypeOK, Own
<1>2. QED
  BY <1>1 DEF TypeOK, LockDiscipline, Acquire, Goto, Own, Holding

LEMMA ReleaseKeeps ==
  ASSUME TypeOK, LockDiscipline, NEW t \in Threads,
         pc[t] = "unlock", Release(t), Goto(t, "return"), req' = req, listLock' = listLock
  PROVE  LockDiscipline'
<1>1. Own(t) \in LockIds
  BY TargetType DEF TypeOK, Own
<1>2. QED
  BY <1>1 DEF TypeOK, LockDiscipline, Release, Goto, Own

LEMMA InsideKeeps ==
  ASSUME TypeOK, LockDiscipline, NEW t \in Threads, NEW l \in Holding,
         pc[t] \in Holding, Goto(t, l), req' = req, lock' = lock,
         \/ listLock' = listLock \ {t} /\ (req[t].drv = "port" => l \notin {"read", "write"})
         \/ listLock = {} /\ listLock' = {t} /\ req[t].drv = "port" /\ l \in {"read", "write"}
  PROVE  LockDiscipline'
  BY DEF TypeOK, LockDiscipline, Goto, Own, Holding

LEMMA NextLockDiscipline ==
  TypeOK /\ LockDiscipline /\ SetInv /\ [Next]_vars => LockDiscipline'
<1> SUFFICES ASSUME TypeOK, LockDiscipline, SetInv, [Next]_vars PROVE LockDiscipline'
  OBVIOUS
<1> USE NoRequestType
<1>1. ASSUME NEW t \in Threads, Call(t) PROVE LockDiscipline'
  BY <1>1, OutsideKeeps DEF Call
<1>2. ASSUME NEW t \in Threads, Return(t) PROVE LockDiscipline'
  BY <1>2, OutsideKeeps DEF Return
<1>3. ASSUME NEW t \in Threads, Lock(t) PROVE LockDiscipline'
  <2>1. CASE req[t].drv = "port"
    <3>1. Goto(t, "find_read")
      BY <1>3, <2>1, RequestType DEF Lock, Goto, TypeOK
    <3>2. QED
      BY <1>3, <3>1, AcquireKeeps DEF Lock, Holding
  <2>2. CASE req[t].drv # "port"
    <3>1. Goto(t, "write") \/ Goto(t, "read")
      BY <1>3, <2>2 DEF Lock, Goto
    <3>2. QED
      BY <1>3, <2>2, <3>1, AcquireKeeps DEF Lock, Holding
  <2>3. QED
    BY <2>1, <2>2
<1>4. ASSUME NEW t \in Threads, Find(t) PROVE LockDiscipline'
  <2>1. req[t].drv = "port"
    BY <1>4 DEF Find, SetInv, SetInvOf
  <2>2. QED
    BY <1>4, <2>1, InsideKeeps DEF Find, Holding
<1>5. ASSUME NEW t \in Threads, NEW byte, pc[t] = "read", AfterRead(t, byte)
      PROVE  LockDiscipline'
  <2>1. req[t].drv = "port" => req[t].op \in {"show", "set"}
    BY RequestType DEF TypeOK
  <2>2. \E l \in Holding : Goto(t, l) /\ (req[t].drv = "port" => l \notin {"read", "write"})
    BY <1>5, <2>1 DEF AfterRead, Holding
  <2>3. QED
    BY <1>5, <2>2, InsideKeeps DEF AfterRead, Holding
<1>6. ASSUME NEW t \in Threads, Read(t) \/ ReadFails(t) \/ ReadNoClient(t)
      PROVE  LockDiscipline'
  BY <1>5, <1>6 DEF Read, ReadFails, ReadNoClient
<1>7. ASSUME NEW t \in Threads, Write(t) \/ WriteFails(t) \/ WriteNoClient(t)
      PROVE  LockDiscipline'
  BY <1>7, InsideKeeps DEF Write, WriteFails, WriteNoClient, EndWrite, Holding
<1>8. ASSUME NEW t \in Threads, Unlock(t) PROVE LockDiscipline'
  BY <1>8, ReleaseKeeps DEF Unlock
<1>9. CASE UNCHANGED <<threadVars, lockVars>>
  BY <1>9 DEF LockDiscipline, threadVars, lockVars, Own
<1>10. QED
  BY <1>1, <1>2, <1>3, <1>4, <1>6, <1>7, <1>8, <1>9
     DEF Next, Access, Transfer, WriteRetry, Finish, vars, BusUnchanged, ProbeGroup, ProbeHwmon,
         ProbeHwmonFails, ProbeUnwind, ProbeAddClient, Remove, RemoveGroup, RemoveClient

-----------------------------------------------------------------------------
LEMMA NextListedLive == TypeOK /\ ListedLive /\ [Next]_vars => ListedLive'
<1> SUFFICES ASSUME TypeOK, ListedLive, [Next]_vars PROVE ListedLive'
  OBVIOUS
<1>1. CASE UNCHANGED lifeVars
  BY <1>1 DEF ListedLive, lifeVars
<1>2. ASSUME NEW c \in Cplds, ProbeGroup(c) \/ ProbeHwmon(c) \/ ProbeHwmonFails(c)
                              \/ ProbeUnwind(c) \/ ProbeAddClient(c)
      PROVE  ListedLive'
  BY <1>2 DEF ProbeGroup, ProbeHwmon, ProbeHwmonFails, ProbeUnwind, ProbeAddClient, Live,
              ListedLive, TypeOK
<1>3. ASSUME NEW c \in Cplds, Remove(c) \/ RemoveGroup(c) \/ RemoveClient(c)
      PROVE  ListedLive'
  BY <1>3 DEF Remove, RemoveGroup, RemoveClient, Live, ListedLive, TypeOK
<1>4. QED
  BY <1>1, <1>2, <1>3
     DEF Next, Access, Transfer, Finish, vars, Call, Lock, Find, Read, ReadFails, ReadNoClient,
         AfterRead, Write, WriteFails, WriteNoClient, WriteRetry, EndWrite, Unlock, Return

LEMMA NextSetInv == TypeOK /\ SetInv /\ [Next]_vars => SetInv'
<1> SUFFICES ASSUME TypeOK, SetInv, [Next]_vars, NEW u \in Threads PROVE SetInvOf(u)'
  BY DEF SetInv
<1>0. SetInvOf(u) /\ TypeOK
  BY DEF SetInv
<1>1. CASE UNCHANGED <<threadVars, wroteOk>>
  BY <1>0, <1>1 DEF SetInvOf, threadVars
<1>2. ASSUME NEW t \in Threads, Call(t) PROVE SetInvOf(u)'
  <2>1. PICK r \in Requests :
          /\ req' = [req EXCEPT ![t] = r]
          /\ \/ Goto(t, "return")
             \/ Goto(t, "lock") /\ ~(r.op \in {"set", "access"} /\ r.value = "junk")
    BY <1>2 DEF Call
  <2>2. CASE u = t
    <3>1. ~wroteOk[t]
      BY <1>0, <1>2, <2>2 DEF Call, SetInvOf
    <3>2. QED
      BY <1>0, <1>2, <2>1, <2>2, <3>1 DEF Call, SetInvOf, Goto, TypeOK, Holding, history
  <2>3. CASE u # t
    BY <1>0, <1>2, <2>1, <2>3 DEF Call, SetInvOf, Goto, TypeOK, history
  <2>4. QED
    BY <2>2, <2>3
<1>3. ASSUME NEW t \in Threads, Lock(t) PROVE SetInvOf(u)'
  BY <1>0, <1>3, RequestType DEF Lock, SetInvOf, Goto, TypeOK, Holding, history
<1>4. ASSUME NEW t \in Threads, Find(t) PROVE SetInvOf(u)'
  BY <1>0, <1>4 DEF Find, SetInvOf, Goto, TypeOK, Holding, history
<1>5. ASSUME NEW t \in Threads, NEW byte \in SUBSET Bits, pc[t] = "read", AfterRead(t, byte)
      PROVE  SetInvOf(u)'
  <2>1. CASE u # t
    BY <1>0, <1>5, <2>1 DEF AfterRead, SetInvOf, Goto, TypeOK
  <2>2. CASE u = t
    <3>1. req' = req /\ wroteOk' = wroteOk
      BY <1>5 DEF AfterRead
    <3>2. req[t].op = "set" => val'[t] = Modified(req[t], byte)
      BY <1>5 DEF AfterRead, TypeOK
    <3>3. /\ pc'[t] = "find_write" => req[t].op = "set" /\ req[t].drv = "port"
          /\ pc'[t] \in {"find_write", "write", "read", "unlock"}
      BY <1>5 DEF AfterRead, TypeOK, Goto
    <3>4. req'[t].op = "set" => \E b \in SUBSET Bits : val'[t] = Modified(req'[t], b)
      BY <3>1, <3>2
    <3>5. req'[t].op = "set" => req'[t].value # "junk"
      BY <1>0, <1>5, <2>2, <3>1 DEF SetInvOf, Holding
    <3>6. ~wroteOk'[t]
      BY <1>0, <1>5, <2>2, <3>1 DEF SetInvOf
    <3>7. QED
      BY <2>2, <3>1, <3>3, <3>4, <3>5, <3>6 DEF SetInvOf, Modified
  <2>3. QED
    BY <2>1, <2>2
<1>6. ASSUME NEW t \in Threads, Read(t) \/ ReadFails(t) \/ ReadNoClient(t)
      PROVE  SetInvOf(u)'
  <2>1. ReadFrom(t) \in Registers
    BY TargetType DEF ReadFrom, TypeOK, Registers, Kinds
  <2>2. pc[t] = "read" /\ \E byte \in SUBSET Bits : AfterRead(t, byte)
    BY <1>6, <2>1, CpldAssumption DEF Read, ReadFails, ReadNoClient, TypeOK
  <2>3. QED
    BY <1>5, <2>2
<1>7. ASSUME NEW t \in Threads, Write(t) \/ WriteFails(t) \/ WriteNoClient(t)
      PROVE  SetInvOf(u)'
  <2>1. /\ Goto(t, "unlock") /\ pc[t] = "write" /\ req' = req
        /\ val' = [val EXCEPT ![t] = {}]
        /\ u # t => wroteOk'[u] = wroteOk[u]
    BY <1>7 DEF Write, WriteFails, WriteNoClient, EndWrite, TypeOK
  <2>2. QED
    BY <1>0, <2>1 DEF SetInvOf, Goto, TypeOK, Holding
<1>8. ASSUME NEW t \in Threads, Unlock(t) PROVE SetInvOf(u)'
  BY <1>0, <1>8 DEF Unlock, SetInvOf, Goto, TypeOK, Holding, history
<1>9. ASSUME NEW t \in Threads, Return(t) PROVE SetInvOf(u)'
  BY <1>0, <1>9, NoRequestType DEF Return, SetInvOf, Goto, TypeOK, Holding
<1>10. QED
  BY <1>1, <1>2, <1>3, <1>4, <1>6, <1>7, <1>8, <1>9
     DEF Next, Access, Transfer, WriteRetry, Finish, vars, history, BusUnchanged, ProbeGroup, ProbeHwmon,
         ProbeHwmonFails, ProbeUnwind, ProbeAddClient, Remove, RemoveGroup, RemoveClient

-----------------------------------------------------------------------------
(* What a step of one thread leaves of another: its own variables always,  *)
(* the registers and its history unless the step stores a byte.            *)
Still(u) ==
  /\ pc'[u] = pc[u] /\ req'[u] = req[u] /\ ret'[u] = ret[u] /\ val'[u] = val[u]
  /\ found'[u] = found[u] /\ readOk'[u] = readOk[u] /\ wroteOk'[u] = wroteOk[u]

LEMMA OtherStep ==
  ASSUME TypeOK, NEW t \in Threads, NEW u \in Threads, t # u,
         Call(t) \/ Access(t) \/ WriteRetry(t)
  PROVE  /\ Still(u)
         /\ lifeVars' = lifeVars
         /\ \/ regs' = regs /\ since'[u] = since[u]
            \/ pc[t] = "write" /\ Store(t)
<1> USE DEF Still, TypeOK, history
<1>1. ASSUME Call(t) \/ Lock(t) \/ Find(t) \/ Unlock(t) \/ Return(t)
      PROVE  Still(u) /\ lifeVars' = lifeVars /\ regs' = regs /\ since'[u] = since[u]
  BY <1>1 DEF Call, Lock, Find, Unlock, Return, Goto
<1>2. ASSUME Read(t) \/ ReadFails(t) \/ ReadNoClient(t)
      PROVE  Still(u) /\ lifeVars' = lifeVars /\ regs' = regs /\ since'[u] = since[u]
  BY <1>2 DEF Read, ReadFails, ReadNoClient, AfterRead, Goto
<1>3. ASSUME Write(t) \/ WriteFails(t) \/ WriteNoClient(t)
      PROVE  /\ Still(u) /\ lifeVars' = lifeVars /\ pc[t] = "write"
             /\ Store(t) \/ (regs' = regs /\ since'[u] = since[u])
  BY <1>3 DEF Write, WriteFails, WriteNoClient, EndWrite, Goto
<1>4. CASE WriteRetry(t)
  BY <1>4 DEF WriteRetry, threadVars
<1>5. QED
  BY <1>1, <1>2, <1>3, <1>4 DEF Access, Transfer

(* A byte stored by another thread does not reach u's register unnoticed.  *)
LEMMA StoreNoticed ==
  ASSUME TypeOK, NEW t \in Threads, NEW u \in Threads, t # u, Store(t), HasRead(u)
  PROVE  \/ since'[u] = since[u] /\ regs'[Target(req[u])] = regs[Target(req[u])]
         \/ since'[u] = since[u] \cup {Own(t)}
<1>1. Target(req[u]) \in Registers /\ Target(req[t]) \in Registers
  BY TargetType DEF TypeOK
<1>2. QED
  BY <1>1 DEF Store, TypeOK

(* The steps that are not a thread's leave every thread alone. *)
LifeStep(c) == ProbeGroup(c) \/ ProbeHwmonFails(c) \/ Remove(c) \/ Finish(c)

LEMMA LifeStepBus == ASSUME NEW c \in Cplds, LifeStep(c) PROVE BusUnchanged
  BY DEF LifeStep, Finish, ProbeGroup, ProbeHwmon, ProbeHwmonFails, ProbeUnwind,
         ProbeAddClient, Remove, RemoveGroup, RemoveClient

LEMMA NextNoTransferToGone ==
  TypeOK /\ LockDiscipline /\ ListedLive /\ NoTransferToGone /\ [Next]_vars
    => NoTransferToGone'
<1> DEFINE Client(u) == pc[u] \in {"read", "write"} /\ req[u].drv = "port" /\ found[u]
                          => /\ Cpld(req[u]) \in listed
                             /\ life[Cpld(req[u])] \in {"bound", "drain", "drained"}
           Inside(u) == pc[u] # "idle" /\ req[u].drv = "cpld"
                          => life[Cpld(req[u])] \notin {"unbound", "drained"}
<1> SUFFICES ASSUME TypeOK, LockDiscipline, ListedLive, NoTransferToGone, [Next]_vars,
                    NEW u \in Threads
             PROVE  Client(u)' /\ Inside(u)'
  BY DEF NoTransferToGone
<1>1. Client(u) /\ Inside(u) /\ req[u] \in Requests /\ Cpld(req[u]) \in Cplds
  BY TargetType DEF NoTransferToGone, TypeOK
<1>2. CASE UNCHANGED vars
  BY <1>1, <1>2 DEF vars, threadVars, lifeVars
<1>3. ASSUME NEW t \in Threads, t # u, Call(t) \/ Access(t) \/ WriteRetry(t)
      PROVE  Client(u)' /\ Inside(u)'
  BY <1>1, <1>3, OtherStep DEF Still, lifeVars
<1>4. ASSUME Call(u) PROVE Client(u)' /\ Inside(u)'
  <2>1. PICK r \in Requests : /\ r.drv = "cpld" => Active(Cpld(r))
                              /\ req' = [req EXCEPT ![u] = r]
                              /\ Goto(u, "return") \/ Goto(u, "lock")
    BY <1>4 DEF Call
  <2>2. req'[u] = r /\ pc'[u] \in {"return", "lock"} /\ life' = life
    BY <1>4, <2>1 DEF Call, Goto, TypeOK, lifeVars
  <2>3. QED
    BY <2>1, <2>2 DEF Active
<1>5. ASSUME Lock(u) \/ Unlock(u) \/ Return(u) PROVE Client(u)' /\ Inside(u)'
  <2>1. /\ lifeVars' = lifeVars
        /\ pc'[u] = "idle" \/ (req'[u] = req[u] /\ pc[u] # "idle")
    BY <1>5 DEF Lock, Unlock, Return, Goto, TypeOK
  <2>2. pc'[u] \in {"read", "write"} => req'[u].drv # "port"
    BY <1>1, <1>5, RequestType DEF Lock, Unlock, Return, Goto, TypeOK
  <2>3. QED
    BY <1>1, <2>1, <2>2 DEF lifeVars
<1>6. ASSUME Find(u) PROVE Client(u)' /\ Inside(u)'
  <2>1. /\ lifeVars' = lifeVars /\ req' = req /\ pc[u] # "idle"
        /\ found'[u] = (Cpld(req[u]) \in listed)
    BY <1>6 DEF Find, TypeOK
  <2>2. QED
    BY <1>1, <2>1 DEF lifeVars, ListedLive
<1>7. ASSUME Transfer(u) PROVE Client(u)' /\ Inside(u)'
  <2>1. /\ lifeVars' = lifeVars /\ req' = req /\ pc[u] \in {"read", "write"}
        /\ found'[u] = found[u] \/ pc'[u] = "unlock"
    BY <1>7 DEF Transfer, Read, ReadFails, ReadNoClient, AfterRead, Write, WriteFails,
                WriteNoClient, EndWrite, Goto, TypeOK
  <2>2. QED
    BY <1>1, <2>1 DEF lifeVars
<1>8. ASSUME NEW c \in Cplds, LifeStep(c) PROVE Client(u)' /\ Inside(u)'
  <2>1. UNCHANGED threadVars
    BY <1>8, LifeStepBus DEF BusUnchanged
  <2>2. UNCHANGED <<pc, req, found>>
    BY <2>1 DEF threadVars
  <2>3. CASE \/ ProbeGroup(c) \/ ProbeHwmon(c) \/ ProbeHwmonFails(c)
             \/ Remove(c) \/ ProbeAddClient(c)
    BY <1>1, <2>2, <2>3 DEF ProbeGroup, ProbeHwmon, ProbeHwmonFails, Remove, ProbeAddClient,
                            Live, TypeOK
  <2>4. CASE ProbeUnwind(c) \/ RemoveGroup(c)
    <3>1. ~(pc[u] # "idle" /\ req[u].drv = "cpld" /\ Cpld(req[u]) = c)
      BY <2>4 DEF ProbeUnwind, RemoveGroup, InAttribute
    <3>2. QED
      BY <1>1, <2>2, <2>4, <3>1 DEF ProbeUnwind, RemoveGroup, Live, TypeOK
  <2>5. CASE RemoveClient(c)
    <3>1. ~(pc[u] \in {"read", "write"} /\ req[u].drv = "port")
      BY <2>5 DEF RemoveClient, LockDiscipline
    <3>2. QED
      BY <1>1, <2>2, <2>5, <3>1 DEF RemoveClient, Live, TypeOK
  <2>6. QED
    BY <1>8, <2>3, <2>4, <2>5 DEF LifeStep, Finish
<1>9. CASE WriteRetry(u)
  BY <1>1, <1>9 DEF WriteRetry, threadVars, lifeVars
<1>10. QED
  BY <1>2, <1>3, <1>4, <1>5, <1>6, <1>7, <1>8, <1>9 DEF Next, Access, LifeStep

-----------------------------------------------------------------------------
LEMMA NextOwnLockSerialises ==
  TypeOK /\ LockDiscipline /\ SetInv /\ OwnLockSerialises /\ [Next]_vars
    => OwnLockSerialises'
<1> DEFINE Changing(u) == pc[u] \in {"find_write", "write"} /\ req[u].op = "set"
           Fresh(u) == /\ Own(u) \notin since[u]
                       /\ readOk[u] /\ since[u] = {} =>
                            val[u] = Modified(req[u], regs[Target(req[u])])
<1> SUFFICES ASSUME TypeOK, LockDiscipline, SetInv, OwnLockSerialises, [Next]_vars,
                    NEW u \in Threads, Changing(u)'
             PROVE  Fresh(u)'
  BY DEF OwnLockSerialises
<1>1. Changing(u) => Fresh(u)
  BY DEF OwnLockSerialises
<1>2. ASSUME Changing(u), Still(u), regs' = regs, since'[u] = since[u] PROVE Fresh(u)'
  BY <1>1, <1>2 DEF Still, Own
<1>3. CASE UNCHANGED <<threadVars, regs, history>>
  BY <1>2, <1>3 DEF Still, threadVars, history
<1>4. ASSUME NEW t \in Threads, t # u, Call(t) \/ Access(t) \/ WriteRetry(t)
      PROVE  Fresh(u)'
  <2>1. Still(u) /\ Changing(u)
    BY <1>4, OtherStep DEF Still
  <2>2. CASE regs' = regs /\ since'[u] = since[u]
    BY <1>2, <2>1, <2>2
  <2>3. CASE pc[t] = "write" /\ Store(t)
    <3>1. Own(t) # Own(u)
      <4>1. Own(t) \in LockIds /\ Own(u) \in LockIds
        BY TargetType DEF TypeOK, Own
      <4>2. t \in lock[Own(t)] /\ u \in lock[Own(u)]
        BY <2>1, <2>3, <4>1 DEF LockDiscipline
      <4>3. QED
        BY <1>4, <4>1, <4>2 DEF LockDiscipline
    <3>2. HasRead(u)
      BY <2>1 DEF HasRead
    <3>3. CASE since'[u] = since[u] /\ regs'[Target(req[u])] = regs[Target(req[u])]
      BY <1>1, <2>1, <3>3 DEF Still, Own
    <3>4. CASE since'[u] = since[u] \cup {Own(t)}
      BY <1>1, <2>1, <3>1, <3>4 DEF Still, Own
    <3>5. QED
      BY <1>4, <2>3, <3>2, <3>3, <3>4, StoreNoticed
  <2>4. QED
    BY <1>4, <2>2, <2>3, OtherStep
<1>5. ASSUME NEW byte, AfterRead(u, byte), req[u].op = "set",
             readOk'[u] => byte = regs[Target(req[u])]
      PROVE  Fresh(u)'
  <2>1. req' = req /\ regs' = regs /\ since'[u] = {} /\ val'[u] = Modified(req[u], byte)
    BY <1>5 DEF AfterRead, TypeOK
  <2>2. QED
    BY <1>5, <2>1
<1>6. ASSUME Read(u) \/ ReadFails(u) \/ ReadNoClient(u) PROVE Fresh(u)'
  <2>1. req[u].op = "set"
    BY <1>6 DEF Read, ReadFails, ReadNoClient, AfterRead
  <2>2. CASE Read(u)
    BY <1>5, <2>1, <2>2 DEF Read, ReadFrom
  <2>3. CASE ReadFails(u) \/ ReadNoClient(u)
    <3>1. ~readOk'[u]
      BY <2>3 DEF ReadFails, ReadNoClient, TypeOK
    <3>2. QED
      BY <1>5, <2>1, <2>3, <3>1 DEF ReadFails, ReadNoClient
  <2>4. QED
    BY <1>6, <2>2, <2>3
<1>7. ASSUME Find(u) PROVE Fresh(u)'
  BY <1>1, <1>7 DEF Find, history, Own, Goto, TypeOK
<1>8. ASSUME \/ Call(u) \/ Lock(u) \/ Unlock(u) \/ Return(u)
             \/ Write(u) \/ WriteFails(u) \/ WriteNoClient(u)
      PROVE  FALSE
  <2>1. ASSUME Lock(u) PROVE FALSE
    BY <2>1, RequestType DEF Lock, Goto, TypeOK
  <2>2. QED
    BY <1>8, <2>1 DEF Call, Unlock, Return, Write, WriteFails, WriteNoClient, EndWrite,
                      Goto, TypeOK
<1>9. ASSUME WriteRetry(u) PROVE Fresh(u)'
  <2>1. /\ req' = req /\ val' = val /\ req[u] \in Requests
        /\ pc[u] = "write" /\ req[u].op = "set" /\ Store(u)
    BY <1>9 DEF WriteRetry, threadVars, TypeOK
  <2>2. PICK byte \in SUBSET Bits : val[u] = Modified(req[u], byte)
    BY <2>1 DEF SetInv, SetInvOf
  <2>3. regs'[Target(req[u])] = val[u] /\ since'[u] = {}
    BY <2>1, TargetType DEF Store, TypeOK
  <2>4. QED
    BY <2>1, <2>2, <2>3, ModifiedTwice
<1>10. QED
  BY <1>3, <1>4, <1>6, <1>7, <1>8, <1>9, LifeStepBus
     DEF Next, Access, Transfer, vars, BusUnchanged, LifeStep

LEMMA NextSetTakesEffect ==
  TypeOK /\ SetInv /\ SetTakesEffect /\ [Next]_vars => SetTakesEffect'
<1> DEFINE Claimed(u) == /\ pc[u] = "unlock" /\ req[u].op = "set" /\ ret[u] = "OK"
                         /\ since[u] = {} /\ (req[u].drv = "port" => wroteOk[u])
           Effect(u) == Shown(req[u], regs[Target(req[u])]) = req[u].value
<1> SUFFICES ASSUME TypeOK, SetInv, SetTakesEffect, [Next]_vars,
                    NEW u \in Threads, Claimed(u)'
             PROVE  Effect(u)'
  BY DEF SetTakesEffect
<1>1. (Claimed(u) => Effect(u)) /\ SetInvOf(u)
  BY DEF SetTakesEffect, SetInv
<1>2. CASE UNCHANGED <<threadVars, regs, history>>
  BY <1>1, <1>2 DEF threadVars, history
<1>3. ASSUME NEW t \in Threads, t # u, Call(t) \/ Access(t) \/ WriteRetry(t)
      PROVE  Effect(u)'
  <2>1. Still(u)
    BY <1>3, OtherStep
  <2>2. CASE regs' = regs /\ since'[u] = since[u]
    BY <1>1, <2>1, <2>2 DEF Still
  <2>3. CASE Store(t)
    <3>1. HasRead(u)
      BY <2>1 DEF Still, HasRead
    <3>2. since'[u] = since[u] /\ regs'[Target(req[u])] = regs[Target(req[u])]
      BY <1>3, <2>3, <3>1, StoreNoticed
    <3>3. QED
      BY <1>1, <2>1, <3>2 DEF Still
  <2>4. QED
    BY <1>3, <2>2, <2>3, OtherStep
<1>4. ASSUME Write(u) PROVE Effect(u)'
  <2>1. req' = req /\ req[u] \in Requests /\ pc[u] = "write"
    BY <1>4 DEF Write, EndWrite, TypeOK
  <2>2. Target(req[u]) \in Registers
    BY <2>1, TargetType
  <2>3. regs'[Target(req[u])] = val[u]
    BY <1>4, <2>2 DEF Write, Store, TypeOK
  <2>4. PICK byte \in SUBSET Bits : val[u] = Modified(req[u], byte)
    BY <1>1, <2>1 DEF SetInvOf
  <2>5. req[u].value # "junk"
    BY <1>1, <2>1 DEF SetInvOf, Holding
  <2>6. QED
    BY <2>1, <2>3, <2>4, <2>5, ModifiedShown
<1>5. ASSUME WriteFails(u) \/ WriteNoClient(u) PROVE FALSE
  <2>1. wroteOk' = wroteOk /\ req' = req /\ ~wroteOk[u]
    BY <1>1, <1>5 DEF WriteFails, WriteNoClient, EndWrite, SetInvOf
  <2>2. req[u].drv # "port" => ret'[u] = "error"
    BY <1>5 DEF WriteFails, WriteNoClient, EndWrite, HasClient, TypeOK
  <2>3. QED
    BY <2>1, <2>2
<1>6. ASSUME NEW byte, AfterRead(u, byte) PROVE FALSE
  <2>1. req[u].op = "set" /\ req[u].drv \in {"port", "cpld"}
    BY <1>6, RequestType DEF AfterRead, TypeOK
  <2>2. QED
    BY <1>6, <2>1 DEF AfterRead, Goto, TypeOK
<1>7. ASSUME Call(u) \/ Lock(u) \/ Find(u) \/ Unlock(u) \/ Return(u) \/ WriteRetry(u)
      PROVE  FALSE
  BY <1>7 DEF Call, Lock, Find, Unlock, Return, WriteRetry, Goto, TypeOK, threadVars
<1>8. QED
  BY <1>2, <1>3, <1>4, <1>5, <1>6, <1>7, LifeStepBus
     DEF Next, Access, Transfer, Read, ReadFails, ReadNoClient, vars, BusUnchanged, LifeStep

-----------------------------------------------------------------------------
LEMMA InitInv == Init => IInv
<1> SUFFICES ASSUME Init PROVE IInv
  OBVIOUS
<1>1. TypeOK
  BY InitType
<1>2. LockDiscipline
  BY DEF Init, LockDiscipline
<1>3. ListedLive /\ NoTransferToGone /\ SetInv /\ OwnLockSerialises /\ SetTakesEffect
  BY DEF Init, ListedLive, NoTransferToGone, SetInv, SetInvOf, Holding, OwnLockSerialises,
         SetTakesEffect
<1>4. QED
  BY <1>1, <1>2, <1>3 DEF IInv

LEMMA NextInv == IInv /\ [Next]_vars => IInv'
  BY NextType, NextLockDiscipline, NextListedLive, NextNoTransferToGone, NextSetInv,
     NextOwnLockSerialises, NextSetTakesEffect DEF IInv

LEMMA Invariant == Spec => []IInv
  BY InitInv, NextInv, PTL DEF Spec

(* No path of an access, failed transfers and missing clients included,    *)
(* keeps a mutex or the list's lock, and no two threads hold one at once.  *)
THEOREM LockDisciplined == Spec => []LockDiscipline
<1>1. IInv => LockDiscipline
  BY DEF IInv
<1>2. QED
  BY Invariant, <1>1, PTL

(* Unbinding a CPLD's driver, or a failed probe, never lets a transfer or  *)
(* an attribute use a client that is gone.                                 *)
THEOREM NoTransferToGoneHolds == Spec => []NoTransferToGone
<1>1. IInv => NoTransferToGone
  BY DEF IInv
<1>2. QED
  BY Invariant, <1>1, PTL

(* A byte between its read and its write is made stale only by a thread    *)
(* that holds another mutex.                                               *)
THEOREM OwnLockSerialisesHolds == Spec => []OwnLockSerialises
<1>1. IInv => OwnLockSerialises
  BY DEF IInv
<1>2. QED
  BY Invariant, <1>1, PTL

(* A set that reports success and was not overwritten is what the same     *)
(* attribute then shows.                                                   *)
THEOREM SetTakesEffectHolds == Spec => []SetTakesEffect
<1>1. IInv => SetTakesEffect
  BY DEF IInv
<1>2. QED
  BY Invariant, <1>1, PTL
=============================================================================
