---------------------------- MODULE QsfpPortProofs ----------------------------
(***************************************************************************)
(* Type correctness, lock discipline and cache validity of a QSFP port,    *)
(* for any number of threads, ports, lanes and requests and whatever the   *)
(* environment does; and, for an environment that neither swaps modules    *)
(* nor lets their registers fail, that no access undoes another's lanes.   *)
(***************************************************************************)
EXTENDS QsfpPort, TLAPS

(* The loop over the presence registers and the one over the status words   *)
(* stay within their arrays.                                                *)
IndexInv ==
  \A t \in Threads :
    /\ pc[t] = "read_present" => i[t] \in FirstReg(req[t])..LastReg(req[t])
    /\ pc[t] = "notify" => i[t] = 0
    /\ pc[t] = "fetch" => i[t] \in 0..2

(* An error is answered at once: nothing goes on after one. *)
NoErrorYet ==
  \A t \in Threads :
    pc[t] \notin {"unlock_present", "unlock_status", "unlock_set", "return"}
      => ret[t] = "OK"

IInv == TypeOK /\ IndexInv /\ NoErrorYet /\ LockDiscipline /\ NoHalfCache

LEMMA NoRequestType == NoRequest \in Requests
  BY QsfpAssumption DEF NoRequest

LEMMA RequestType ==
  ASSUME NEW r \in Requests
  PROVE  /\ r.op \in {"present", "present_all", "show", "set"}
         /\ r.attr \in Registers
         /\ r.lanes \in SUBSET Lanes
         /\ r.disable \in {"on", "off", "junk"}
  BY QsfpAssumption DEF Request

LEMMA CpldType ==
  /\ Len(CpldRegs) \in Nat
  /\ OwnReg \in 1..Len(CpldRegs)
  /\ \A k \in 1..Len(CpldRegs) : CpldRegs[k] \in SUBSET Ports
<1>1. Len(CpldRegs) \in Nat /\ \A k \in 1..Len(CpldRegs) : CpldRegs[k] \in SUBSET Ports
  BY QsfpAssumption
<1>2. \E k \in 1..Len(CpldRegs) : Own \in CpldRegs[k]
  BY QsfpAssumption DEF Ports
<1>3. QED
  BY <1>1, <1>2 DEF OwnReg

LEMMA RegRange ==
  ASSUME NEW r \in Requests
  PROVE  /\ FirstReg(r) \in 1..Len(CpldRegs)
         /\ LastReg(r) \in 1..Len(CpldRegs)
         /\ FirstReg(r) <= LastReg(r)
  BY CpldType, RequestType DEF FirstReg, LastReg

LEMMA IndexRange ==
  /\ MaxIndex \in Nat
  /\ MaxIndex >= 2
  /\ MaxIndex >= Len(CpldRegs)
  BY CpldType DEF MaxIndex

LEMMA ShownType ==
  ASSUME TypeOK, NEW r \in Requests
  PROVE  Shown(r) \in SUBSET (Lanes \cup Ports)
  BY RequestType DEF TypeOK, Shown

LEMMA DisabledType ==
  ASSUME NEW r \in Requests, NEW bits \in SUBSET Lanes
  PROVE  Disabled(r, bits) \in SUBSET Lanes
  BY RequestType DEF Disabled

LEMMA StatusRegType == \A k \in 0..2 : StatusReg(k) \in Registers
  BY DEF StatusReg, Registers

-----------------------------------------------------------------------------
LEMMA InitType == Init => TypeOK
<1> SUFFICES ASSUME Init PROVE TypeOK
  OBVIOUS
<1>1. regs \in [Registers -> SUBSET Lanes]
  BY QsfpAssumption DEF Init
<1>2. i \in [Threads -> 0..MaxIndex]
  BY IndexRange DEF Init
<1>3. req \in [Threads -> Requests]
  BY NoRequestType DEF Init
<1>4. status \in [0..2 -> SUBSET Lanes]
  BY DEF Init
<1>5. pc \in [Threads -> Locations] /\ ret \in [Threads -> Returns]
  BY DEF Init, Locations, Returns
<1>6. plugged \in SUBSET Ports
  BY QsfpAssumption DEF Init
<1>7. /\ val \in [Threads -> SUBSET (Lanes \cup Ports)]
      /\ plugSeen \in [Threads -> SUBSET Ports]
      /\ disturbed \in [Threads -> BOOLEAN]
  BY DEF Init
<1>8. lock \in SUBSET Threads /\ present \in SUBSET Ports /\ valid \in BOOLEAN /\ recent \in BOOLEAN
  BY DEF Init
<1>9. QED
  BY <1>1, <1>2, <1>3, <1>4, <1>5, <1>6, <1>7, <1>8 DEF TypeOK

LEMMA NextType == TypeOK /\ IndexInv /\ [Next]_vars => TypeOK'
<1> SUFFICES ASSUME TypeOK, IndexInv, [Next]_vars PROVE TypeOK'
  OBVIOUS
<1> USE NoRequestType, IndexRange, CpldType, RegRange
<1>1. ASSUME NEW t \in Threads, Call(t) PROVE TypeOK'
  BY <1>1 DEF Call, Goto, TypeOK, Locations, cacheVars, moduleVars
<1>2. ASSUME NEW t \in Threads, Return(t) PROVE TypeOK'
  BY <1>2 DEF Return, Goto, TypeOK, Locations, Returns, cacheVars, moduleVars, history
<1>3. ASSUME NEW t \in Threads, LockPresent(t) PROVE TypeOK'
  <2>1. FirstReg(req[t]) \in 0..MaxIndex
    BY DEF TypeOK
  <2>2. disturbed' \in [Threads -> BOOLEAN]
    BY <1>3 DEF LockPresent, TypeOK
  <2>3. QED
    BY <1>3, <2>1, <2>2 DEF LockPresent, Acquire, Goto, TypeOK, Locations, cacheVars, moduleVars
<1>4. ASSUME NEW t \in Threads, ReadPresent(t) PROVE TypeOK'
  <2>1. i[t] \in FirstReg(req[t])..LastReg(req[t]) /\ i[t] \in 1..Len(CpldRegs)
    BY <1>4 DEF ReadPresent, IndexInv, TypeOK
  <2>2. present' \in SUBSET Ports
    BY <1>4, <2>1 DEF ReadPresent, TypeOK
  <2>3. i[t] # LastReg(req[t]) => i[t] + 1 \in 0..MaxIndex
    BY <2>1 DEF TypeOK
  <2>4. QED
    BY <1>4, <2>2, <2>3 DEF ReadPresent, Goto, TypeOK, Locations, cacheVars, moduleVars, history
<1>5. ASSUME NEW t \in Threads, ReadPresentFails(t) PROVE TypeOK'
  BY <1>5 DEF ReadPresentFails, Goto, TypeOK, Locations, Returns, cacheVars, moduleVars, history
<1>6. ASSUME NEW t \in Threads, UnlockPresent(t) PROVE TypeOK'
  BY <1>6 DEF UnlockPresent, Release, Goto, TypeOK, Locations, cacheVars, moduleVars
<1>7. ASSUME NEW t \in Threads, TestPresent(t) PROVE TypeOK'
  <2>1. \E bits \in SUBSET (Lanes \cup Ports) : val' = [val EXCEPT ![t] = bits] \/ val' = val
    <3>1. {Own} \ present \in SUBSET (Lanes \cup Ports) /\ Ports \ present \in SUBSET (Lanes \cup Ports)
      BY QsfpAssumption
    <3>2. QED
      BY <1>7, <3>1 DEF TestPresent, Answer
  <2>2. val' \in [Threads -> SUBSET (Lanes \cup Ports)]
    BY <2>1 DEF TypeOK
  <2>3. QED
    BY <1>7, <2>2 DEF TestPresent, Answer, Goto, TypeOK, Locations, Returns, cacheVars, moduleVars
<1>8. ASSUME NEW t \in Threads, CheckCache(t) PROVE TypeOK'
  BY <1>8 DEF CheckCache, Goto, TypeOK, Locations, cacheVars, moduleVars, history
<1>9. ASSUME NEW t \in Threads, LockStatus(t) PROVE TypeOK'
  <2>1. status' \in [0..2 -> SUBSET Lanes]
    BY <1>9 DEF LockStatus
  <2>2. i' \in [Threads -> 0..MaxIndex]
    BY <1>9 DEF LockStatus, TypeOK
  <2>3. QED
    BY <1>9, <2>1, <2>2 DEF LockStatus, Acquire, Goto, TypeOK, Locations, moduleVars, history
<1>10. ASSUME NEW t \in Threads, ReadFails(t) PROVE TypeOK'
  BY <1>10 DEF ReadFails, Goto, TypeOK, Locations, Returns, cacheVars, moduleVars, history
<1>11. ASSUME NEW t \in Threads, Notify(t) PROVE TypeOK'
  BY <1>11 DEF Notify, Goto, TypeOK, Locations, cacheVars, moduleVars, history
<1>12. ASSUME NEW t \in Threads, Fetch(t) PROVE TypeOK'
  <2>1. status' \in [0..2 -> SUBSET Lanes]
    BY <1>12, StatusRegType DEF Fetch, TypeOK
  <2>2. i' \in [Threads -> 0..MaxIndex]
    <3>1. i[t] \in Nat
      BY DEF TypeOK
    <3>2. CASE i[t] < 2
      <4>1. i[t] + 1 \in 0..MaxIndex
        BY <3>1, <3>2
      <4>2. i' = [i EXCEPT ![t] = i[t] + 1]
        BY <1>12, <3>2 DEF Fetch
      <4>3. QED
        BY <4>1, <4>2 DEF TypeOK
    <3>3. CASE ~(i[t] < 2)
      BY <1>12, <3>3 DEF Fetch, TypeOK
    <3>4. QED
      BY <3>2, <3>3
  <2>3. pc' \in [Threads -> Locations] /\ valid' \in BOOLEAN /\ recent' \in BOOLEAN
    BY <1>12 DEF Fetch, Goto, TypeOK, Locations
  <2>4. QED
    BY <1>12, <2>1, <2>2, <2>3 DEF Fetch, TypeOK, moduleVars, history
<1>13. ASSUME NEW t \in Threads, UnlockStatus(t) PROVE TypeOK'
  BY <1>13 DEF UnlockStatus, Release, Goto, TypeOK, Locations, cacheVars, moduleVars, history
<1>14. ASSUME NEW t \in Threads, Show(t) PROVE TypeOK'
  <2>1. Shown(req[t]) \in SUBSET (Lanes \cup Ports)
    BY ShownType DEF TypeOK
  <2>2. QED
    BY <1>14, <2>1 DEF Show, Answer, Goto, TypeOK, Locations, Returns, cacheVars, moduleVars, history
<1>15. ASSUME NEW t \in Threads, Modify(t) PROVE TypeOK'
  <2>1. Disabled(req[t], status[1]) \in SUBSET Lanes
    BY DisabledType DEF TypeOK
  <2>2. status' \in [0..2 -> SUBSET Lanes]
    BY <1>15, <2>1 DEF Modify, TypeOK
  <2>3. QED
    BY <1>15, <2>2 DEF Modify, Acquire, Goto, TypeOK, Locations, moduleVars, history
<1>16. ASSUME NEW t \in Threads, Write(t) PROVE TypeOK'
  BY <1>16 DEF Write, Goto, TypeOK, Locations, Registers, cacheVars, history
<1>17. ASSUME NEW t \in Threads, WriteFails(t) PROVE TypeOK'
  <2>1. regs' \in [Registers -> SUBSET Lanes]
    <3>1. status[1] \in SUBSET Lanes
      BY DEF TypeOK
    <3>2. QED
      BY <1>17, <3>1 DEF WriteFails, TypeOK
  <2>2. QED
    BY <1>17, <2>1 DEF WriteFails, Goto, TypeOK, Locations, Returns, cacheVars, history
<1>18. ASSUME NEW t \in Threads, UnlockSet(t) PROVE TypeOK'
  BY <1>18 DEF UnlockSet, Release, Goto, TypeOK, Locations, cacheVars, moduleVars, history
<1>19. CASE Expire
  BY <1>19 DEF Expire, TypeOK, threadVars, moduleVars, history
<1>20. ASSUME NEW p \in Ports, Swap(p) PROVE TypeOK'
  <2>1. plugged' \in SUBSET Ports /\ regs' \in [Registers -> SUBSET Lanes]
    BY <1>20, QsfpAssumption DEF Swap, TypeOK
  <2>2. plugSeen' \in [Threads -> SUBSET Ports]
    BY <1>20, <2>1 DEF Swap, TypeOK
  <2>3. QED
    BY <1>20, <2>1, <2>2 DEF Swap, TypeOK, threadVars, cacheVars
<1>21. CASE Flicker
  <2>1. regs' \in [Registers -> SUBSET Lanes]
    BY <1>21 DEF Flicker, TypeOK, Registers
  <2>2. QED
    BY <1>21, <2>1 DEF Flicker, TypeOK, threadVars, cacheVars, history
<1>22. CASE UNCHANGED vars
  BY <1>22 DEF vars, threadVars, cacheVars, moduleVars, history, TypeOK
<1>23. QED
  BY <1>1, <1>2, <1>3, <1>4, <1>5, <1>6, <1>7, <1>8, <1>9, <1>10, <1>11, <1>12,
     <1>13, <1>14, <1>15, <1>16, <1>17, <1>18, <1>19, <1>20, <1>21, <1>22
     DEF Next, Access, UpdatePresent, UpdateStatus, SetTxDisable

-----------------------------------------------------------------------------
(* How the lock discipline is kept, once for each way an action treats the lock. *)
LEMMA AcquireKeeps ==
  ASSUME TypeOK, LockDiscipline, NEW t \in Threads, NEW l \in Locked, Acquire(t), Goto(t, l)
  PROVE  LockDiscipline'
  BY DEF TypeOK, LockDiscipline, Acquire, Goto

LEMMA ReleaseKeeps ==
  ASSUME TypeOK, LockDiscipline, NEW t \in Threads, NEW l, l \notin Locked, Release(t), Goto(t, l)
  PROVE  LockDiscipline'
  BY DEF TypeOK, LockDiscipline, Release, Goto

LEMMA GotoKeeps ==
  ASSUME TypeOK, LockDiscipline, NEW t \in Threads, NEW l, Goto(t, l), lock' = lock,
         l \in Locked <=> pc[t] \in Locked
  PROVE  LockDiscipline'
  BY DEF TypeOK, LockDiscipline, Goto

LEMMA NextLockDiscipline ==
  TypeOK /\ LockDiscipline /\ [Next]_vars => LockDiscipline'
<1> SUFFICES ASSUME TypeOK, LockDiscipline, [Next]_vars PROVE LockDiscipline'
  OBVIOUS
<1>1. ASSUME NEW t \in Threads, LockPresent(t) \/ LockStatus(t) \/ Modify(t)
      PROVE  LockDiscipline'
  BY <1>1, AcquireKeeps DEF LockPresent, LockStatus, Modify, Locked
<1>2. ASSUME NEW t \in Threads, UnlockPresent(t) \/ UnlockStatus(t) \/ UnlockSet(t)
      PROVE  LockDiscipline'
  BY <1>2, ReleaseKeeps DEF UnlockPresent, UnlockStatus, UnlockSet, Locked
<1>3. ASSUME NEW t \in Threads,
             Call(t) \/ Return(t) \/ TestPresent(t) \/ CheckCache(t) \/ Show(t)
      PROVE  LockDiscipline'
  BY <1>3, GotoKeeps DEF Call, Return, TestPresent, Answer, CheckCache, Show, Locked
<1>4. ASSUME NEW t \in Threads,
             ReadPresentFails(t) \/ ReadFails(t) \/ Notify(t) \/ Write(t) \/ WriteFails(t)
      PROVE  LockDiscipline'
  BY <1>4, GotoKeeps DEF ReadPresentFails, ReadFails, Notify, Write, WriteFails, Locked
<1>5. ASSUME NEW t \in Threads, ReadPresent(t) \/ Fetch(t)
      PROVE  LockDiscipline'
  <2>1. CASE UNCHANGED <<pc, lock>>
    BY <2>1 DEF LockDiscipline
  <2>2. CASE Goto(t, "unlock_present") \/ Goto(t, "unlock_status")
    BY <1>5, <2>2, GotoKeeps DEF ReadPresent, Fetch, Locked
  <2>3. QED
    BY <1>5, <2>1, <2>2 DEF ReadPresent, Fetch
<1>6. CASE UNCHANGED <<pc, lock>>
  BY <1>6 DEF LockDiscipline
<1>7. QED
  BY <1>1, <1>2, <1>3, <1>4, <1>5, <1>6
     DEF Next, Access, UpdatePresent, UpdateStatus, SetTxDisable, Expire, Swap, Flicker,
         vars, threadVars

-----------------------------------------------------------------------------
LEMMA NextIndexInv == TypeOK /\ IndexInv /\ [Next]_vars => IndexInv'
<1> SUFFICES ASSUME TypeOK, IndexInv, [Next]_vars PROVE IndexInv'
  OBVIOUS
<1> USE DEF TypeOK
<1>1. ASSUME NEW t \in Threads, LockPresent(t) PROVE IndexInv'
  <2>1. i'[t] \in FirstReg(req'[t])..LastReg(req'[t]) /\ pc'[t] = "read_present"
    BY <1>1, RegRange, CpldType DEF LockPresent, Goto
  <2>2. \A u \in Threads : u # t => i'[u] = i[u] /\ pc'[u] = pc[u] /\ req'[u] = req[u]
    BY <1>1 DEF LockPresent, Goto
  <2>3. QED
    BY <2>1, <2>2 DEF IndexInv
<1>2. ASSUME NEW t \in Threads, ReadPresent(t) PROVE IndexInv'
  <2>1. CASE i[t] = LastReg(req[t])
    BY <1>2, <2>1 DEF ReadPresent, Goto, IndexInv
  <2>2. CASE i[t] # LastReg(req[t])
    <3>1. pc[t] = "read_present" /\ i[t] \in FirstReg(req[t])..LastReg(req[t])
      BY <1>2 DEF ReadPresent, IndexInv
    <3>2. FirstReg(req[t]) \in Nat /\ LastReg(req[t]) \in Nat
      BY RegRange, CpldType
    <3>3. i[t] + 1 \in FirstReg(req[t])..LastReg(req[t])
      BY <2>2, <3>1, <3>2
    <3>4. i' = [i EXCEPT ![t] = i[t] + 1] /\ req' = req /\ pc' = pc
      BY <1>2, <2>2 DEF ReadPresent
    <3>5. QED
      BY <3>1, <3>3, <3>4 DEF IndexInv
  <2>3. QED
    BY <2>1, <2>2
<1>3. ASSUME NEW t \in Threads, LockStatus(t) PROVE IndexInv'
  BY <1>3 DEF LockStatus, Goto, IndexInv
<1>4. ASSUME NEW t \in Threads, Notify(t) PROVE IndexInv'
  BY <1>4 DEF Notify, Goto, IndexInv
<1>5. ASSUME NEW t \in Threads, Fetch(t) PROVE IndexInv'
  <2>1. pc[t] = "fetch" /\ i[t] \in 0..2
    BY <1>5 DEF Fetch, IndexInv
  <2>2. CASE i[t] < 2
    <3>1. i' = [i EXCEPT ![t] = i[t] + 1] /\ req' = req /\ pc' = pc
      BY <1>5, <2>2 DEF Fetch
    <3>2. i[t] + 1 \in 0..2
      BY <2>1, <2>2
    <3>3. QED
      BY <2>1, <3>1, <3>2 DEF IndexInv
  <2>3. CASE ~(i[t] < 2)
    BY <1>5, <2>3 DEF Fetch, Goto, IndexInv
  <2>4. QED
    BY <2>2, <2>3
<1>6. ASSUME NEW t \in Threads, NEW l, l \notin {"read_present", "notify", "fetch"},
             Goto(t, l),
             \A u \in Threads : u # t => i'[u] = i[u] /\ req'[u] = req[u]
      PROVE  IndexInv'
  BY <1>6 DEF Goto, IndexInv
<1>7. ASSUME NEW t \in Threads, Call(t) \/ Return(t) \/ UnlockPresent(t) \/ ReadPresentFails(t)
      PROVE  IndexInv'
  BY <1>7, <1>6 DEF Call, Return, UnlockPresent, ReadPresentFails
<1>8. ASSUME NEW t \in Threads, CheckCache(t) \/ ReadFails(t) \/ UnlockStatus(t)
      PROVE  IndexInv'
  BY <1>8, <1>6 DEF CheckCache, ReadFails, UnlockStatus
<1>9. ASSUME NEW t \in Threads, TestPresent(t) \/ Show(t)
      PROVE  IndexInv'
  BY <1>9, <1>6 DEF TestPresent, Show, Answer
<1>10. ASSUME NEW t \in Threads, Modify(t) \/ Write(t) \/ WriteFails(t) \/ UnlockSet(t)
      PROVE  IndexInv'
  BY <1>10, <1>6 DEF Modify, Write, WriteFails, UnlockSet
<1>11. CASE UNCHANGED threadVars
  BY <1>11 DEF threadVars, IndexInv
<1>12. QED
  BY <1>1, <1>2, <1>3, <1>4, <1>5, <1>7, <1>8, <1>9, <1>10, <1>11
     DEF Next, Access, UpdatePresent, UpdateStatus, SetTxDisable, Expire, Swap, Flicker, vars

(* Only the actions that report a failure set an error, and each of them    *)
(* goes to an unlock or a return.                                           *)
LEMMA NextNoErrorYet == TypeOK /\ NoErrorYet /\ [Next]_vars => NoErrorYet'
<1> SUFFICES ASSUME TypeOK, NoErrorYet, [Next]_vars, NEW u \in Threads,
                    pc'[u] \notin {"unlock_present", "unlock_status", "unlock_set", "return"}
             PROVE  ret'[u] = "OK"
  BY DEF NoErrorYet
<1> USE DEF TypeOK
<1>1. ASSUME NEW t \in Threads, Call(t) \/ Return(t) \/ LockPresent(t) \/ ReadPresent(t)
                                 \/ ReadPresentFails(t) \/ UnlockPresent(t)
      PROVE  ret'[u] = "OK"
  BY <1>1 DEF Call, Return, LockPresent, ReadPresent, ReadPresentFails, UnlockPresent,
              Goto, NoErrorYet
<1>2. ASSUME NEW t \in Threads, CheckCache(t) \/ LockStatus(t) \/ Notify(t) \/ Fetch(t)
                                 \/ ReadFails(t) \/ UnlockStatus(t)
      PROVE  ret'[u] = "OK"
  BY <1>2 DEF CheckCache, LockStatus, Notify, Fetch, ReadFails, UnlockStatus, Goto, NoErrorYet
<1>3. ASSUME NEW t \in Threads, TestPresent(t) \/ Show(t)
      PROVE  ret'[u] = "OK"
  BY <1>3 DEF TestPresent, Show, Answer, Goto, NoErrorYet
<1>4. ASSUME NEW t \in Threads, Modify(t) \/ Write(t) \/ WriteFails(t) \/ UnlockSet(t)
      PROVE  ret'[u] = "OK"
  BY <1>4 DEF Modify, Write, WriteFails, UnlockSet, Goto, NoErrorYet
<1>5. CASE UNCHANGED threadVars
  BY <1>5 DEF threadVars, NoErrorYet
<1>6. QED
  BY <1>1, <1>2, <1>3, <1>4, <1>5
     DEF Next, Access, UpdatePresent, UpdateStatus, SetTxDisable, Expire, Swap, Flicker, vars

-----------------------------------------------------------------------------
(* valid becomes TRUE only in the last Fetch, whose thread holds the lock:  *)
(* no other thread can be refreshing.                                       *)
LEMMA NextNoHalfCache ==
  TypeOK /\ NoErrorYet /\ LockDiscipline /\ NoHalfCache /\ [Next]_vars => NoHalfCache'
<1> SUFFICES ASSUME TypeOK, NoErrorYet, LockDiscipline, NoHalfCache, [Next]_vars
             PROVE  NoHalfCache'
  OBVIOUS
<1> USE DEF TypeOK
<1>1. ASSUME NEW t \in Threads, Fetch(t)
      PROVE  NoHalfCache'
  <2>1. pc[t] = "fetch" /\ t \in lock /\ ret[t] = "OK"
    BY <1>1 DEF Fetch, LockDiscipline, Locked, NoErrorYet
  <2>2. \A u \in Threads : u # t => pc[u] \notin Locked
    BY <2>1 DEF LockDiscipline
  <2>3. \A u \in Threads : u # t => pc'[u] = pc[u]
    BY <1>1 DEF Fetch, Goto
  <2>4. ret' = ret
    BY <1>1 DEF Fetch
  <2>5. CASE pc'[t] = "fetch"
    <3>1. valid' = valid
      BY <1>1, <2>5 DEF Fetch, Goto
    <3>2. QED
      BY <2>1, <2>2, <2>3, <2>4, <2>5, <3>1 DEF NoHalfCache, Locked
  <2>6. CASE pc'[t] = "unlock_status"
    BY <2>1, <2>2, <2>3, <2>4, <2>6 DEF NoHalfCache, Locked
  <2>7. QED
    BY <1>1, <2>1, <2>5, <2>6 DEF Fetch, Goto
<1>2. ASSUME NEW t \in Threads, Call(t) \/ Return(t) \/ LockPresent(t) \/ ReadPresent(t)
                                 \/ ReadPresentFails(t) \/ UnlockPresent(t)
      PROVE  NoHalfCache'
  <2>1. valid' = valid
    BY <1>2 DEF Call, Return, LockPresent, ReadPresent, ReadPresentFails, UnlockPresent, cacheVars
  <2>2. \A u \in Threads : u # t => pc'[u] = pc[u] /\ ret'[u] = ret[u]
    BY <1>2 DEF Call, Return, LockPresent, ReadPresent, ReadPresentFails, UnlockPresent, Goto
  <2>3. pc'[t] \notin {"notify", "fetch", "unlock_status"}
    BY <1>2 DEF Call, Return, LockPresent, ReadPresent, ReadPresentFails, UnlockPresent, Goto
  <2>4. QED
    BY <2>1, <2>2, <2>3 DEF NoHalfCache
<1>3. ASSUME NEW t \in Threads, LockStatus(t)
      PROVE  NoHalfCache'
  BY <1>3 DEF LockStatus, NoHalfCache
<1>4. ASSUME NEW t \in Threads, CheckCache(t) \/ Notify(t) \/ ReadFails(t) \/ UnlockStatus(t)
      PROVE  NoHalfCache'
  BY <1>4 DEF CheckCache, Notify, ReadFails, UnlockStatus, Goto, NoHalfCache, cacheVars
<1>5. ASSUME NEW t \in Threads, TestPresent(t) \/ Show(t)
      PROVE  NoHalfCache'
  BY <1>5 DEF TestPresent, Show, Answer, Goto, NoHalfCache, cacheVars
<1>6. ASSUME NEW t \in Threads, Modify(t) \/ Write(t) \/ WriteFails(t) \/ UnlockSet(t)
      PROVE  NoHalfCache'
  BY <1>6 DEF Modify, Write, WriteFails, UnlockSet, Goto, NoHalfCache, cacheVars
<1>7. CASE UNCHANGED <<pc, ret, valid>>
  BY <1>7 DEF NoHalfCache
<1>8. QED
  BY <1>1, <1>2, <1>3, <1>4, <1>5, <1>6, <1>7
     DEF Next, Access, UpdatePresent, UpdateStatus, SetTxDisable, Expire, Swap, Flicker,
         vars, threadVars, cacheVars

-----------------------------------------------------------------------------
LEMMA InitInv == Init => IInv
<1> SUFFICES ASSUME Init PROVE IInv
  OBVIOUS
<1>1. TypeOK
  BY InitType
<1>2. IndexInv /\ NoErrorYet /\ LockDiscipline /\ NoHalfCache
  BY DEF Init, IndexInv, NoErrorYet, LockDiscipline, NoHalfCache, Locked
<1>3. QED
  BY <1>1, <1>2 DEF IInv

LEMMA NextInv == IInv /\ [Next]_vars => IInv'
  BY NextType, NextIndexInv, NextNoErrorYet, NextLockDiscipline, NextNoHalfCache DEF IInv

LEMMA Invariant == Spec => []IInv
  BY InitInv, NextInv, PTL DEF Spec

(* Every variable keeps its type, whatever the threads and the environment do. *)
THEOREM TypeCorrect == Spec => []TypeOK
<1>1. IInv => TypeOK
  BY DEF IInv
<1>2. QED
  BY <1>1, Invariant, PTL

(* update_lock is held exactly between a lock and its unlock, by one thread *)
(* at a time, whatever fails in between.                                    *)
THEOREM LockDisciplined == Spec => []LockDiscipline
<1>1. IInv => LockDiscipline
  BY DEF IInv
<1>2. QED
  BY <1>1, Invariant, PTL

(* A refresh that is not finished, or failed, never leaves a cache that the *)
(* unlocked test of data->qsfp->valid takes for good.                       *)
THEOREM NoHalfCacheServed == Spec => []NoHalfCache
<1>1. IInv => NoHalfCache
  BY DEF IInv
<1>2. QED
  BY <1>1, Invariant, PTL

-----------------------------------------------------------------------------
(* A module that stays plugged and answers.  An access gives up the lock     *)
(* between refreshing the cache and changing a lane; SteadyInv says what     *)
(* survives that: whoever may go on to change the cached word finds it valid *)
(* and equal to the register, or being refreshed.                            *)
Steady == Own \in InitPlugged /\ Disturbances \cap {"swap", "eeprom_error"} = {}

Refreshing(t) == pc[t] \in {"notify", "fetch"}

Agreement == valid /\ (\A t \in Threads : pc[t] # "write") => status[1] = regs["TX_DISABLE"]

ChangeReady ==
  \A t \in Threads : pc[t] = "write" =>
    valid /\ status[1] = Disabled(req[t], regs["TX_DISABLE"])

Fetched == \A t \in Threads : pc[t] = "fetch" /\ i[t] = 2 => status[1] = regs["TX_DISABLE"]

CacheReady ==
  (\E t \in Threads : pc[t] \in {"use", "unlock_status"}) =>
    valid \/ \E u \in Threads : Refreshing(u)

SteadyInv == Own \in plugged /\ Agreement /\ ChangeReady /\ Fetched /\ CacheReady

LEMMA SteadyInit == ASSUME Steady PROVE Init => SteadyInv
  BY DEF Steady, Init, SteadyInv, Agreement, ChangeReady, Fetched, CacheReady

(* Of the lock holders only one exists, so a thread that writes or fetches   *)
(* is alone in doing so.                                                     *)
LEMMA Alone ==
  ASSUME LockDiscipline, NEW t \in Threads, pc[t] \in Locked
  PROVE  \A u \in Threads : u # t => pc[u] \notin Locked
  BY DEF LockDiscipline

LEMMA SteadyNext ==
  ASSUME Steady, IInv, SteadyInv, [Next]_vars PROVE SteadyInv'
<1> USE DEF IInv, TypeOK
<1>1. Own \in plugged'
  <2>1. "swap" \notin Disturbances
    BY DEF Steady
  <2>2. \A p \in Ports : ~Swap(p)
    BY <2>1 DEF Swap
  <2>3. plugged' = plugged
    BY <2>2 DEF Next, Access, UpdatePresent, UpdateStatus, SetTxDisable, Expire, Flicker, vars,
       moduleVars, Call, Return, LockPresent, ReadPresent, ReadPresentFails, UnlockPresent,
       TestPresent, CheckCache, LockStatus, Notify, Fetch, ReadFails, UnlockStatus, Show,
       Modify, Write, WriteFails, UnlockSet
  <2>4. QED
    BY <2>3 DEF SteadyInv
<1>2. ~EepromFails
  BY DEF EepromFails, Steady, SteadyInv
<1>3. ASSUME NEW t \in Threads,
             Call(t) \/ Return(t) \/ LockPresent(t) \/ ReadPresent(t)
             \/ ReadPresentFails(t) \/ UnlockPresent(t)
      PROVE  SteadyInv'
  <2>1. UNCHANGED <<valid, status, regs>>
    BY <1>3 DEF Call, Return, LockPresent, ReadPresent, ReadPresentFails, UnlockPresent,
       cacheVars, moduleVars
  <2>2. \A u \in Threads : u # t => pc'[u] = pc[u] /\ req'[u] = req[u] /\ i'[u] = i[u]
    BY <1>3 DEF Call, Return, LockPresent, ReadPresent, ReadPresentFails, UnlockPresent, Goto
  <2>3. /\ pc[t] \notin {"write", "notify", "fetch", "use", "unlock_status"}
        /\ pc'[t] \notin {"write", "notify", "fetch", "use", "unlock_status"}
    BY <1>3 DEF Call, Return, LockPresent, ReadPresent, ReadPresentFails, UnlockPresent, Goto
  <2>4. QED
    BY <1>1, <2>1, <2>2, <2>3
       DEF SteadyInv, Agreement, ChangeReady, Fetched, CacheReady, Refreshing, Disabled
<1>4. ASSUME NEW t \in Threads, TestPresent(t) \/ CheckCache(t) \/ Notify(t)
                                 \/ UnlockStatus(t) \/ Show(t) \/ UnlockSet(t)
      PROVE  SteadyInv'
  <2>1. UNCHANGED <<valid, status, regs, req, i>>
    BY <1>4 DEF TestPresent, CheckCache, Notify, UnlockStatus, Show, UnlockSet,
       cacheVars, moduleVars
  <2>2. \A u \in Threads : u # t => pc'[u] = pc[u]
    BY <1>4 DEF TestPresent, CheckCache, Notify, UnlockStatus, Show, UnlockSet, Answer, Goto
  <2>3. pc[t] # "write" /\ pc'[t] # "write" /\ (pc'[t] = "fetch" => i[t] = 0)
    BY <1>4 DEF TestPresent, CheckCache, Notify, UnlockStatus, Show, UnlockSet, Answer, Goto,
       IndexInv
  <2>4. /\ Refreshing(t) => pc'[t] = "fetch"
        /\ pc'[t] \in {"use", "unlock_status"} => valid \/ pc[t] = "unlock_status"
    BY <1>4 DEF TestPresent, CheckCache, Notify, UnlockStatus, Show, UnlockSet, Answer, Goto,
       Refreshing
  <2>5. Agreement' /\ ChangeReady' /\ Fetched'
    BY <2>1, <2>2, <2>3 DEF SteadyInv, Agreement, ChangeReady, Fetched, Disabled
  <2>6. CacheReady'
    BY <2>1, <2>2, <2>4 DEF SteadyInv, CacheReady, Refreshing
  <2>7. QED
    BY <1>1, <2>5, <2>6 DEF SteadyInv
<1>5. ASSUME NEW t \in Threads, LockStatus(t) PROVE SteadyInv'
  <2>1. pc[t] \notin Locked /\ pc'[t] = "notify" /\ valid' = FALSE
    BY <1>5 DEF LockStatus, Goto, Locked
  <2>2. \A u \in Threads : pc[u] \notin Locked
    BY <1>5 DEF LockStatus, Acquire, LockDiscipline
  <2>3. \A u \in Threads : pc'[u] \notin {"write", "fetch"}
    BY <1>5, <2>2 DEF LockStatus, Goto, Locked
  <2>4. QED
    BY <1>1, <2>1, <2>3 DEF SteadyInv, Agreement, ChangeReady, Fetched, CacheReady, Refreshing
<1>6. ASSUME NEW t \in Threads, Fetch(t) PROVE SteadyInv'
  <2>1. pc[t] = "fetch" /\ i[t] \in 0..2
    BY <1>6 DEF Fetch, IndexInv
  <2>2. \A u \in Threads : u # t => pc[u] \notin Locked /\ pc'[u] = pc[u]
    BY <1>6, <2>1, Alone DEF Fetch, Goto, Locked
  <2>3. status' = [status EXCEPT ![i[t]] = regs[StatusReg(i[t])]] /\ regs' = regs
    BY <1>6 DEF Fetch, moduleVars
  <2>4. CASE i[t] < 2
    <3>1. i'[t] = i[t] + 1 /\ pc' = pc /\ valid' = valid
      BY <1>6, <2>4 DEF Fetch
    <3>2. i[t] = 1 => status'[1] = regs'["TX_DISABLE"]
      BY <2>3 DEF StatusReg
    <3>3. i'[t] = 2 => i[t] = 1
      BY <2>1, <3>1
    <3>4. ~valid
      BY <2>1 DEF NoHalfCache
    <3>5. QED
      BY <1>1, <2>1, <2>2, <3>1, <3>2, <3>3, <3>4
         DEF SteadyInv, Agreement, ChangeReady, Fetched, CacheReady, Refreshing, Locked
  <2>5. CASE ~(i[t] < 2)
    <3>1. i[t] = 2 /\ valid' /\ pc'[t] = "unlock_status"
      BY <1>6, <2>1, <2>5 DEF Fetch, Goto
    <3>2. status'[1] = regs'["TX_DISABLE"]
      BY <2>1, <2>3, <3>1 DEF SteadyInv, Fetched
    <3>3. \A u \in Threads : pc'[u] \notin {"write", "fetch"}
      BY <2>2, <3>1 DEF Locked
    <3>4. QED
      BY <1>1, <3>1, <3>2, <3>3 DEF SteadyInv, Agreement, ChangeReady, Fetched, CacheReady
  <2>6. QED
    BY <2>4, <2>5
<1>7. ASSUME NEW t \in Threads, Modify(t) PROVE SteadyInv'
  <2>1. \A u \in Threads : pc[u] \notin Locked
    BY <1>7 DEF Modify, Acquire, LockDiscipline
  <2>2. pc[t] = "use" /\ pc' = [pc EXCEPT ![t] = "write"]
    BY <1>7 DEF Modify, Goto
  <2>3. valid /\ status[1] = regs["TX_DISABLE"]
    BY <2>1, <2>2 DEF SteadyInv, CacheReady, Agreement, Refreshing, Locked
  <2>4. status'[1] = Disabled(req[t], status[1]) /\ UNCHANGED <<valid, regs, req, i>>
    BY <1>7 DEF Modify, moduleVars
  <2>5. pc'[t] = "write" /\ \A u \in Threads : u # t => pc'[u] \notin {"write", "fetch"}
    BY <2>1, <2>2 DEF Locked
  <2>6. QED
    BY <1>1, <2>3, <2>4, <2>5
       DEF SteadyInv, Agreement, ChangeReady, Fetched, CacheReady, Disabled
<1>8. ASSUME NEW t \in Threads, Write(t) PROVE SteadyInv'
  <2>1. pc[t] = "write" /\ pc' = [pc EXCEPT ![t] = "unlock_set"]
    BY <1>8 DEF Write, Goto
  <2>2. \A u \in Threads : pc'[u] \notin {"write", "fetch"}
    BY <2>1, Alone DEF Locked
  <2>3. UNCHANGED <<valid, status>> /\ regs'["TX_DISABLE"] = status[1] /\ valid
    BY <1>8, <2>1 DEF Write, cacheVars, Registers, SteadyInv, ChangeReady
  <2>4. QED
    BY <1>1, <2>2, <2>3 DEF SteadyInv, Agreement, ChangeReady, Fetched, CacheReady
<1>9. ASSUME NEW t \in Threads, ReadFails(t) \/ WriteFails(t) PROVE SteadyInv'
  BY <1>9, <1>2 DEF ReadFails, WriteFails
<1>10. CASE Flicker
  <2>1. UNCHANGED <<pc, req, i, valid, status>> /\ regs'["TX_DISABLE"] = regs["TX_DISABLE"]
    BY <1>10 DEF Flicker, threadVars, cacheVars, Registers
  <2>2. QED
    BY <1>1, <2>1
       DEF SteadyInv, Agreement, ChangeReady, Fetched, CacheReady, Refreshing, Disabled
<1>11. CASE UNCHANGED <<pc, req, i, valid, status, regs>>
  BY <1>1, <1>11
     DEF SteadyInv, Agreement, ChangeReady, Fetched, CacheReady, Refreshing, Disabled
<1>12. ASSUME NEW p \in Ports, Swap(p) PROVE SteadyInv'
  BY <1>12 DEF Swap, Steady
<1>13. QED
  BY <1>3, <1>4, <1>5, <1>6, <1>7, <1>8, <1>9, <1>10, <1>11, <1>12
     DEF Next, Access, UpdatePresent, UpdateStatus, SetTxDisable, Expire,
         vars, threadVars, cacheVars, moduleVars

(* With a module that stays and answers, a valid cache agrees with the       *)
(* tx_disable register whenever the port is not locked.                      *)
THEOREM CacheAgreesSteady == ASSUME Steady PROVE Spec => []CacheAgrees
<1>1. Init => SteadyInv
  BY SteadyInit
<1>2. IInv /\ SteadyInv /\ [Next]_vars => SteadyInv'
  BY SteadyNext
<1>3. IInv /\ SteadyInv => CacheAgrees
  BY DEF IInv, LockDiscipline, Locked, SteadyInv, Agreement, CacheAgrees
<1>4. QED
  BY <1>1, <1>2, <1>3, Invariant, PTL DEF Spec

(* With a module that stays and answers, switching some lanes never changes  *)
(* another, however the accesses of different threads interleave.            *)
THEOREM OtherLanesKeptSteady == ASSUME Steady PROVE Spec => OtherLanesKept
<1>1. Init => SteadyInv
  BY SteadyInit
<1>2. IInv /\ SteadyInv /\ [Next]_vars => SteadyInv'
  BY SteadyNext
<1> DEFINE Kept == \A l \in Lanes :
                     (l \in regs["TX_DISABLE"]) # (l \in regs'["TX_DISABLE"]) =>
                       \E t \in Threads : pc[t] = "write" /\ l \in req[t].lanes
<1>3. IInv /\ SteadyInv /\ [Next]_vars => [Kept]_vars
  <2> SUFFICES ASSUME IInv, SteadyInv, Next PROVE Kept
    BY DEF vars
  <2>1. ~EepromFails /\ "swap" \notin Disturbances
    BY DEF EepromFails, Steady, SteadyInv
  <2>2. ASSUME NEW t \in Threads, Write(t) PROVE Kept
    <3>1. pc[t] = "write" /\ regs'["TX_DISABLE"] = Disabled(req[t], regs["TX_DISABLE"])
      BY <2>2 DEF Write, IInv, TypeOK, Registers, SteadyInv, ChangeReady
    <3>2. QED
      BY <3>1 DEF Disabled
  <2>3. CASE regs'["TX_DISABLE"] = regs["TX_DISABLE"]
    BY <2>3
  <2>4. CASE Flicker
    <3>1. regs'["TX_DISABLE"] = regs["TX_DISABLE"]
      BY <2>4 DEF Flicker, IInv, TypeOK, Registers
    <3>2. QED
      BY <3>1
  <2>5. QED
    BY <2>1, <2>2, <2>3, <2>4 DEF Next, Access, UpdatePresent, UpdateStatus, SetTxDisable,
       Expire, Swap, moduleVars, Call, Return, LockPresent, ReadPresent, ReadPresentFails,
       UnlockPresent, TestPresent, CheckCache, LockStatus, Notify, Fetch, ReadFails,
       UnlockStatus, Show, Modify, WriteFails, UnlockSet
<1>4. QED
  BY <1>1, <1>2, <1>3, Invariant, PTL DEF Spec, OtherLanesKept

-----------------------------------------------------------------------------
(* A thread that has modified the cached word keeps it to itself until its  *)
(* write is done: what goes to the module are the lanes it was asked for.   *)
Asked(r, bits) == IF r.disable = "on" THEN r.lanes \subseteq bits ELSE r.lanes \cap bits = {}

WriteReady == \A t \in Threads : pc[t] = "write" => Asked(req[t], status[1])

LEMMA DisabledAsked ==
  ASSUME NEW r \in Requests, NEW bits PROVE Asked(r, Disabled(r, bits))
  BY DEF Asked, Disabled

LEMMA WriteReadyNext == IInv /\ WriteReady /\ [Next]_vars => WriteReady'
<1> SUFFICES ASSUME IInv, WriteReady, [Next]_vars PROVE WriteReady'
  OBVIOUS
<1> USE DEF IInv, TypeOK
<1>1. ASSUME NEW t \in Threads, Modify(t) PROVE WriteReady'
  <2>1. \A u \in Threads : pc[u] # "write"
    BY <1>1 DEF Modify, Acquire, LockDiscipline, Locked
  <2>2. \A u \in Threads : pc'[u] = "write" => u = t
    BY <1>1, <2>1 DEF Modify, Goto
  <2>3. status'[1] = Disabled(req[t], status[1]) /\ req' = req
    BY <1>1 DEF Modify
  <2>4. Asked(req[t], status[1])'
    BY <2>3, DisabledAsked
  <2>5. QED
    BY <2>2, <2>4 DEF WriteReady
<1>2. ASSUME NEW t \in Threads, LockStatus(t) PROVE WriteReady'
  <2>1. \A u \in Threads : pc[u] # "write"
    BY <1>2 DEF LockStatus, Acquire, LockDiscipline, Locked
  <2>2. \A u \in Threads : pc'[u] # "write"
    BY <1>2, <2>1 DEF LockStatus, Goto
  <2>3. QED
    BY <2>2 DEF WriteReady
<1>3. ASSUME NEW t \in Threads, Fetch(t) PROVE WriteReady'
  <2>1. pc[t] = "fetch"
    BY <1>3 DEF Fetch
  <2>2. \A u \in Threads : pc[u] # "write"
    BY <2>1, Alone DEF Locked
  <2>3. \A u \in Threads : pc'[u] # "write"
    BY <1>3, <2>2 DEF Fetch, Goto
  <2>4. QED
    BY <2>3 DEF WriteReady
<1>4. ASSUME status' = status,
             \A u \in Threads : pc'[u] = "write" => pc[u] = "write" /\ req'[u] = req[u]
      PROVE  WriteReady'
  BY <1>4 DEF WriteReady, Asked
<1>5. ASSUME NEW t \in Threads,
             \/ Call(t) \/ Return(t) \/ LockPresent(t) \/ ReadPresent(t)
             \/ ReadPresentFails(t) \/ UnlockPresent(t) \/ TestPresent(t)
      PROVE  WriteReady'
  <2>1. status' = status
    BY <1>5 DEF Call, Return, LockPresent, ReadPresent, ReadPresentFails, UnlockPresent,
       TestPresent, cacheVars
  <2>2. \A u \in Threads : pc'[u] = "write" => pc[u] = "write" /\ req'[u] = req[u]
    BY <1>5 DEF Call, Return, LockPresent, ReadPresent, ReadPresentFails, UnlockPresent,
       TestPresent, Answer, Goto
  <2>3. QED
    BY <2>1, <2>2, <1>4
<1>6. ASSUME NEW t \in Threads,
             \/ CheckCache(t) \/ Notify(t) \/ ReadFails(t) \/ UnlockStatus(t) \/ Show(t)
             \/ Write(t) \/ WriteFails(t) \/ UnlockSet(t)
      PROVE  WriteReady'
  <2>1. status' = status /\ req' = req
    BY <1>6 DEF CheckCache, Notify, ReadFails, UnlockStatus, Show, Write, WriteFails,
       UnlockSet, cacheVars
  <2>2. \A u \in Threads : pc'[u] = "write" => pc[u] = "write"
    BY <1>6 DEF CheckCache, Notify, ReadFails, UnlockStatus, Show, Write, WriteFails,
       UnlockSet, Answer, Goto
  <2>3. QED
    BY <2>1, <2>2, <1>4
<1>7. CASE UNCHANGED <<pc, req, status>>
  BY <1>7, <1>4
<1>8. QED
  BY <1>1, <1>2, <1>3, <1>5, <1>6, <1>7
     DEF Next, Access, UpdatePresent, UpdateStatus, SetTxDisable, Expire, Swap, Flicker,
         vars, threadVars, cacheVars

(* Only its own write takes a thread out of "write".                        *)
LEMMA WriteEnds ==
  ASSUME TypeOK, [Next]_vars, NEW t \in Threads, pc[t] = "write", pc'[t] # "write"
  PROVE  Write(t) \/ WriteFails(t)
<1> USE DEF TypeOK
<1>1. ASSUME NEW u \in Threads,
             \/ Call(u) \/ Return(u) \/ LockPresent(u) \/ ReadPresent(u)
             \/ ReadPresentFails(u) \/ UnlockPresent(u) \/ TestPresent(u)
      PROVE  FALSE
  BY <1>1 DEF Call, Return, LockPresent, ReadPresent, ReadPresentFails, UnlockPresent,
     TestPresent, Answer, Goto
<1>2. ASSUME NEW u \in Threads,
             \/ CheckCache(u) \/ LockStatus(u) \/ Notify(u) \/ Fetch(u) \/ ReadFails(u)
             \/ UnlockStatus(u) \/ Show(u) \/ Modify(u) \/ UnlockSet(u)
      PROVE  FALSE
  BY <1>2 DEF CheckCache, LockStatus, Notify, Fetch, ReadFails, UnlockStatus, Show, Modify,
     UnlockSet, Answer, Goto
<1>3. ASSUME NEW u \in Threads, Write(u) \/ WriteFails(u) PROVE u = t
  BY <1>3 DEF Write, WriteFails, Goto
<1>4. QED
  BY <1>1, <1>2, <1>3
     DEF Next, Access, UpdatePresent, UpdateStatus, SetTxDisable, Expire, Swap, Flicker,
         vars, threadVars

(* A set that reports success wrote a word with its lanes as asked, however  *)
(* the accesses of other threads, failures and swaps interleave with it.     *)
THEOREM SetTakesEffectHolds == Spec => SetTakesEffect
<1>1. Init => WriteReady
  BY DEF Init, WriteReady
<1> DEFINE Effect == \A t \in Threads :
                       pc[t] = "write" /\ pc'[t] = "unlock_set" /\ ret'[t] = "OK" =>
                         IF req[t].disable = "on"
                           THEN req[t].lanes \subseteq regs'["TX_DISABLE"]
                           ELSE req[t].lanes \cap regs'["TX_DISABLE"] = {}
<1>2. IInv /\ WriteReady /\ [Next]_vars => [Effect]_vars
  <2> SUFFICES ASSUME IInv, WriteReady, [Next]_vars, NEW t \in Threads,
                      pc[t] = "write", pc'[t] = "unlock_set", ret'[t] = "OK"
               PROVE  IF req[t].disable = "on"
                        THEN req[t].lanes \subseteq regs'["TX_DISABLE"]
                        ELSE req[t].lanes \cap regs'["TX_DISABLE"] = {}
    BY DEF vars
  <2>1. Write(t)
    BY WriteEnds DEF IInv, TypeOK, WriteFails
  <2>2. regs'["TX_DISABLE"] = status[1]
    BY <2>1 DEF Write, IInv, TypeOK, Registers
  <2>3. QED
    BY <2>2 DEF WriteReady, Asked
<1>3. QED
  BY <1>1, <1>2, WriteReadyNext, Invariant, PTL DEF Spec, SetTakesEffect

-----------------------------------------------------------------------------
(* Presence: a refresh collects the absent ports of its registers while it   *)
(* holds the lock, and the answer is taken from the shared bits after it.    *)
Covered(t, last) ==
  \A k \in FirstReg(req[t])..last : CpldRegs[k] \ present \subseteq plugSeen[t]

PresenceOK(t) ==
  /\ pc[t] \in Presence => plugged \subseteq plugSeen[t]
  /\ pc[t] = "read_present" => Covered(t, i[t] - 1)
  /\ pc[t] = "unlock_present" /\ ret[t] = "OK" => Covered(t, LastReg(req[t]))
  /\ pc[t] = "test_present" /\ ~disturbed[t] => Covered(t, LastReg(req[t]))

PresenceInv == \A t \in Threads : PresenceOK(t)

(* A thread that a step leaves where it is, while presence bits are only set *)
(* and modules only seen.                                                    *)
LEMMA PresenceStays ==
  ASSUME NEW t \in Threads, PresenceOK(t),
         pc'[t] = pc[t], req'[t] = req[t], i'[t] = i[t], ret'[t] = ret[t],
         disturbed'[t] = disturbed[t] \/ pc[t] # "test_present",
         pc[t] \in Presence => /\ present \subseteq present'
                               /\ plugSeen[t] \cup plugged' \subseteq plugSeen'[t]
  PROVE  PresenceOK(t)'
<1>1. ASSUME pc[t] \in Presence, NEW last, Covered(t, last) PROVE Covered(t, last)'
  BY <1>1 DEF Covered, FirstReg
<1>2. QED
  BY <1>1 DEF PresenceOK, Presence, LastReg

LEMMA PresenceNext == IInv /\ PresenceInv /\ [Next]_vars => PresenceInv'
<1> SUFFICES ASSUME IInv, PresenceInv, [Next]_vars PROVE PresenceInv'
  OBVIOUS
<1> USE DEF IInv, TypeOK
<1>1. ASSUME NEW t \in Threads, PresenceOK(t)',
             \A u \in Threads \ {t} : /\ pc'[u] = pc[u] /\ req'[u] = req[u] /\ i'[u] = i[u]
                                      /\ ret'[u] = ret[u] /\ disturbed'[u] = disturbed[u]
                                      /\ plugSeen'[u] = plugSeen[u],
             present \subseteq present', plugged' = plugged
      PROVE  PresenceInv'
  <2>1. ASSUME NEW u \in Threads \ {t} PROVE PresenceOK(u)'
    <3>1. PresenceOK(u)
      BY DEF PresenceInv
    <3>2. pc[u] \in Presence => plugSeen[u] \cup plugged' \subseteq plugSeen'[u]
      BY <1>1, <3>1 DEF PresenceOK
    <3>3. QED
      BY <1>1, <3>1, <3>2, PresenceStays
  <2>2. QED
    BY <1>1, <2>1 DEF PresenceInv
<1>2. ASSUME NEW t \in Threads, LockPresent(t) PROVE PresenceInv'
  <2>1. \A u \in Threads : pc[u] \notin Locked
    BY <1>2 DEF LockPresent, Acquire, LockDiscipline
  <2>2. /\ pc[t] = "lock_present" /\ pc' = [pc EXCEPT ![t] = "read_present"]
        /\ i' = [i EXCEPT ![t] = FirstReg(req[t])] /\ UNCHANGED <<req, ret, plugSeen, plugged>>
        /\ \A u \in Threads : u # t => disturbed'[u] = (disturbed[u] \/ pc[u] \in {"unlock_present", "test_present"})
    BY <1>2 DEF LockPresent, Goto, moduleVars
  <2>3. PresenceOK(t)'
    <3>1. FirstReg(req[t]) \in Int
      BY RegRange, CpldType
    <3>2. i'[t] = FirstReg(req'[t]) /\ FirstReg(req'[t]) \in Int
      BY <2>2, <3>1
    <3>3. Covered(t, i[t] - 1)'
      BY <3>2 DEF Covered
    <3>4. pc'[t] = "read_present" /\ plugged \subseteq plugSeen[t]
      BY <2>2 DEF PresenceInv, PresenceOK, Presence
    <3>5. QED
      BY <2>2, <3>3, <3>4 DEF PresenceOK
  <2>4. ASSUME NEW u \in Threads, u # t PROVE PresenceOK(u)'
    <3>1. PresenceOK(u) /\ pc[u] \notin Locked
      BY <2>1 DEF PresenceInv
    <3>2. pc'[u] = pc[u] /\ pc[u] \notin {"read_present", "unlock_present"}
      BY <2>2, <2>4, <3>1 DEF Locked
    <3>3. pc[u] = "test_present" => disturbed'[u]
      BY <2>2, <2>4
    <3>4. QED
      BY <2>2, <3>1, <3>2, <3>3 DEF PresenceOK
  <2>5. QED
    BY <2>3, <2>4 DEF PresenceInv
<1>3. ASSUME NEW t \in Threads, ReadPresent(t) PROVE PresenceInv'
  <2>1. /\ pc[t] = "read_present" /\ i[t] \in FirstReg(req[t])..LastReg(req[t])
        /\ present' = present \cup (CpldRegs[i[t]] \ plugged)
        /\ UNCHANGED <<req, ret, plugged, plugSeen, disturbed>>
    BY <1>3 DEF ReadPresent, IndexInv, moduleVars, history
  <2>2. plugged \subseteq plugSeen[t] /\ Covered(t, i[t] - 1)
    BY <2>1 DEF PresenceInv, PresenceOK, Presence
  <2>3. FirstReg(req[t]) \in Int /\ LastReg(req[t]) \in Int /\ i[t] \in Int
    BY RegRange, CpldType
  <2>4. \A k \in FirstReg(req[t])..i[t] : CpldRegs[k] \ present' \subseteq plugSeen[t]
    <3>1. ASSUME NEW k \in FirstReg(req[t])..(i[t] - 1)
          PROVE  CpldRegs[k] \ present' \subseteq plugSeen[t]
      BY <2>1, <2>2 DEF Covered
    <3>2. CpldRegs[i[t]] \ present' \subseteq plugSeen[t]
      BY <2>1, <2>2
    <3>3. QED
      BY <2>3, <3>1, <3>2
  <2>5. PresenceOK(t)'
    <3>1. CASE i[t] = LastReg(req[t])
      <4>1. pc'[t] = "unlock_present"
        BY <1>3, <3>1 DEF ReadPresent, Goto
      <4>2. Covered(t, LastReg(req[t]))'
        BY <2>1, <2>4, <3>1 DEF Covered
      <4>3. QED
        BY <2>1, <2>2, <4>1, <4>2 DEF PresenceOK
    <3>2. CASE i[t] # LastReg(req[t])
      <4>1. pc'[t] = "read_present" /\ i'[t] = i[t] + 1
        BY <1>3, <2>1, <3>2 DEF ReadPresent
      <4>2. i'[t] - 1 = i[t]
        BY <2>3, <4>1
      <4>3. Covered(t, i[t] - 1)'
        BY <2>1, <2>4, <4>2 DEF Covered
      <4>4. QED
        BY <2>1, <2>2, <4>1, <4>3 DEF PresenceOK
    <3>3. QED
      BY <3>1, <3>2
  <2>6. \A u \in Threads \ {t} : pc'[u] = pc[u] /\ i'[u] = i[u]
    BY <1>3 DEF ReadPresent, Goto
  <2>7. QED
    BY <1>1, <2>1, <2>5, <2>6
<1>4. ASSUME NEW t \in Threads, Call(t) \/ ReadPresentFails(t) PROVE PresenceInv'
  <2>1. /\ \A u \in Threads \ {t} : /\ pc'[u] = pc[u] /\ req'[u] = req[u] /\ i'[u] = i[u]
                                    /\ ret'[u] = ret[u] /\ disturbed'[u] = disturbed[u]
                                    /\ plugSeen'[u] = plugSeen[u]
        /\ present' = present /\ plugged' = plugged
    BY <1>4 DEF Call, ReadPresentFails, Goto, moduleVars, history
  <2>2. /\ pc'[t] = "lock_present" /\ plugSeen'[t] = plugged
        \/ /\ pc[t] = "read_present" /\ pc'[t] = "unlock_present" /\ ret'[t] = "error"
           /\ plugSeen' = plugSeen
    BY <1>4 DEF Call, ReadPresentFails, Goto, history
  <2>3. PresenceOK(t)'
    BY <2>1, <2>2 DEF PresenceInv, PresenceOK, Presence
  <2>4. QED
    BY <1>1, <2>1, <2>3
<1>5. ASSUME NEW t \in Threads, UnlockPresent(t) PROVE PresenceInv'
  <2>1. /\ \A u \in Threads \ {t} : pc'[u] = pc[u] /\ plugSeen'[u] = plugSeen[u]
        /\ UNCHANGED <<req, i, ret, disturbed, present, plugged>>
        /\ pc[t] = "unlock_present"
    BY <1>5 DEF UnlockPresent, Goto, moduleVars
  <2>2. \/ ret[t] = "OK" /\ pc'[t] = "test_present" /\ plugSeen'[t] = plugSeen[t]
        \/ pc'[t] = "return"
    BY <1>5 DEF UnlockPresent, Goto
  <2>3. PresenceOK(t)'
    BY <2>1, <2>2 DEF PresenceInv, PresenceOK, Presence, Covered
  <2>4. QED
    BY <1>1, <2>1, <2>3
<1>6. ASSUME NEW t \in Threads,
             /\ pc'[t] \notin Presence
             /\ \A u \in Threads \ {t} : /\ pc'[u] = pc[u] /\ req'[u] = req[u] /\ i'[u] = i[u]
                                         /\ ret'[u] = ret[u] /\ disturbed'[u] = disturbed[u]
                                         /\ plugSeen'[u] = plugSeen[u]
             /\ present' = present /\ plugged' = plugged
      PROVE  PresenceInv'
  <2>1. PresenceOK(t)'
    BY <1>6 DEF PresenceOK, Presence
  <2>2. QED
    BY <1>1, <1>6, <2>1
<1>7. ASSUME NEW t \in Threads,
             Return(t) \/ TestPresent(t) \/ CheckCache(t) \/ LockStatus(t) \/ Notify(t)
      PROVE  PresenceInv'
  BY <1>7, <1>6 DEF Return, TestPresent, CheckCache, LockStatus, Notify, Answer, Goto,
     moduleVars, history, Presence
<1>8. ASSUME NEW t \in Threads, Fetch(t) \/ ReadFails(t) \/ UnlockStatus(t) \/ Show(t)
      PROVE  PresenceInv'
  BY <1>8, <1>6 DEF Fetch, ReadFails, UnlockStatus, Show, Answer, Goto,
     moduleVars, history, Presence
<1>9. ASSUME NEW t \in Threads, SetTxDisable(t) PROVE PresenceInv'
  BY <1>9, <1>6 DEF SetTxDisable, Modify, Write, WriteFails, UnlockSet, Goto,
     moduleVars, history, Presence
<1>10. ASSUME UNCHANGED <<pc, req, i, ret, present, disturbed>>,
              \A t \in Threads : pc[t] \in Presence =>
                plugSeen[t] \cup plugged' \subseteq plugSeen'[t]
       PROVE  PresenceInv'
  BY <1>10, PresenceStays DEF PresenceInv
<1>11. ASSUME NEW p \in Ports, Swap(p) PROVE PresenceInv'
  <2>1. \A t \in Threads : pc[t] \in Presence => plugSeen'[t] = plugSeen[t] \cup plugged'
    BY <1>11 DEF Swap
  <2>2. QED
    BY <1>10, <1>11, <2>1 DEF Swap, threadVars
<1>12. CASE UNCHANGED <<pc, req, i, ret, present, disturbed, plugSeen, plugged>>
  <2>1. \A t \in Threads : pc[t] \in Presence => plugSeen[t] \cup plugged' \subseteq plugSeen'[t]
    BY <1>12 DEF PresenceInv, PresenceOK
  <2>2. QED
    BY <1>10, <1>12, <2>1
<1>13. QED
  BY <1>2, <1>3, <1>4, <1>5, <1>7, <1>8, <1>9, <1>11, <1>12
     DEF Next, Access, UpdatePresent, UpdateStatus, Expire, Flicker, vars, threadVars,
         moduleVars, history

(* A port is taken for present only if it held a module at some moment of    *)
(* the access, although the bits are shared and read without the lock: the   *)
(* one thing that breaks it is another access's clearing of them.            *)
THEOREM PresenceHonestHolds == Spec => []PresenceHonest
<1>1. Init => PresenceInv
  BY DEF Init, PresenceInv, PresenceOK, Presence
<1>2. PresenceInv => PresenceHonest
  BY DEF PresenceInv, PresenceOK, PresenceHonest, Covered
<1>3. QED
  BY <1>1, <1>2, PresenceNext, Invariant, PTL DEF Spec
=============================================================================
