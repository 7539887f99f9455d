----------------------------- MODULE SlaveAccess -----------------------------
(***************************************************************************)
(* What the SMBus masters promise to their callers: every transfer takes   *)
(* effect at one instant between its call and its return.  A successful    *)
(* read returns bytes the slave held together, a successful write stores   *)
(* all of its bytes, and a failed write stores a prefix of them.           *)
(* FpgaSmbusRefinement shows that the driver (FpgaSmbus) implements this.  *)
(***************************************************************************)
EXTENDS Integers, Sequences

CONSTANTS Callers, Channels, Slaves, ByteSize, Requests

VARIABLES
  state,  \* "idle", "pending" or "done"
  op,     \* the request of a caller
  result, \* what its call returns once done: [ret, data]
  store   \* contents of the slaves

vars == <<state, op, result, store>>

Errors == {"EINVAL", "ERESTARTSYS", "EBUSY", "ETIMEDOUT"}
NoRequest == CHOOSE r \in Requests : TRUE
NoResult == [ret |-> "OK", data |-> <<>>]
Cell(r, i) == (r.off + i) % ByteSize

Init ==
  /\ state = [p \in Callers |-> "idle"]
  /\ op = [p \in Callers |-> NoRequest]
  /\ result = [p \in Callers |-> NoResult]
  /\ store = [ch \in Channels |-> [a \in Slaves |-> [o \in 0..(ByteSize - 1) |-> 0]]]

Call(p) ==
  /\ state[p] = "idle"
  /\ state' = [state EXCEPT ![p] = "pending"]
  /\ \E r \in Requests : op' = [op EXCEPT ![p] = r]
  /\ UNCHANGED <<result, store>>

Answer(p, ret, data) ==
  /\ state' = [state EXCEPT ![p] = "done"]
  /\ op' = [op EXCEPT ![p] = NoRequest]
  /\ result' = [result EXCEPT ![p] = [ret |-> ret, data |-> data]]

Refuse(p) ==
  /\ state[p] = "idle"
  /\ Answer(p, "EINVAL", <<>>)
  /\ UNCHANGED store

Return(p) ==
  /\ state[p] = "done"
  /\ state' = [state EXCEPT ![p] = "idle"]
  /\ result' = [result EXCEPT ![p] = NoResult]
  /\ UNCHANGED <<op, store>>

(* The first n bytes of a write are stored. *)
Stored(r, n) ==
  [store EXCEPT ![r.ch][r.addr] =
     [o \in 0..(ByteSize - 1) |->
        IF \E i \in 0..(n - 1) : Cell(r, i) = o
          THEN r.data[1 + CHOOSE i \in 0..(n - 1) :
                            /\ Cell(r, i) = o
                            /\ \A j \in (i + 1)..(n - 1) : Cell(r, j) # o]
          ELSE @[o]]]

ReadBytes(r) == [i \in 1..r.len |-> store[r.ch][r.addr][Cell(r, i - 1)]]

Succeed(p) ==
  /\ state[p] = "pending"
  /\ op[p].addr \in Slaves
  /\ \/ /\ op[p].op = "read"
        /\ Answer(p, "OK", ReadBytes(op[p]))
        /\ UNCHANGED store
     \/ /\ op[p].op = "write"
        /\ Answer(p, "OK", <<>>)
        /\ store' = Stored(op[p], op[p].len)

Fail(p) ==
  /\ state[p] = "pending"
  /\ \E e \in Errors : Answer(p, e, <<>>)
  /\ \/ UNCHANGED store
     \/ /\ op[p].op = "write" /\ op[p].addr \in Slaves
        /\ \E n \in 1..op[p].len : store' = Stored(op[p], n)

Next == \E p \in Callers : Call(p) \/ Refuse(p) \/ Succeed(p) \/ Fail(p) \/ Return(p)

Spec == Init /\ [][Next]_vars
=============================================================================
