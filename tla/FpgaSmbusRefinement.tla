------------------------- MODULE FpgaSmbusRefinement -------------------------
(***************************************************************************)
(* The driver implements SlaveAccess: a transfer takes effect when it      *)
(* gives the channel's semaphore back.  The auxiliary variable "snap" is   *)
(* what the slaves of a channel held when the semaphore was taken, or hold *)
(* now when it is free: all that the other callers can know of them.       *)
(***************************************************************************)
EXTENDS FpgaSmbus

VARIABLE snap

RVars == <<vars, snap>>

RInit == Init /\ snap = mem

RStep == snap' = [ch \in Channels |->
                    IF sem[ch] = 0 /\ sem'[ch] = 0 THEN snap[ch] ELSE mem'[ch]]

RNext == Next /\ RStep

RSpec == RInit /\ [][RNext]_RVars

(* A call is pending from its first step to the step that gives the         *)
(* semaphore back.                                                          *)
AbsState ==
  [p \in Callers |-> IF pc[p] = "idle" THEN "idle"
                     ELSE IF pc[p] = "return" THEN "done" ELSE "pending"]

(* A caller is handed its buffer only by a successful read.                 *)
AbsResult ==
  [p \in Callers |-> IF pc[p] = "return"
                       THEN [ret |-> ret[p], data |-> buf[p]]
                       ELSE [ret |-> "OK", data |-> <<>>]]

Abs == INSTANCE SlaveAccess WITH
  state <- AbsState, op <- req, result <- AbsResult, store <- snap

(* What the callers are promised (SlaveAccess): a transfer takes effect at  *)
(* one instant, whatever the other callers of its channel do.               *)
ImplementsSlaveAccess == Abs!Spec
=============================================================================
