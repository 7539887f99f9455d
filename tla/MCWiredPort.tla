----------------------------- MODULE MCWiredPort -----------------------------
(***************************************************************************)
(* Two stations under every configuration of the driver.                   *)
(***************************************************************************)
EXTENDS WiredPort

CONSTANTS m1, m2

MCMacs == {m1, m2}
OneMac == {m1}
=============================================================================
