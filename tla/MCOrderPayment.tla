--------------------------- MODULE MCOrderPayment ---------------------------
(****************************************************************************)
(* Instances of OrderPayment for TLC: an order to be paid with Alipay, one  *)
(* with another method, and up to three clicks at once.                     *)
(****************************************************************************)
EXTENDS OrderPayment

CONSTANTS o1, cod, l1, l2, r1, r2, r3
==============================================================================
