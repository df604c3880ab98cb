----------------------------- MODULE LossyChannel -----------------------------
(***************************************************************************)
(* What a receiving board promises the layer above it: packets may be      *)
(* lost, but those that come through are packets somebody sent, in the     *)
(* order they were sent, and none of them twice.  Packets are numbered by  *)
(* the order they are offered in.                                          *)
(***************************************************************************)
EXTENDS Naturals, Sequences

VARIABLES
  offered,  \* packets offered so far
  got       \* packets that came through

Init == offered = 0 /\ got = <<>>

Offer == offered' = offered + 1 /\ UNCHANGED got

\* Packets between the last one that came through and n are lost for good.
Deliver(n) ==
  /\ \A i \in DOMAIN got : got[i] < n
  /\ got' = Append(got, n)
  /\ UNCHANGED offered

Next == Offer \/ \E n \in 1..offered : Deliver(n)

Spec == Init /\ [][Next]_<<offered, got>>
===============================================================================
