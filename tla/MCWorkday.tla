----------------------------- MODULE MCWorkday -----------------------------
(* Constants of the Workday runs. MCAt: slot 0 is the night, 1 the working  *)
(* hours, 2 the evening. MCAtLive: slot 0 is the working hours, 1 the       *)
(* evening; the shop closes at midnight and opens at once.                  *)
EXTENDS Workday

MCAt == [pagi |-> 1, siang |-> 1, rekap |-> 2, card |-> 2]
MCAtLive == [pagi |-> 0, siang |-> 1, rekap |-> 1, card |-> 1]
=============================================================================
