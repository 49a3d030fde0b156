----------------------------- MODULE MCWsBridge -----------------------------
(* Instances of WsBridge in ticks of four seconds, rounded to keep the     *)
(* order of the code's durations: cooldown and heartbeat 15 s, connect and *)
(* acknowledgement timeouts 5 s, confirmation deadline 30 s, and a sleep   *)
(* of 2 s, of which three fit into one cooldown.                           *)
EXTENDS WsBridge

MCReliable == {N - 1}
=============================================================================
