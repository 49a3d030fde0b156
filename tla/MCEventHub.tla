----------------------------- MODULE MCEventHub -----------------------------
(* Instances of EventHub.  Streams do not act on each other, so one stream *)
(* that wants one of two kinds of events shows what each is given.         *)
EXTENDS EventHub

CONSTANTS wanted, other

MCInterest == [s \in Stream |-> {wanted}]
=============================================================================
