----------------------------- MODULE RateMeter ------------------------------
(***************************************************************************)
(* What a token bucket promises, without tokens: every key has a meter that  *)
(* an admitted request raises by one and every tick lowers by one.  A        *)
(* request is admitted if and only if its meter is below the burst, so that  *)
(* k ticks admit at most Burst + k requests, and whoever keeps to one        *)
(* request a tick is never refused.                                         *)
(***************************************************************************)
EXTENDS Naturals

CONSTANTS Key, Burst

VARIABLES
  level,
  verdict   \* what the last request of this tick was told

Init ==
  /\ level = [k \in Key |-> 0]
  /\ verdict = [k \in Key |-> "none"]

Admit(k) ==
  /\ level[k] < Burst
  /\ level' = [level EXCEPT ![k] = @ + 1]
  /\ verdict' = [verdict EXCEPT ![k] = "admitted"]

Refuse(k) ==
  /\ level[k] = Burst
  /\ verdict' = [verdict EXCEPT ![k] = "refused"]
  /\ UNCHANGED level

Tick ==
  /\ level' = [k \in Key |-> IF level[k] = 0 THEN 0 ELSE level[k] - 1]
  /\ verdict' = [k \in Key |-> "none"]

Next == Tick \/ \E k \in Key : Admit(k) \/ Refuse(k)

Spec == Init /\ [][Next]_<<level, verdict>>
=============================================================================
