-------------------------------- MODULE Ticks --------------------------------
(***************************************************************************)
(* Time as the recovery classes see it.  The code keeps millis() stamps    *)
(* and compares the unsigned difference now - stamp with a constant, so a  *)
(* stamp is modelled by its age in ticks, which stops growing at the       *)
(* largest constant it is compared with, and a deadline by the ticks left. *)
(* One tick stands for a few seconds; see README.md, "Time".               *)
(***************************************************************************)
EXTENDS Integers

\* now - stamp, one tick later.
Older(age, cap) == IF age < cap THEN age + 1 ELSE cap

\* (int32_t)(deadline - now), one tick later, 0 once the deadline has passed.
Sooner(left) == IF left > 0 THEN left - 1 ELSE 0

==============================================================================
