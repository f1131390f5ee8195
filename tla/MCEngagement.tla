----------------------------- MODULE MCEngagement -----------------------------
(* Small instances of two parts that touch customers: human operations, with   *)
(* two work items of one conversation, and one-time codes, with two requests   *)
(* that repeat one idempotency key and one without a key. The parts share no   *)
(* rows, so a behaviour is one of either, and the two requests bear the names  *)
(* of the two work items.                                                      *)
EXTENDS HumanOperations, Otp, TLC

CONSTANTS w1, w2, v1, q1, a1, a2, c1, c2, r3, key, none

VARIABLE part

OneTalk == [w \in Works |-> v1]
LimitOfTwo == [q \in Queues |-> 2]
Repeated == [r \in Requests |-> IF r = r3 THEN none ELSE key]
SamePrint == [r \in Requests |-> "print"]
Symmetry == Permutations(Works) \cup Permutations(Callers) \cup Permutations(Agents)

Init == part \in {"humans", "otp"} /\ HumansInit /\ OtpInit

Next ==
    \/ part = "humans" /\ HumansNext /\ UNCHANGED <<part, otpVars>>
    \/ part = "otp" /\ OtpNext /\ UNCHANGED <<part, humanVars>>

Spec == Init /\ [][Next]_<<part, humanVars, otpVars>>
===============================================================================
