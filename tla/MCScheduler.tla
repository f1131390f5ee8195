----------------------------- MODULE MCScheduler -----------------------------
(* Scheduler for TLC.  The terms an edit chooses from differ in the policy and *)
(* in where the window of the schedule lies.                                   *)
EXTENDS Scheduler, TLC

Symmetry == Permutations(Workers)

Term(policy, most, start, end) == [policy |-> policy, most |-> most, start |-> start, end |-> end]

EveryPolicy ==
    {Term("CATCH_UP_BOUNDED", 2, 1, 9), Term("SKIP", 1, 1, 2), Term("FIRE_ONCE", 1, 2, 2)}

FireOnceEdited ==
    {Term("FIRE_ONCE", 1, 2, 9), Term("FIRE_ONCE", 1, 1, 2)}

Once == {Term("FIRE_ONCE", 1, 1, 3), Term("SKIP", 1, 1, 3), Term("FIRE_ONCE", 1, 2, 2)}
=============================================================================
