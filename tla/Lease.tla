-------------------------------- MODULE Lease --------------------------------
(***************************************************************************)
(* What a distributed job lock promises: at any moment at most one of the  *)
(* contenders executes under a lease that has not run out.  A lease is     *)
(* lost when the work is over, when its time is up, or in a crash.         *)
(***************************************************************************)
CONSTANT Contenders
VARIABLE holders   \* contenders working under an unexpired lease

Init == holders = {}

Acquire(c) == holders = {} /\ holders' = {c}

Lose(c) == c \in holders /\ holders' = holders \ {c}

Next == \E c \in Contenders : Acquire(c) \/ Lose(c)

Spec == Init /\ [][Next]_holders
=============================================================================
