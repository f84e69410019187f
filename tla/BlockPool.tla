----------------------------- MODULE BlockPool -----------------------------
(* What a heap of equal blocks promises its clients: a block it hands out is *)
(* a block of the heap that nobody holds, until it is given back.  It may    *)
(* stop, as the kernel does at a page fault.                                 *)
EXTENDS Naturals

CONSTANT Blocks

VARIABLES
    holders,    \* how many clients hold each block
    stopped

poolVars == <<holders, stopped>>

PoolInit == holders = [b \in Blocks |-> 0] /\ stopped = FALSE

Take(b) == /\ ~ stopped
           /\ holders[b] = 0
           /\ holders' = [holders EXCEPT ![b] = 1]
           /\ stopped' = stopped

Give(b) == /\ ~ stopped
           /\ holders[b] = 1
           /\ holders' = [holders EXCEPT ![b] = 0]
           /\ stopped' = stopped

Stop == /\ ~ stopped
        /\ stopped' = TRUE
        /\ holders' = holders

PoolNext == (\E b \in Blocks : Take(b) \/ Give(b)) \/ Stop

PoolSpec == PoolInit /\ [][PoolNext]_poolVars
=============================================================================
