------------------------------ MODULE SlotPool ------------------------------
(***************************************************************************)
(* What the pool of runner slots of one host promises its callers          *)
(* (pkg/providers/firecracker/slots.go), whatever goroutine calls it and   *)
(* however often the process restarts: every lease it hands out is new, it *)
(* is handed out for a slot nobody holds, and it stays until it is         *)
(* released or the process forgets everything.                             *)
(***************************************************************************)
EXTENDS Naturals

CONSTANTS Ids,       \* slot numbers of the host
          MaxRuns    \* bound on the number of leases handed out

VARIABLES holder,    \* holder[i]: the lease slot i is held under, 0 when free
          issued     \* number of leases handed out so far

vars == <<holder, issued>>

Free == 0

Init ==
    /\ holder = [i \in Ids |-> Free]
    /\ issued = 0

\* A caller of Next gets a slot that is free, under a lease never used before.
Acquire(i) ==
    /\ holder[i] = Free
    /\ issued < MaxRuns
    /\ issued' = issued + 1
    /\ holder' = [holder EXCEPT ![i] = issued + 1]

\* Free gives back one held slot.
Release(i) ==
    /\ holder[i] # Free
    /\ holder' = [holder EXCEPT ![i] = Free]
    /\ UNCHANGED issued

\* The process restarts: NewInstances makes every slot free.
Reset ==
    /\ holder' = [i \in Ids |-> Free]
    /\ UNCHANGED issued

Next == Reset \/ \E i \in Ids : Acquire(i) \/ Release(i)

Spec == Init /\ [][Next]_vars

-----------------------------------------------------------------------------
TypeOK ==
    /\ holder \in [Ids -> Nat]
    /\ issued \in Nat

\* No lease is held by two slots: two runners never share a working directory.
LeasesExclusive ==
    \A i, j \in Ids : holder[i] # Free /\ holder[i] = holder[j] => i = j
=============================================================================
