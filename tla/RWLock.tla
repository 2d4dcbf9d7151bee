-------------------------------- MODULE RWLock --------------------------------
(***************************************************************************)
(* What a queued lock promises: one exclusive owner, or any number of      *)
(* shared owners.                                                          *)
(***************************************************************************)
CONSTANT Threads
VARIABLES exclusive, shared   \* the sets of exclusive and of shared owners

Init == exclusive = {} /\ shared = {}

AcquireExclusive(t) == /\ exclusive = {} /\ shared = {}
                       /\ exclusive' = {t} /\ UNCHANGED shared
AcquireShared(t) == /\ exclusive = {} /\ t \notin shared
                    /\ shared' = shared \cup {t} /\ UNCHANGED exclusive
Release(t) == /\ t \in exclusive \cup shared
              /\ exclusive' = exclusive \ {t} /\ shared' = shared \ {t}

Next == \E t \in Threads : AcquireExclusive(t) \/ AcquireShared(t) \/ Release(t)

Spec == Init /\ [][Next]_<<exclusive, shared>>
=============================================================================
