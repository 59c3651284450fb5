------------------------------- MODULE Mutex -------------------------------
(***************************************************************************)
(* What a lock promises its callers: at any time at most one of them owns  *)
(* it.  The kernel's spin locks are shown to implement this specification. *)
(***************************************************************************)
CONSTANTS Clients,   \* whoever may call lock() and unlock()
          NoOwner    \* the value of owner while the lock is free;
                   \* not a client

VARIABLE owner

Init == owner = NoOwner

Acquire(p) == owner = NoOwner /\ owner' = p

Release(p) == owner = p /\ owner' = NoOwner

Next == \E p \in Clients : Acquire(p) \/ Release(p)

Spec == Init /\ [][Next]_owner
=============================================================================
