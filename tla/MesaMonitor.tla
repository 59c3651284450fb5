---------------------------- MODULE MesaMonitor ----------------------------
(***************************************************************************)
(* What Condition promises about the lock it is built on: wait() gives up  *)
(* the lock and starts to listen in one step; a notify reaches at least    *)
(* one listener if there is any; and wait() returns, with the lock, only   *)
(* to a thread that a notify has reached.                                  *)
(***************************************************************************)
CONSTANTS Clients,  \* the threads
          Nobody    \* the lock is free

VARIABLES owner,     \* who is in the monitor
          listening  \* who waits and has not been reached by a notify

Init == owner = Nobody /\ listening = {}

Enter(t) == /\ owner = Nobody
            /\ t \notin listening
            /\ owner' = t
            /\ UNCHANGED listening

Leave(t) == owner = t /\ owner' = Nobody /\ UNCHANGED listening

Wait(t) == owner = t /\ owner' = Nobody /\ listening' = listening \cup {t}

Notify(t) == /\ owner = t
             /\ listening' \subseteq listening
             /\ listening # {} => listening' # listening
             /\ UNCHANGED owner

Next == \E t \in Clients : Enter(t) \/ Leave(t) \/ Wait(t) \/ Notify(t)

Spec == Init /\ [][Next]_<<owner, listening>>
=============================================================================
