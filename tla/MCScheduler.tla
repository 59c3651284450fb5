---------------------------- MODULE MCScheduler ----------------------------
(* Scheduler with the reaper and two threads, on all cores or on one that  *)
(* is alone.                                                               *)
EXTENDS Scheduler

CONSTANT Alone  \* the one

VARIABLE started  \* the cores that ever run, the same for ever

all == <<started, vars>>

MCInit == Init /\ started \in {{Alone}, Cores}
MCNext == (\E c \in started : Step(c)) /\ UNCHANGED started

On(c, A) == c \in started /\ A /\ UNCHANGED started

\* Every core executes block() to its end and takes its timer interrupts, an
\* idle thread does nothing but call stop(), and the reaper's loop goes on.
\* A thread's own code may compute for ever.
Fairness ==
  /\ \A c \in Cores : /\ WF_all(On(c, BlockStep(c)))
                      /\ WF_all(On(c, Tick(c)))
                      /\ WF_all(On(c, Stop(c, c)))
  /\ WF_all(\E c \in Cores : On(c, ReaperStep(c)))

MCSpec == MCInit /\ [][MCNext]_all /\ Fairness

(* A thread in readyQ is given a core in the end, although yield() with    *)
(* an empty readyQ leaves no_preempt set and a thread may compute for ever *)
(* then, unless every core is so kept for ever (with the reaper asleep in  *)
(* a lock: when it has a core, it gives the others their turn).            *)
ReadyThreadsRun ==
  \A t \in Threads :
    home[t] = "ready" ~> ((\E c \in Cores : Running(c, t)) \/ []AllKept(started))
============================================================================
