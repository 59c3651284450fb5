--------------------------- MODULE SchedulerProofs ---------------------------
(***************************************************************************)
(* For any number of cores and threads: the inductive invariant of         *)
(* Scheduler and the safety properties that follow from it, among them the *)
(* answer to the comment "Why is this safe?" of threads.h.                 *)
(***************************************************************************)
EXTENDS Scheduler, SequenceTheorems, TLAPS

-----------------------------------------------------------------------------
(* The members of a queue (kernel/queue.h).                                *)

\* What is added is a member, and nothing else becomes one.
LEMMA AppendContains ==
  ASSUME NEW S, NEW members \in Seq(S), NEW e \in S, NEW t
  PROVE  Contains(Append(members, e), t) <=> Contains(members, t) \/ t = e
BY AppendProperties, LenProperties DEF Contains

LEMMA AppendNoRepeats ==
  ASSUME NEW S, NEW members \in Seq(S), NEW e \in S, NoRepeats(members), ~Contains(members, e)
  PROVE  NoRepeats(Append(members, e))
BY DEF Contains, NoRepeats

\* What is removed was a member once, and nothing else ceases to be one.
LEMMA TailContains ==
  ASSUME NEW S, NEW members \in Seq(S), members # << >>, NoRepeats(members), NEW t
  PROVE  /\ Contains(Tail(members), t) <=> Contains(members, t) /\ t # Head(members)
         /\ NoRepeats(Tail(members)) /\ Contains(members, Head(members))
         /\ Head(members) \in S /\ Tail(members) \in Seq(S)
<1>1. \A i \in DOMAIN members \ {1} : i - 1 \in DOMAIN Tail(members) /\ Tail(members)[i - 1] = members[i]
  OBVIOUS
<1>2. ASSUME Contains(members, t), t # Head(members) PROVE Contains(Tail(members), t)
  <2>1. PICK i \in 1 .. Len(members) : members[i] = t
    BY <1>2 DEF Contains
  <2>2. i \in DOMAIN members \ {1}
    BY <1>2, <2>1
  <2> QED BY <1>1, <2>1, <2>2 DEF Contains
<1>3. Contains(Tail(members), t) => Contains(members, t) /\ t # Head(members)
  BY DEF Contains, NoRepeats
<1> QED BY <1>2, <1>3 DEF Contains, NoRepeats

-----------------------------------------------------------------------------
(* The inductive invariant.  home says where a TCB is; the first group says *)
(* that the queues, the hands and the cores agree with it, so that no TCB   *)
(* can be in two places.                                                    *)

QueuesInv ==
  /\ NoRepeats(readyQ)
  /\ NoRepeats(zombies)
  /\ \A t \in Threads : /\ Contains(readyQ, t) <=> home[t] = "ready"
                        /\ Contains(zombies, t) <=> home[t] = "zombie"
                        /\ t \in parked <=> home[t] = "parked"

HandsInv ==
  /\ \A u \in Tcbs : hand[u] # NoTcb => home[hand[u]] = "held"
  /\ \A u, v \in Tcbs : hand[u] = hand[v] /\ hand[u] # NoTcb => u = v
  /\ \A t \in Threads : home[t] = "held" => \E u \in Tcbs : hand[u] = t

DoingInv ==
  \A u \in Tcbs : /\ doing[u] \in {"none", "rest"} => hand[u] = NoTcb
                  /\ doing[u] = "publish" => hand[u] # NoTcb

OwnersInv ==
  /\ \A c \in Cores, t \in Threads : Owns(c, t) => home[t] = "cpu"
  /\ \A t \in Threads : home[t] = "cpu" => \E c \in Cores : Owns(c, t)
  /\ \A c, d \in Cores : Owns(c, d) => c = d

\* What a core may rely on at each point of block().
CoreInv(c) ==
  /\ at[c] = "run" => active[c] = stack[c] /\ iflag[c]
  /\ at[c] \in {"pick", "claim", "announce"} => active[c] = me[c]
  /\ at[c] \in {"pick", "claim", "announce", "switch"} =>
       /\ stack[c] = me[c]
       /\ noPreempt[me[c]]
       /\ me[c] \in Tcbs
       /\ IsIdle(me[c]) => call[c] = "stop"
       /\ call[c] \in {"yield", "stop"} => iflag[c]
  /\ at[c] \in {"claim", "announce", "switch"} => next[c] \in Tcbs /\ next[c] # me[c]
  /\ at[c] \in {"announce", "switch"} => noPreempt[next[c]]
  /\ at[c] = "switch" => active[c] = next[c]
  /\ at[c] \in {"handoff", "resume"} => active[c] = stack[c] /\ ~iflag[c]
  /\ at[c] = "handoff" => me[c] \in Tcbs /\ me[c] # stack[c]
                        

CoresInv == \A c \in Cores : CoreInv(c)

EspInv == \A t \in Tcbs : esp[t] = t

IInv == /\ TypeOK /\ QueuesInv /\ HandsInv /\ DoingInv /\ OwnersInv
        /\ NoStackShared /\ CoresInv /\ EspInv

-----------------------------------------------------------------------------
LEMMA InitIInv == Init => IInv
<1> SUFFICES ASSUME Init PROVE IInv
  OBVIOUS
<1> USE ThreadAssumption DEF Init
<1>1. TypeOK
  <2>1. readyQ \in Seq(Threads) /\ zombies \in Seq(Threads)
    BY EmptySeq
  <2>2. home \in [Tcbs -> Places]
    BY DEF Places, IsIdle
  <2>3. QED
    BY <2>1, <2>2 DEF TypeOK, Tcbs, Labels, Calls
<1>2. QueuesInv
  <2>1. DOMAIN readyQ = {1, 2} /\ readyQ[1] = Reaper /\ readyQ[2] = InitThread
    OBVIOUS
  <2>2. DOMAIN zombies = {}
    OBVIOUS
  <2>3. QED
    BY <2>1, <2>2 DEF QueuesInv, NoRepeats, Contains, Tcbs, IsIdle
<1>3. HandsInv /\ DoingInv
  BY DEF HandsInv, DoingInv, Tcbs, IsIdle
<1>4. OwnersInv /\ NoStackShared
  BY DEF OwnersInv, NoStackShared, Owns, Tcbs, IsIdle
<1>5. CoresInv /\ EspInv
  BY DEF CoresInv, CoreInv, EspInv
<1>6. QED
  BY <1>1, <1>2, <1>3, <1>4, <1>5 DEF IInv

LEMMA HomeAfterMove ==
  ASSUME TypeOK, NEW t \in Tcbs, NEW place \in Places, MoveTo(t, place)
  PROVE  /\ home'[t] = place
         /\ \A u \in Tcbs \ {t} : home'[u] = home[u]
         /\ home' \in [Tcbs -> Places]
  BY DEF TypeOK, MoveTo

LEMMA StartBlockIInv ==
  ASSUME IInv, NEW c \in Cores, NEW who \in Calls, NEW enabled \in BOOLEAN,
         at[c] = "run", StartBlock(c, who, enabled),
         IsIdle(active[c]) => who = "stop",
         who \in {"yield", "stop"} => enabled,
         doing' \in [Tcbs -> {"none", "reap", "rest", "spawn", "publish"}],
         DoingInv'
  PROVE  IInv'
<1> USE DEF IInv, StartBlock, Goto
<1>1. TypeOK'
  BY DEF TypeOK, queues, Labels
<1>2. QueuesInv'
  BY DEF QueuesInv, queues, Contains, NoRepeats
<1>3. HandsInv'
  BY DEF HandsInv
<1>4. \A d \in Cores, t \in Tcbs : Owns(d, t)' <=> Owns(d, t)
  BY DEF Owns, TypeOK
<1>5. OwnersInv' /\ NoStackShared'
  BY <1>4 DEF OwnersInv, NoStackShared, Tcbs
<1>6. CoresInv'
  <2> SUFFICES ASSUME NEW d \in Cores PROVE CoreInv(d)'
    BY DEF CoresInv
  <2>1. CoreInv(d) /\ CoreInv(c)
    BY DEF CoresInv
  <2>2. CASE d = c
    BY <2>1, <2>2 DEF CoreInv, TypeOK, Calls
  <2>3. CASE d # c
    <3>1. \A t \in Tcbs : noPreempt[t] => noPreempt'[t]
      BY DEF TypeOK
    <3>2. QED
      BY <2>1, <2>3, <3>1 DEF CoreInv, TypeOK
  <2>4. QED
    BY <2>2, <2>3
<1>7. EspInv'
  BY DEF EspInv
<1>8. QED
  BY <1>1, <1>2, <1>3, <1>5, <1>6, <1>7

LEMMA PickReadyIInv == ASSUME IInv, NEW c \in Cores, PickReady(c) PROVE IInv'
<1> USE DEF IInv, PickReady, Goto, MoveTo
<1> DEFINE h == Head(readyQ)
<1>1. /\ h \in Threads
      /\ home[h] = "ready"
      /\ Tail(readyQ) \in Seq(Threads)
      /\ NoRepeats(Tail(readyQ))
      /\ \A t \in Threads : Contains(Tail(readyQ), t) <=> Contains(readyQ, t) /\ t # h
  BY TailContains DEF TypeOK, QueuesInv
<1>2. TypeOK'
  BY <1>1 DEF TypeOK, tcbs, code, Labels, Places, Tcbs
<1>3. home'[h] = "cpu" /\ \A t \in Tcbs \ {h} : home'[t] = home[t]
  BY <1>1 DEF TypeOK, Tcbs
<1>4. QueuesInv'
  BY <1>1, <1>3 DEF QueuesInv, TypeOK, Tcbs
<1>5. HandsInv' /\ DoingInv'
  BY <1>1, <1>3 DEF HandsInv, DoingInv, TypeOK, code, Tcbs
<1>6. \A d \in Cores, t \in Tcbs :
        Owns(d, t)' <=> Owns(d, t) \/ (d = c /\ t = h)
  BY DEF Owns, TypeOK
<1>7. OwnersInv' /\ NoStackShared'
  <2>1. \A d \in Cores : ~Owns(d, h)
    BY <1>1, ThreadAssumption DEF OwnersInv, Tcbs
  <2>2. NoStackShared'
    BY <1>1, <1>6, <2>1 DEF NoStackShared, Tcbs
  <2>3. OwnersInv'
    BY <1>1, <1>3, <1>6, ThreadAssumption DEF OwnersInv, Tcbs
  <2>4. QED
    BY <2>2, <2>3
<1>8. CoresInv'
  <2>1. stack[c] # h
    BY <1>1 DEF OwnersInv, Owns
  <2>2. QED
    BY <1>1, <2>1 DEF CoresInv, CoreInv, TypeOK, tcbs, Tcbs
<1>9. EspInv'
  BY DEF EspInv, tcbs
<1>10. QED
  BY <1>2, <1>4, <1>5, <1>7, <1>8, <1>9

LEMMA PickIdleIInv == ASSUME IInv, NEW c \in Cores, PickIdle(c) PROVE IInv'
<1> USE DEF IInv, PickIdle, Goto
<1>1. TypeOK'
  BY DEF TypeOK, queues, tcbs, code, Labels, Tcbs
<1>2. QueuesInv' /\ HandsInv' /\ DoingInv'
  BY DEF QueuesInv, HandsInv, DoingInv, queues, code, Contains, NoRepeats
<1>3. \A d \in Cores, t \in Tcbs :
        Owns(d, t)' <=> Owns(d, t) \/ (d = c /\ t = c)
  BY DEF Owns, TypeOK
<1>4. OwnersInv' /\ NoStackShared'
  BY <1>3, ThreadAssumption DEF OwnersInv, NoStackShared, Tcbs
<1>5. CoresInv'
  BY DEF CoresInv, CoreInv, TypeOK, tcbs, Tcbs, IsIdle
<1>6. EspInv'
  BY DEF EspInv, tcbs
<1>7. QED
  BY <1>1, <1>2, <1>4, <1>5, <1>6

LEMMA PickNothingIInv == ASSUME IInv, NEW c \in Cores, PickNothing(c) PROVE IInv'
<1> USE DEF IInv, PickNothing, Goto
<1>1. TypeOK'
  BY DEF TypeOK, queues, tcbs, code, Labels
<1>2. QueuesInv' /\ HandsInv' /\ DoingInv'
  BY DEF QueuesInv, HandsInv, DoingInv, queues, code, Contains, NoRepeats
<1>3. \A d \in Cores, t \in Tcbs : Owns(d, t)' <=> Owns(d, t)
  BY DEF Owns, TypeOK
<1>4. OwnersInv' /\ NoStackShared'
  BY <1>3 DEF OwnersInv, NoStackShared, Tcbs
<1>5. CoresInv'
  BY DEF CoresInv, CoreInv, TypeOK, tcbs
<1>6. EspInv'
  BY DEF EspInv, tcbs
<1>7. QED
  BY <1>1, <1>2, <1>4, <1>5, <1>6

LEMMA ClaimIInv == ASSUME IInv, NEW c \in Cores, Claim(c) PROVE IInv'
<1> USE DEF IInv, Claim, Goto
<1>1. TypeOK'
  BY DEF TypeOK, queues, code, Labels
<1>2. QueuesInv' /\ HandsInv' /\ DoingInv'
  BY DEF QueuesInv, HandsInv, DoingInv, queues, code, Contains, NoRepeats
<1>3. \A d \in Cores, t \in Tcbs : Owns(d, t)' <=> Owns(d, t)
  BY DEF Owns, TypeOK
<1>4. OwnersInv' /\ NoStackShared'
  BY <1>3 DEF OwnersInv, NoStackShared, Tcbs
<1>5. CoresInv'
  BY DEF CoresInv, CoreInv, TypeOK
<1>6. EspInv'
  BY DEF EspInv
<1>7. QED
  BY <1>1, <1>2, <1>4, <1>5, <1>6

LEMMA AnnounceIInv == ASSUME IInv, NEW c \in Cores, Announce(c) PROVE IInv'
<1> USE DEF IInv, Announce, Goto
<1>1. TypeOK'
  BY DEF TypeOK, queues, tcbs, code, Labels, CoresInv, CoreInv
<1>2. QueuesInv' /\ HandsInv' /\ DoingInv'
  BY DEF QueuesInv, HandsInv, DoingInv, queues, code, Contains, NoRepeats
<1>3. \A d \in Cores, t \in Tcbs : Owns(d, t)' <=> Owns(d, t)
  BY DEF Owns, TypeOK
<1>4. OwnersInv' /\ NoStackShared'
  BY <1>3 DEF OwnersInv, NoStackShared, Tcbs
<1>5. CoresInv'
  BY DEF CoresInv, CoreInv, TypeOK, tcbs
<1>6. EspInv'
  BY DEF EspInv, tcbs
<1>7. QED
  BY <1>1, <1>2, <1>4, <1>5, <1>6

LEMMA SwitchIInv == ASSUME IInv, NEW c \in Cores, Switch(c) PROVE IInv'
<1> USE DEF IInv, Switch, Goto
<1>1. /\ me[c] = stack[c] /\ me[c] \in Tcbs
      /\ next[c] = active[c] /\ next[c] \in Tcbs /\ next[c] # me[c]
      /\ esp[next[c]] = next[c]
  BY DEF CoresInv, CoreInv, EspInv
<1>2. TypeOK'
  BY <1>1 DEF TypeOK, queues, code, Labels
<1>3. QueuesInv' /\ HandsInv' /\ DoingInv'
  BY DEF QueuesInv, HandsInv, DoingInv, queues, code, Contains, NoRepeats
<1>4. \A d \in Cores, t \in Tcbs : Owns(d, t)' <=> Owns(d, t)
  BY <1>1 DEF Owns, TypeOK
<1>5. OwnersInv' /\ NoStackShared'
  BY <1>4 DEF OwnersInv, NoStackShared, Tcbs
<1>6. CoresInv'
  <2> SUFFICES ASSUME NEW d \in Cores PROVE CoreInv(d)'
    BY DEF CoresInv
  <2>1. CoreInv(d)
    BY DEF CoresInv
  <2>2. CASE d = c
    BY <1>1, <2>2 DEF CoreInv, TypeOK
  <2>3. CASE d # c
    <3>1. Owns(c, me[c]) /\ Owns(c, next[c])
      BY <1>1 DEF Owns
    <3>2. \A t \in Tcbs : Owns(d, t) => noPreempt'[t] = noPreempt[t]
      BY <1>1, <2>3, <3>1 DEF NoStackShared, TypeOK
    <3>3. /\ at[d] \in {"pick", "claim", "announce", "switch"} => Owns(d, me[d])
          /\ at[d] \in {"announce", "switch"} => Owns(d, next[d])
      BY <2>1 DEF CoreInv, Owns
    <3>4. QED
      BY <2>1, <2>3, <3>2, <3>3 DEF CoreInv, TypeOK
  <2>4. QED
    BY <2>2, <2>3
<1>7. EspInv'
  BY <1>1 DEF EspInv, TypeOK
<1>8. QED
  BY <1>2, <1>3, <1>5, <1>6, <1>7

LEMMA HandoffIInv == ASSUME IInv, NEW c \in Cores, Handoff(c) PROVE IInv'
<1> USE DEF IInv, Handoff, Goto
<1>1. /\ at[c] = "handoff" /\ at' = [at EXCEPT ![c] = "resume"]
      /\ UNCHANGED <<active, stack, iflag, call, me, next, tcbs, code>>
      /\ me[c] \in Tcbs /\ me[c] # stack[c]
      /\ Owns(c, me[c])
  BY DEF CoresInv, CoreInv, Owns
<1>2. CoresInv'
  BY <1>1 DEF CoresInv, CoreInv, TypeOK, tcbs
<1>3. EspInv' /\ DoingInv'
  BY <1>1 DEF EspInv, DoingInv, tcbs, code
<1>4. \A d \in Cores, t \in Tcbs :
        Owns(d, t)' <=> Owns(d, t) /\ ~(d = c /\ t = me[c])
  BY <1>1 DEF Owns, TypeOK
<1>5. NoStackShared'
  BY <1>4 DEF NoStackShared
<1>6. CASE IsIdle(me[c])
  <2>1. UNCHANGED <<queues, home>>
    BY <1>6
  <2>2. TypeOK'
    BY <1>1, <2>1 DEF TypeOK, queues, tcbs, code, Labels
  <2>3. QueuesInv' /\ HandsInv'
    BY <1>1, <2>1 DEF QueuesInv, HandsInv, queues, code, Contains, NoRepeats
  <2>4. OwnersInv'
    BY <1>4, <1>6, <2>1, ThreadAssumption DEF OwnersInv, Tcbs, IsIdle
  <2>5. QED
    BY <1>2, <1>3, <1>5, <2>2, <2>3, <2>4
<1>7. CASE ~IsIdle(me[c])
  <2> HIDE DEF Handoff
  <2> DEFINE m == me[c]
  <2>1. m \in Threads /\ home[m] = "cpu"
    BY <1>1, <1>7 DEF Tcbs, IsIdle, OwnersInv
  <2>2. \A d \in Cores : Owns(d, m) => d = c
    BY <1>1 DEF NoStackShared
  <2>3. ASSUME NEW place \in {"ready", "zombie", "parked"}, MoveTo(m, place)
        PROVE  /\ home'[m] = place
               /\ \A t \in Tcbs \ {m} : home'[t] = home[t]
               /\ home' \in [Tcbs -> Places]
               /\ HandsInv' /\ OwnersInv'
    <3>1. /\ home'[m] = place
          /\ \A t \in Tcbs \ {m} : home'[t] = home[t]
          /\ home' \in [Tcbs -> Places]
      <4>1. m \in Tcbs /\ place \in Places
        BY <2>1, <2>3 DEF Tcbs, Places
      <4>2. QED
        BY <2>3, <4>1, HomeAfterMove
    <3>2. HandsInv'
      <4>1. hand' = hand /\ \A u \in Tcbs : hand[u] # m
        BY <1>1, <2>1, ThreadAssumption DEF HandsInv, code
      <4>2. \A u \in Tcbs : hand[u] # NoTcb => hand[u] \in Tcbs \ {m}
        BY <4>1 DEF TypeOK, Tcbs
      <4>3. \A t \in Threads : home'[t] = "held" => home[t] = "held"
        BY <2>1, <2>3, <3>1 DEF Tcbs
      <4>4. QED
        BY <3>1, <4>1, <4>2, <4>3 DEF HandsInv
    <3>3. OwnersInv'
      BY <1>4, <2>1, <2>2, <3>1 DEF OwnersInv, Tcbs
    <3>4. QED
      BY <3>1, <3>2, <3>3
  <2>4. CASE HandToReady(c)
    <3>1. MoveTo(m, "ready") /\ readyQ' = Append(readyQ, m) /\ UNCHANGED <<zombies, parked>>
      BY <2>4 DEF HandToReady
    <3>2. ~Contains(readyQ, m) /\ readyQ' \in Seq(Threads)
      BY <2>1, <3>1, AppendProperties DEF QueuesInv, TypeOK
    <3>3. NoRepeats(readyQ') /\ \A t \in Threads : Contains(readyQ', t) <=> Contains(readyQ, t) \/ t = m
      BY <2>1, <3>1, <3>2, AppendContains, AppendNoRepeats DEF QueuesInv, TypeOK
    <3>4. QueuesInv'
      BY <2>1, <2>3, <3>1, <3>3 DEF QueuesInv, Tcbs
    <3>5. TypeOK'
      BY <1>1, <2>3, <3>1, <3>2 DEF TypeOK, tcbs, code, Labels
    <3>6. QED
      BY <1>2, <1>3, <1>5, <2>3, <3>1, <3>4, <3>5
  <2>5. CASE HandToZombies(c)
    <3>1. MoveTo(m, "zombie") /\ zombies' = Append(zombies, m) /\ UNCHANGED <<readyQ, parked>>
      BY <2>5 DEF HandToZombies
    <3>2. ~Contains(zombies, m) /\ zombies' \in Seq(Threads)
      BY <2>1, <3>1, AppendProperties DEF QueuesInv, TypeOK
    <3>3. NoRepeats(zombies') /\ \A t \in Threads : Contains(zombies', t) <=> Contains(zombies, t) \/ t = m
      BY <2>1, <3>1, <3>2, AppendContains, AppendNoRepeats DEF QueuesInv, TypeOK
    <3>4. QueuesInv'
      BY <2>1, <2>3, <3>1, <3>3 DEF QueuesInv, Tcbs
    <3>5. TypeOK'
      BY <1>1, <2>3, <3>1, <3>2 DEF TypeOK, tcbs, code, Labels
    <3>6. QED
      BY <1>2, <1>3, <1>5, <2>3, <3>1, <3>4, <3>5
  <2>6. CASE HandToSemaphore(c)
    <3>1. MoveTo(m, "parked") /\ parked' = parked \cup {m} /\ UNCHANGED <<readyQ, zombies>>
      BY <2>6 DEF HandToSemaphore
    <3>2. QueuesInv'
      BY <2>1, <2>3, <3>1 DEF QueuesInv, Tcbs, Contains, NoRepeats
    <3>3. TypeOK'
      BY <1>1, <2>1, <2>3, <3>1 DEF TypeOK, tcbs, code, Labels
    <3>4. QED
      BY <1>2, <1>3, <1>5, <2>3, <3>1, <3>2, <3>3
  <2>7. QED
    BY <1>7, <2>4, <2>5, <2>6 DEF Handoff
<1>8. QED
  BY <1>6, <1>7

LEMMA ResumeIInv == ASSUME IInv, NEW c \in Cores, Resume(c) PROVE IInv'
<1> USE DEF IInv, Resume, Goto
<1>1. TypeOK'
  BY DEF TypeOK, queues, tcbs, code, Labels
<1>2. QueuesInv' /\ HandsInv' /\ DoingInv'
  BY DEF QueuesInv, HandsInv, DoingInv, queues, code, Contains, NoRepeats
<1>3. \A d \in Cores, t \in Tcbs : Owns(d, t)' <=> Owns(d, t)
  BY DEF Owns, TypeOK
<1>4. OwnersInv' /\ NoStackShared'
  BY <1>3 DEF OwnersInv, NoStackShared, Tcbs
<1>5. CoresInv' /\ EspInv'
  BY DEF CoresInv, CoreInv, EspInv, TypeOK, tcbs
<1>6. QED
  BY <1>1, <1>2, <1>4, <1>5

-----------------------------------------------------------------------------
(* The callers of block().                                                  *)

LEMMA TickIInv == ASSUME IInv, NEW c \in Cores, Tick(c) PROVE IInv'
<1>1. at[c] = "run"
  BY DEF Tick, IInv, TypeOK, CoresInv, CoreInv, Labels
<1>2. DoingInv' /\ doing' \in [Tcbs -> {"none", "reap", "rest", "spawn", "publish"}]
  BY DEF Tick, StartBlock, IInv, DoingInv, TypeOK
<1>3. QED
  BY <1>1, <1>2, StartBlockIInv DEF Tick, Calls

LEMMA YieldIInv ==
  ASSUME IInv, NEW c \in Cores, NEW t \in Tcbs, Yield(c, t) PROVE IInv'
<1>1. at[c] = "run" /\ iflag[c] /\ ~IsIdle(active[c])
  BY DEF Yield, Running, IInv, CoresInv, CoreInv
<1>2. DoingInv' /\ doing' \in [Tcbs -> {"none", "reap", "rest", "spawn", "publish"}]
  BY DEF Yield, StartBlock, IInv, DoingInv, TypeOK
<1>3. QED
  BY <1>1, <1>2, StartBlockIInv DEF Yield, Calls

LEMMA StopIInv ==
  ASSUME IInv, NEW c \in Cores, NEW t \in Tcbs, Stop(c, t) PROVE IInv'
<1>1. at[c] = "run" /\ iflag[c]
  BY DEF Stop, Running, IInv, CoresInv, CoreInv
<1>2. DoingInv' /\ doing' \in [Tcbs -> {"none", "reap", "rest", "spawn", "publish"}]
  BY DEF Stop, StartBlock, IInv, DoingInv, TypeOK
<1>3. QED
  BY <1>1, <1>2, StartBlockIInv DEF Stop, Calls

LEMMA ParkIInv ==
  ASSUME IInv, NEW c \in Cores, NEW t \in Tcbs, Park(c, t) PROVE IInv'
<1>1. at[c] = "run" /\ ~IsIdle(active[c])
  BY ThreadAssumption DEF Park, Running, IsIdle, IInv, CoresInv, CoreInv
<1>2. DoingInv' /\ doing' \in [Tcbs -> {"none", "reap", "rest", "spawn", "publish"}]
  BY DEF Park, StartBlock, IInv, DoingInv, TypeOK
<1>3. QED
  BY <1>1, <1>2, StartBlockIInv DEF Park, Calls

-----------------------------------------------------------------------------
(* The other scheduler calls.                                               *)

LEMMA BusyIInv ==
  ASSUME IInv, NEW c \in Cores, NEW t \in Tcbs,
         NEW before, NEW after \in {"none", "reap", "rest", "spawn", "publish"},
         NEW held \in Threads \cup {NoTcb},
         Busy(c, t, before, after, held),
         after \in {"none", "rest"} => held = NoTcb,
         after = "publish" => held # NoTcb
  PROVE  /\ CoresInv' /\ EspInv' /\ NoStackShared' /\ DoingInv'
         /\ \A d \in Cores, u \in Tcbs : Owns(d, u)' <=> Owns(d, u)
         /\ hand'[t] = held
         /\ \A u \in Tcbs \ {t} : hand'[u] = hand[u]
         /\ hand' \in [Tcbs -> Threads \cup {NoTcb}]
         /\ doing' \in [Tcbs -> {"none", "reap", "rest", "spawn", "publish"}]
<1> USE DEF IInv, Busy, cpu, tcbs
<1>1. CoresInv' /\ EspInv'
  BY DEF CoresInv, CoreInv, EspInv
<1>2. \A d \in Cores, u \in Tcbs : Owns(d, u)' <=> Owns(d, u)
  BY DEF Owns
<1>3. NoStackShared'
  BY <1>2 DEF NoStackShared
<1>4. DoingInv'
  BY DEF DoingInv, TypeOK
<1>5. /\ hand'[t] = held
      /\ \A u \in Tcbs \ {t} : hand'[u] = hand[u]
      /\ hand' \in [Tcbs -> Threads \cup {NoTcb}]
      /\ doing' \in [Tcbs -> {"none", "reap", "rest", "spawn", "publish"}]
  BY DEF TypeOK
<1>6. QED
  BY <1>1, <1>2, <1>3, <1>4, <1>5

\* A step that only moves on in its own code.
LEMMA QuietIInv ==
  ASSUME IInv, NEW c \in Cores, NEW t \in Tcbs,
         NEW before, NEW after \in {"none", "reap", "rest", "spawn"},
         Busy(c, t, before, after, NoTcb), hand[t] = NoTcb,
         UNCHANGED <<queues, home>>
  PROVE  IInv'
<1>1. /\ CoresInv' /\ EspInv' /\ NoStackShared' /\ DoingInv'
      /\ \A d \in Cores, u \in Tcbs : Owns(d, u)' <=> Owns(d, u)
      /\ \A u \in Tcbs : hand'[u] = hand[u]
      /\ hand' \in [Tcbs -> Threads \cup {NoTcb}]
      /\ doing' \in [Tcbs -> {"none", "reap", "rest", "spawn", "publish"}]
  BY BusyIInv
<1>2. QueuesInv' /\ HandsInv'
  BY <1>1 DEF IInv, QueuesInv, HandsInv, queues, Contains, NoRepeats
<1>3. OwnersInv'
  BY <1>1 DEF IInv, OwnersInv, Tcbs
<1>4. TypeOK'
  BY <1>1 DEF IInv, TypeOK, Busy, queues, cpu, tcbs
<1>5. QED
  BY <1>1, <1>2, <1>3, <1>4 DEF IInv

LEMMA StartSpawnIInv ==
  ASSUME IInv, NEW c \in Cores, NEW t \in Tcbs, StartSpawn(c, t) PROVE IInv'
<1>1. hand[t] = NoTcb
  BY DEF StartSpawn, Busy, IInv, DoingInv
<1>2. QED
  BY <1>1, QuietIInv DEF StartSpawn

LEMMA ReapDoneIInv == ASSUME IInv, NEW c \in Cores, ReapDone(c) PROVE IInv'
<1>1. Reaper \in Tcbs
  BY ThreadAssumption DEF Tcbs
<1>2. QED
  BY <1>1, QuietIInv DEF ReapDone

\* The thread x, which no core owns, moves to the hand of t.
LEMMA TakenInHand ==
  ASSUME IInv, NEW c \in Cores, NEW t \in Tcbs,
         NEW before, NEW after \in {"reap", "spawn", "publish"}, NEW x \in Threads,
         Busy(c, t, before, after, x), hand[t] = NoTcb, MoveTo(x, "held"),
         home[x] \notin {"cpu", "held"}
  PROVE  /\ CoresInv' /\ EspInv' /\ NoStackShared' /\ DoingInv'
         /\ HandsInv' /\ OwnersInv'
         /\ hand' \in [Tcbs -> Threads \cup {NoTcb}]
         /\ doing' \in [Tcbs -> {"none", "reap", "rest", "spawn", "publish"}]
<1>0. x # NoTcb /\ x \in Tcbs
  BY ThreadAssumption DEF Tcbs
<1>1. /\ CoresInv' /\ EspInv' /\ NoStackShared' /\ DoingInv'
      /\ \A d \in Cores, u \in Tcbs : Owns(d, u)' <=> Owns(d, u)
      /\ hand'[t] = x
      /\ \A u \in Tcbs \ {t} : hand'[u] = hand[u]
      /\ hand' \in [Tcbs -> Threads \cup {NoTcb}]
      /\ doing' \in [Tcbs -> {"none", "reap", "rest", "spawn", "publish"}]
  BY <1>0, BusyIInv
<1>2. /\ home'[x] = "held"
      /\ \A u \in Tcbs \ {x} : home'[u] = home[u]
      /\ home' \in [Tcbs -> Places]
  BY <1>0, HomeAfterMove DEF IInv, Places
<1>3. \A u \in Tcbs : hand[u] # x
  BY <1>0 DEF IInv, HandsInv
<1>4. HandsInv'
  <2>1. ASSUME NEW u \in Tcbs, hand'[u] # NoTcb PROVE home'[hand'[u]] = "held"
    <3>1. CASE u = t
      BY <1>1, <1>2, <3>1
    <3>2. CASE u # t
      <4>1. hand[u] \in Tcbs \ {x} /\ home[hand[u]] = "held"
        BY <1>1, <1>3, <2>1, <3>2 DEF IInv, HandsInv, TypeOK, Tcbs
      <4>2. QED
        BY <1>1, <1>2, <3>2, <4>1
    <3>3. QED
      BY <3>1, <3>2
  <2>2. ASSUME NEW u \in Tcbs, NEW v \in Tcbs, hand'[u] = hand'[v], hand'[u] # NoTcb
        PROVE  u = v
    BY <1>1, <1>3, <2>2 DEF IInv, HandsInv
  <2>3. ASSUME NEW y \in Threads, home'[y] = "held"
        PROVE  \E u \in Tcbs : hand'[u] = y
    <3>1. CASE y = x
      BY <1>1, <3>1
    <3>2. CASE y # x
      <4>1. PICK u \in Tcbs : hand[u] = y
        BY <1>2, <2>3, <3>2 DEF IInv, HandsInv, Tcbs
      <4>2. y # NoTcb
        BY ThreadAssumption
      <4>3. QED
        BY <1>1, <4>1, <4>2
    <3>3. QED
      BY <3>1, <3>2
  <2>4. QED
    BY <2>1, <2>2, <2>3 DEF HandsInv
<1>5. OwnersInv'
  BY <1>1, <1>2 DEF IInv, OwnersInv, Tcbs
<1>6. QED
  BY <1>1, <1>2, <1>4, <1>5 DEF Tcbs

LEMMA UnlinkIInv ==
  ASSUME IInv, NEW c \in Cores, NEW t \in Tcbs, Unlink(c, t) PROVE IInv'
<1> DEFINE h == Head(zombies)
<1>1. /\ h \in Threads
      /\ home[h] = "zombie"
      /\ Tail(zombies) \in Seq(Threads)
      /\ NoRepeats(Tail(zombies))
      /\ \A u \in Threads : Contains(Tail(zombies), u) <=> Contains(zombies, u) /\ u # h
  BY TailContains DEF Unlink, IInv, TypeOK, QueuesInv
<1>2. doing[t] \in {"reap", "spawn"}
  BY DEF Unlink, Busy
<1>3. /\ CoresInv' /\ EspInv' /\ NoStackShared' /\ DoingInv'
      /\ HandsInv' /\ OwnersInv'
      /\ hand' \in [Tcbs -> Threads \cup {NoTcb}]
      /\ doing' \in [Tcbs -> {"none", "reap", "rest", "spawn", "publish"}]
      /\ home' \in [Tcbs -> Places]
      /\ home'[h] = "held"
      /\ \A u \in Threads \ {h} : home'[u] = home[u]
  <2>1. /\ Busy(c, t, {"spawn", "reap"}, doing[t], h) /\ MoveTo(h, "held")
        /\ hand[t] = NoTcb /\ home[h] \notin {"cpu", "held"}
        /\ doing[t] \in {"reap", "spawn", "publish"}
    BY <1>1, <1>2 DEF Unlink
  <2>2. /\ CoresInv' /\ EspInv' /\ NoStackShared' /\ DoingInv'
        /\ HandsInv' /\ OwnersInv'
        /\ hand' \in [Tcbs -> Threads \cup {NoTcb}]
        /\ doing' \in [Tcbs -> {"none", "reap", "rest", "spawn", "publish"}]
    BY <1>1, <2>1, TakenInHand
  <2>3. /\ home' \in [Tcbs -> Places]
        /\ home'[h] = "held"
        /\ \A u \in Threads \ {h} : home'[u] = home[u]
    BY <1>1, <2>1, HomeAfterMove DEF IInv, Places, Tcbs
  <2>4. QED
    BY <2>2, <2>3
<1>4. QueuesInv'
  BY <1>1, <1>3 DEF Unlink, IInv, QueuesInv
<1>5. TypeOK'
  BY <1>1, <1>3 DEF Unlink, Busy, cpu, tcbs, IInv, TypeOK
<1>6. QED
  BY <1>3, <1>4, <1>5 DEF IInv

LEMMA CreateIInv ==
  ASSUME IInv, NEW c \in Cores, NEW t \in Tcbs, NEW newborn \in Threads,
         Create(c, t, newborn)
  PROVE  IInv'
<1>1. /\ CoresInv' /\ EspInv' /\ NoStackShared' /\ DoingInv'
      /\ HandsInv' /\ OwnersInv'
      /\ hand' \in [Tcbs -> Threads \cup {NoTcb}]
      /\ doing' \in [Tcbs -> {"none", "reap", "rest", "spawn", "publish"}]
      /\ home' \in [Tcbs -> Places]
      /\ home'[newborn] = "held"
      /\ \A u \in Threads \ {newborn} : home'[u] = home[u]
  <2>1. /\ Busy(c, t, {"spawn"}, "publish", newborn) /\ MoveTo(newborn, "held")
        /\ hand[t] = NoTcb /\ home[newborn] \notin {"cpu", "held"}
    BY DEF Create
  <2>2. /\ CoresInv' /\ EspInv' /\ NoStackShared' /\ DoingInv'
        /\ HandsInv' /\ OwnersInv'
        /\ hand' \in [Tcbs -> Threads \cup {NoTcb}]
        /\ doing' \in [Tcbs -> {"none", "reap", "rest", "spawn", "publish"}]
    BY <2>1, TakenInHand
  <2>3. /\ home' \in [Tcbs -> Places]
        /\ home'[newborn] = "held"
        /\ \A u \in Threads \ {newborn} : home'[u] = home[u]
    BY <2>1, HomeAfterMove DEF IInv, Places, Tcbs
  <2>4. QED
    BY <2>2, <2>3
<1>2. QueuesInv'
  BY <1>1 DEF Create, queues, IInv, QueuesInv, Contains, NoRepeats
<1>3. TypeOK'
  BY <1>1 DEF Create, Busy, queues, cpu, tcbs, IInv, TypeOK
<1>4. QED
  BY <1>1, <1>2, <1>3 DEF IInv

LEMMA UnparkIInv ==
  ASSUME IInv, NEW c \in Cores, NEW t \in Tcbs, NEW waiter \in Threads,
         Unpark(c, t, waiter)
  PROVE  IInv'
<1>1. home[waiter] = "parked" /\ hand[t] = NoTcb
  BY DEF Unpark, Busy, IInv, QueuesInv, DoingInv
<1>2. /\ CoresInv' /\ EspInv' /\ NoStackShared' /\ DoingInv'
      /\ HandsInv' /\ OwnersInv'
      /\ hand' \in [Tcbs -> Threads \cup {NoTcb}]
      /\ doing' \in [Tcbs -> {"none", "reap", "rest", "spawn", "publish"}]
      /\ home' \in [Tcbs -> Places]
      /\ home'[waiter] = "held"
      /\ \A u \in Threads \ {waiter} : home'[u] = home[u]
  <2>1. /\ Busy(c, t, {"none"}, "publish", waiter) /\ MoveTo(waiter, "held")
        /\ hand[t] = NoTcb /\ home[waiter] \notin {"cpu", "held"}
    BY <1>1 DEF Unpark
  <2>2. /\ CoresInv' /\ EspInv' /\ NoStackShared' /\ DoingInv'
        /\ HandsInv' /\ OwnersInv'
        /\ hand' \in [Tcbs -> Threads \cup {NoTcb}]
        /\ doing' \in [Tcbs -> {"none", "reap", "rest", "spawn", "publish"}]
    BY <2>1, TakenInHand
  <2>3. /\ home' \in [Tcbs -> Places]
        /\ home'[waiter] = "held"
        /\ \A u \in Threads \ {waiter} : home'[u] = home[u]
    BY <2>1, HomeAfterMove DEF IInv, Places, Tcbs
  <2>4. QED
    BY <2>2, <2>3
<1>3. QueuesInv'
  BY <1>1, <1>2 DEF Unpark, IInv, QueuesInv, Contains, NoRepeats
<1>4. TypeOK'
  BY <1>2 DEF Unpark, Busy, cpu, tcbs, IInv, TypeOK
<1>5. QED
  BY <1>2, <1>3, <1>4 DEF IInv

\* The thread in the hand of t moves on to a queue or is deleted.
LEMMA LeavesHand ==
  ASSUME IInv, NEW c \in Cores, NEW t \in Tcbs,
         NEW before, NEW after \in {"none", "reap", "rest", "spawn"},
         Busy(c, t, before, after, NoTcb), hand[t] # NoTcb,
         NEW place \in {"ready", "dead"}, MoveTo(hand[t], place)
  PROVE  /\ CoresInv' /\ EspInv' /\ NoStackShared' /\ DoingInv'
         /\ HandsInv' /\ OwnersInv'
         /\ hand' \in [Tcbs -> Threads \cup {NoTcb}]
         /\ doing' \in [Tcbs -> {"none", "reap", "rest", "spawn", "publish"}]
         /\ home' \in [Tcbs -> Places]
         /\ hand[t] \in Threads /\ home[hand[t]] = "held"
         /\ home'[hand[t]] = place
         /\ \A u \in Threads \ {hand[t]} : home'[u] = home[u]
<1>0. hand[t] \in Threads /\ hand[t] \in Tcbs /\ home[hand[t]] = "held" /\ place \in Places
  BY DEF IInv, TypeOK, HandsInv, Tcbs, Places
<1>1. /\ CoresInv' /\ EspInv' /\ NoStackShared' /\ DoingInv'
      /\ \A d \in Cores, u \in Tcbs : Owns(d, u)' <=> Owns(d, u)
      /\ hand'[t] = NoTcb
      /\ \A u \in Tcbs \ {t} : hand'[u] = hand[u]
      /\ hand' \in [Tcbs -> Threads \cup {NoTcb}]
      /\ doing' \in [Tcbs -> {"none", "reap", "rest", "spawn", "publish"}]
  BY BusyIInv
<1>2. /\ home'[hand[t]] = place
      /\ \A u \in Tcbs \ {hand[t]} : home'[u] = home[u]
      /\ home' \in [Tcbs -> Places]
  BY <1>0, HomeAfterMove DEF IInv
<1>3. HandsInv'
  <2>1. ASSUME NEW u \in Tcbs, hand'[u] # NoTcb PROVE home'[hand'[u]] = "held"
    <3>1. u # t /\ hand'[u] = hand[u]
      BY <1>1, <2>1
    <3>2. hand[u] \in Tcbs \ {hand[t]} /\ home[hand[u]] = "held"
      BY <2>1, <3>1 DEF IInv, HandsInv, TypeOK, Tcbs
    <3>3. QED
      BY <1>2, <3>1, <3>2
  <2>2. ASSUME NEW u \in Tcbs, NEW v \in Tcbs, hand'[u] = hand'[v], hand'[u] # NoTcb
        PROVE  u = v
    BY <1>1, <2>2 DEF IInv, HandsInv
  <2>3. ASSUME NEW y \in Threads, home'[y] = "held"
        PROVE  \E u \in Tcbs : hand'[u] = y
    <3>1. y # hand[t] /\ home[y] = "held"
      BY <1>2, <2>3 DEF Tcbs
    <3>2. PICK u \in Tcbs : hand[u] = y
      BY <3>1 DEF IInv, HandsInv
    <3>3. QED
      BY <1>1, <3>1, <3>2
  <2>4. QED
    BY <2>1, <2>2, <2>3 DEF HandsInv
<1>4. OwnersInv'
  BY <1>0, <1>1, <1>2 DEF IInv, OwnersInv, Tcbs
<1>5. QED
  BY <1>0, <1>1, <1>2, <1>3, <1>4 DEF Tcbs

LEMMA DeleteIInv ==
  ASSUME IInv, NEW c \in Cores, NEW t \in Tcbs, Delete(c, t) PROVE IInv'
<1>1. doing[t] \in {"reap", "spawn"}
  BY DEF Delete, Busy
<1>2. /\ CoresInv' /\ EspInv' /\ NoStackShared' /\ DoingInv'
      /\ HandsInv' /\ OwnersInv'
      /\ hand' \in [Tcbs -> Threads \cup {NoTcb}]
      /\ doing' \in [Tcbs -> {"none", "reap", "rest", "spawn", "publish"}]
      /\ home' \in [Tcbs -> Places]
      /\ hand[t] \in Threads /\ home[hand[t]] = "held"
      /\ home'[hand[t]] = "dead"
      /\ \A u \in Threads \ {hand[t]} : home'[u] = home[u]
  BY <1>1, LeavesHand DEF Delete
<1>3. QueuesInv'
  BY <1>2 DEF Delete, queues, IInv, QueuesInv, Contains, NoRepeats
<1>4. TypeOK'
  BY <1>2 DEF Delete, Busy, queues, cpu, tcbs, IInv, TypeOK
<1>5. QED
  BY <1>2, <1>3, <1>4 DEF IInv

LEMMA PublishIInv ==
  ASSUME IInv, NEW c \in Cores, NEW t \in Tcbs, Publish(c, t) PROVE IInv'
<1> DEFINE x == hand[t]
<1>1. x # NoTcb
  BY DEF Publish, Busy, IInv, DoingInv
<1>2. /\ CoresInv' /\ EspInv' /\ NoStackShared' /\ DoingInv'
      /\ HandsInv' /\ OwnersInv'
      /\ hand' \in [Tcbs -> Threads \cup {NoTcb}]
      /\ doing' \in [Tcbs -> {"none", "reap", "rest", "spawn", "publish"}]
      /\ home' \in [Tcbs -> Places]
      /\ x \in Threads /\ home[x] = "held"
      /\ home'[x] = "ready"
      /\ \A u \in Threads \ {x} : home'[u] = home[u]
  BY <1>1, LeavesHand DEF Publish
<1>3. readyQ' = Append(readyQ, x) /\ ~Contains(readyQ, x) /\ readyQ' \in Seq(Threads)
  BY <1>2, AppendProperties DEF Publish, IInv, QueuesInv, TypeOK
<1>4. /\ NoRepeats(readyQ')
      /\ \A u \in Threads : Contains(readyQ', u) <=> Contains(readyQ, u) \/ u = x
  BY <1>2, <1>3, AppendContains, AppendNoRepeats DEF IInv, QueuesInv, TypeOK
<1>5. QueuesInv'
  BY <1>2, <1>4 DEF Publish, IInv, QueuesInv
<1>6. TypeOK'
  BY <1>2, <1>3 DEF Publish, Busy, cpu, tcbs, IInv, TypeOK
<1>7. QED
  BY <1>2, <1>5, <1>6 DEF IInv

-----------------------------------------------------------------------------
LEMMA NextIInv == IInv /\ [Next]_vars => IInv'
<1> SUFFICES ASSUME IInv, [Next]_vars PROVE IInv'
  OBVIOUS
<1>1. ASSUME NEW c \in Cores, BlockStep(c) PROVE IInv'
  BY <1>1, PickReadyIInv, PickIdleIInv, PickNothingIInv, ClaimIInv, AnnounceIInv,
     SwitchIInv, HandoffIInv, ResumeIInv DEF BlockStep
<1>2. ASSUME NEW c \in Cores, Tick(c) \/ ReapDone(c) PROVE IInv'
  BY <1>2, TickIInv, ReapDoneIInv
<1>3. ASSUME NEW c \in Cores, NEW t \in Tcbs, Code(c, t) PROVE IInv'
  BY <1>3, YieldIInv, StopIInv, ParkIInv, StartSpawnIInv, UnlinkIInv, DeleteIInv,
     PublishIInv, CreateIInv, UnparkIInv DEF Code
<1>4. CASE UNCHANGED vars
  <2> USE <1>4 DEF vars, queues, cpu, tcbs, code
  <2>1. TypeOK' /\ QueuesInv' /\ HandsInv' /\ DoingInv'
    BY DEF IInv, TypeOK, QueuesInv, HandsInv, DoingInv, Contains, NoRepeats
  <2>2. OwnersInv' /\ NoStackShared' /\ CoresInv' /\ EspInv'
    BY DEF IInv, OwnersInv, NoStackShared, Owns, CoresInv, CoreInv, EspInv
  <2>3. QED
    BY <2>1, <2>2 DEF IInv
<1>5. QED
  BY <1>1, <1>2, <1>3, <1>4 DEF Next, Step

(* The variables of the scheduler keep their types.                        *)
THEOREM TypeCorrect == Spec => []TypeOK
<1>1. IInv => TypeOK
  BY DEF IInv
<1>2. QED
  BY <1>1, InitIInv, NextIInv, PTL DEF Spec

LEMMA SpecIInv == Spec => []IInv
  BY InitIInv, NextIInv, PTL DEF Spec

(* Two cores never execute on one stack, nor does one execute on a stack   *)
(* that the other is about to enter or has not yet passed on.              *)
THEOREM StackExclusion == Spec => []NoStackShared
<1>1. IInv => NoStackShared
  BY DEF IInv
<1>2. QED
  BY <1>1, SpecIInv, PTL

(* Whatever can be found in readyQ, in zombies, in a semaphore or in some  *)
(* thread's hand has been completely switched out: block()'s action runs   *)
(* late enough.                                                            *)
THEOREM SavedBeforeVisible == Spec => []VisibleOnlyWhenSaved
<1>1. IInv => VisibleOnlyWhenSaved
  BY ThreadAssumption
     DEF IInv, VisibleOnlyWhenSaved, QueuesInv, HandsInv, OwnersInv, EspInv, Tcbs
<1>2. QED
  BY <1>1, SpecIInv, PTL

(* A deleted TCB is in no queue, semaphore or hand, no core runs on its    *)
(* stack and no activeThreads entry points to it.                          *)
THEOREM DeletedIsUnused == Spec => []NoUseAfterDelete
<1>1. IInv => NoUseAfterDelete
  <2> SUFFICES ASSUME IInv, NEW t \in Threads, home[t] = "dead"
               PROVE  /\ ~Contains(readyQ, t) /\ ~Contains(zombies, t)
                      /\ t \notin parked
                      /\ \A u \in Tcbs : hand[u] # t
                      /\ \A c \in Cores : ~Owns(c, t) /\ active[c] # t
    BY DEF NoUseAfterDelete
  <2>1. ~Contains(readyQ, t) /\ ~Contains(zombies, t) /\ t \notin parked
    BY DEF IInv, QueuesInv
  <2>2. \A u \in Tcbs : hand[u] # t
    BY ThreadAssumption DEF IInv, HandsInv
  <2>3. \A c \in Cores : ~Owns(c, t)
    BY DEF IInv, OwnersInv
  <2>4. ASSUME NEW c \in Cores PROVE Owns(c, active[c])
    BY DEF IInv, TypeOK, Labels, CoresInv, CoreInv, Owns
  <2>5. QED
    BY <2>1, <2>2, <2>3, <2>4
<1>2. QED
  BY <1>1, SpecIInv, PTL

(* No thread is lost and none is in two places.                            *)
THEOREM EveryThreadHasItsPlace == Spec => []ExactlyOnePlace
<1>1. IInv => ExactlyOnePlace
  <2> SUFFICES ASSUME IInv PROVE ExactlyOnePlace
    OBVIOUS
  <2> SUFFICES ASSUME NEW t \in Threads PROVE ExactlyOnePlace!(t)
    BY DEF ExactlyOnePlace
  <2> DEFINE inReady == {j \in DOMAIN readyQ : readyQ[j] = t}
             inZombies == {j \in DOMAIN zombies : zombies[j] = t}
             inParked == parked \cap {t}
             inHands == {v \in Tcbs : hand[v] = t}
             onCores == {d \in Cores : Owns(d, t)}
             spots == {<<"ready", i>> : i \in inReady}
                 \cup {<<"zombie", i>> : i \in inZombies}
                 \cup {<<"parked", t>> : u \in inParked}
                 \cup {<<"hand", u>> : u \in inHands}
                 \cup {<<"cpu", c>> : c \in onCores}
  <2>1. t # NoTcb /\ t \in Tcbs
    BY ThreadAssumption DEF Tcbs
  <2>2. IF home[t] = "ready" THEN \E i : inReady = {i} ELSE inReady = {}
    <3>1. \A i, j \in inReady : i = j
      BY DEF IInv, QueuesInv, NoRepeats
    <3>2. inReady # {} <=> home[t] = "ready"
      BY DEF IInv, QueuesInv, Contains
    <3> HIDE DEF inReady
    <3> QED BY <3>1, <3>2
  <2>3. IF home[t] = "zombie" THEN \E i : inZombies = {i} ELSE inZombies = {}
    <3>1. \A i, j \in inZombies : i = j
      BY DEF IInv, QueuesInv, NoRepeats
    <3>2. inZombies # {} <=> home[t] = "zombie"
      BY DEF IInv, QueuesInv, Contains
    <3> HIDE DEF inZombies
    <3> QED BY <3>1, <3>2
  <2>4. IF home[t] = "parked" THEN inParked = {t} ELSE inParked = {}
    BY DEF IInv, QueuesInv
  <2>5. IF home[t] = "held" THEN \E u : inHands = {u} ELSE inHands = {}
    BY <2>1 DEF IInv, HandsInv
  <2>6. IF home[t] = "cpu" THEN \E c : onCores = {c} ELSE onCores = {}
    <3>1. \A c, d \in onCores : c = d
      BY <2>1 DEF IInv, NoStackShared
    <3>2. onCores # {} <=> home[t] = "cpu"
      BY DEF IInv, OwnersInv
    <3> HIDE DEF onCores
    <3> QED BY <3>1, <3>2
  <2>7. home[t] \in Places
    BY <2>1 DEF IInv, TypeOK
  <2> HIDE DEF inReady, inZombies, inParked, inHands, onCores
  <2>8. IF home[t] \in {"unborn", "dead"} THEN spots = {} ELSE \E s \in spots : spots = {s}
    <3>1. CASE home[t] \in {"unborn", "dead"}
      BY <2>2, <2>3, <2>4, <2>5, <2>6, <3>1
    <3>2. CASE home[t] = "ready"
      <4>1. PICK i : inReady = {i}
        BY <2>2, <3>2
      <4>2. spots = {<<"ready", i>>}
        BY <2>3, <2>4, <2>5, <2>6, <3>2, <4>1
      <4> QED BY <3>2, <4>2
    <3>3. CASE home[t] = "zombie"
      <4>1. PICK i : inZombies = {i}
        BY <2>3, <3>3
      <4>2. spots = {<<"zombie", i>>}
        BY <2>2, <2>4, <2>5, <2>6, <3>3, <4>1
      <4> QED BY <3>3, <4>2
    <3>4. CASE home[t] = "parked"
      <4>1. spots = {<<"parked", t>>}
        BY <2>2, <2>3, <2>4, <2>5, <2>6, <3>4
      <4> QED BY <3>4, <4>1
    <3>5. CASE home[t] = "held"
      <4>1. PICK u : inHands = {u}
        BY <2>5, <3>5
      <4>2. spots = {<<"hand", u>>}
        BY <2>2, <2>3, <2>4, <2>6, <3>5, <4>1
      <4> QED BY <3>5, <4>2
    <3>6. CASE home[t] = "cpu"
      <4>1. PICK c : onCores = {c}
        BY <2>6, <3>6
      <4>2. spots = {<<"cpu", c>>}
        BY <2>2, <2>3, <2>4, <2>5, <3>6, <4>1
      <4> QED BY <3>6, <4>2
    <3> HIDE DEF spots
    <3> QED BY <2>7, <3>1, <3>2, <3>3, <3>4, <3>5, <3>6 DEF Places
  <2> QED BY <2>8 DEF inReady, inZombies, inParked, inHands, onCores
<1>2. QED
  BY <1>1, SpecIInv, PTL

(* "Why is this safe?" (threads.h): a timer interrupt that would preempt   *)
(* finds its core outside block() and activeThreads naming its stack.      *)
THEOREM PreemptionSafe == Spec => []PreemptsOnlyOutsideBlock
<1>1. IInv => PreemptsOnlyOutsideBlock
  BY DEF IInv, TypeOK, Labels, CoresInv, CoreInv, PreemptsOnlyOutsideBlock
<1>2. QED
  BY <1>1, SpecIInv, PTL

(* The ASSERTs in the idle loop of block() never fail, and context.s may   *)
(* count on both no_preempt flags when the switch begins.                  *)
THEOREM AssertionsHold == Spec => []AssertsHold
<1>1. IInv => BothFlagsSetAtSwitch
  BY DEF IInv, CoresInv, CoreInv, BothFlagsSetAtSwitch
<1>2. IInv => IdleThreadsDoNotHop
  BY DEF IInv, OwnersInv, Owns, CoresInv, CoreInv, IdleThreadsDoNotHop, IsIdle
<1>3. IInv => AssertsHold
  BY <1>1, <1>2 DEF AssertsHold
<1>4. QED
  BY <1>3, SpecIInv, PTL
=============================================================================
