---------------------------- MODULE ConsoleProofs ----------------------------
(***************************************************************************)
(* For any number of cores and processes, any formats and arguments: what  *)
(* one call of Debug::printf() puts stands together on the console.        *)
(***************************************************************************)
EXTENDS Console, SequenceTheorems, TLAPS

\* What has been put.
Shown == {console[i] : i \in DOMAIN console}

ConsoleTypeOK ==
  /\ DOMAIN scan = Printers /\ DOMAIN at = Printers
  /\ \A p \in Printers : "call" \in DOMAIN scan[p] /\ scan[p].call \in Nat
  /\ \A c \in Cores : at[c] \in {"idle", "lock", "format", "halted"}
  /\ console \in Seq(Shown)

\* Calls are counted: nobody has put anything in one that is still to come.
CallsInv == \A i \in DOMAIN console :
              /\ console[i].by \in Printers /\ console[i].call \in Nat
              /\ console[i].call <= scan[console[i].by].call

\* Unless the kernel panics, the core that formats has the lock.
LockInv == panicked = {} =>
             \A c \in Cores : at[c] = "format" => taken /\ \A d \in Cores \ {c} : at[d] # "format"

\* Nothing of another core follows what it has put.
Current(c, i) == console[i].by = c /\ console[i].call = scan[c].call

LastInv == panicked = {} =>
             \A c \in Cores : at[c] = "format" =>
               \A i, j \in DOMAIN console :
                 i < j /\ Current(c, i) /\ console[j].by \in Cores => Current(c, j)

IInv == ConsoleTypeOK /\ CallsInv /\ LockInv /\ LastInv /\ MessagesWhole

-----------------------------------------------------------------------------
(* The scanner, and the console                                            *)

ScanOK == /\ DOMAIN scan = Printers
          /\ \A p \in Printers : "call" \in DOMAIN scan[p] /\ scan[p].call \in Nat

\* The call of printer q stays the one it is in.
SameCall(q) == DOMAIN scan' = Printers /\ "call" \in DOMAIN scan'[q] /\ scan'[q].call = scan[q].call

\* A change of other members leaves the number of the call.
LEMMA AfterKeepsCall ==
  ASSUME ScanOK, NEW p \in Printers, NEW text, NEW used, NEW skip, NEW q \in Printers,
         scan' = After(p, text, used, skip)
  PROVE  SameCall(q)
<1>1. DOMAIN After(p, text, used, skip) = Printers
  BY DEF After, ScanOK
<1>2. "call" \in DOMAIN After(p, text, used, skip)[q]
  BY DEF After, ScanOK
<1>3. After(p, text, used, skip)[q].call = scan[q].call
  BY DEF After, ScanOK
<1> QED BY <1>1, <1>2, <1>3 DEF SameCall

\* What reads the format changes other members.
LEMMA ReadKeepsCall ==
  ASSUME ScanOK, NEW p \in Printers, NEW q \in Printers,
         \/ ReadText(p) \/ ReadFlags(p) \/ ReadMin(p) \/ ReadDot(p) \/ ReadMax(p) \/ ReadMod(p)
  PROVE  SameCall(q)
<1>1. DOMAIN scan' = Printers
  BY DEF ScanOK, ReadText, ReadFlags, ReadMin, ReadDot, ReadMax, ReadMod
<1>2. "call" \in DOMAIN scan'[q]
  BY DEF ScanOK, ReadText, ReadFlags, ReadMin, ReadDot, ReadMax, ReadMod
<1>3. scan'[q].call = scan[q].call
  <2>1. CASE ReadText(p)
    BY <2>1 DEF ScanOK, ReadText
  <2>2. CASE ReadFlags(p)
    BY <2>2 DEF ScanOK, ReadFlags
  <2>3. CASE ReadMin(p)
    BY <2>3 DEF ScanOK, ReadMin
  <2>4. CASE ReadDot(p) \/ ReadMax(p) \/ ReadMod(p)
    BY <2>4 DEF ScanOK, ReadDot, ReadMax, ReadMod
  <2> QED BY <2>1, <2>2, <2>3, <2>4
<1> QED BY <1>1, <1>2, <1>3 DEF SameCall

\* Between two characters the scanner stays in its call.
LEMMA ScanKeepsCall ==
  ASSUME ScanOK, NEW p \in Printers, Scan(p), NEW q \in Printers
  PROVE  console' = console /\ SameCall(q)
<1>1. console' = console
  BY DEF Scan, Reading, ReadText, ReadFlags, ReadMin, ReadDot, ReadMax, ReadMod, ConvertInt,
         ConvertFp, ConvertStr, ConvertChar, ConvertExponent, ConvertNothing
<1>2. CASE \/ ReadText(p) \/ ReadFlags(p) \/ ReadMin(p) \/ ReadDot(p) \/ ReadMax(p) \/ ReadMod(p)
  BY <1>1, <1>2, ReadKeepsCall
<1>3. CASE \E text, used, skip : scan' = After(p, text, used, skip)
  BY <1>1, <1>3, AfterKeepsCall
<1>4. CASE \E text : scan' = [After(p, text, 1, 0) EXCEPT ![p].noted = scan[p].currlen]
  <2>1. PICK text : scan' = [After(p, text, 1, 0) EXCEPT ![p].noted = scan[p].currlen]
    BY <1>4
  <2>2. DOMAIN scan' = Printers
    BY <2>1 DEF After, ScanOK
  <2>3. "call" \in DOMAIN scan'[q]
    BY <2>1 DEF After, ScanOK
  <2>4. scan'[q].call = scan[q].call
    BY <2>1 DEF After, ScanOK
  <2> QED BY <1>1, <2>2, <2>3, <2>4 DEF SameCall
<1>5. CASE \/ ConvertInt(p) \/ ConvertFp(p) \/ ConvertStr(p) \/ ConvertChar(p)
           \/ ConvertExponent(p) \/ ConvertNothing(p)
  <2>1. \/ \E text, used, skip : scan' = After(p, text, used, skip)
        \/ \E text : scan' = [After(p, text, 1, 0) EXCEPT ![p].noted = scan[p].currlen]
    BY <1>5 DEF ConvertInt, ConvertFp, ConvertStr, ConvertChar, ConvertExponent, ConvertNothing
  <2> QED BY <1>3, <1>4, <2>1
<1> QED BY <1>2, <1>5 DEF Scan

\* One more character on the console.
LEMMA Appended ==
  ASSUME console \in Seq(Shown), NEW e, console' = Append(console, e)
  PROVE  /\ Len(console) \in Nat
         /\ DOMAIN console = 1 .. Len(console) /\ DOMAIN console' = 1 .. Len(console) + 1
         /\ \A i \in 1 .. Len(console) : console'[i] = console[i]
         /\ console'[Len(console) + 1] = e
         /\ console' \in Seq(Shown')
<1> DEFINE S == Shown \cup {e}
<1>1. console \in Seq(S)
  BY LenProperties DEF Shown
<1> HIDE DEF S
<1>2. /\ console' \in Seq(S) /\ Len(console') = Len(console) + 1 /\ Len(console) \in Nat
      /\ \A i \in 1 .. Len(console) : console'[i] = console[i]
      /\ console'[Len(console) + 1] = e
  BY <1>1, AppendProperties, LenProperties DEF S
<1>3. DOMAIN console = 1 .. Len(console) /\ DOMAIN console' = 1 .. Len(console) + 1
  BY <1>1, <1>2, LenProperties
<1>4. console' \in Seq(Shown')
  BY <1>2, LenProperties DEF Shown
<1> QED BY <1>2, <1>3, <1>4

-----------------------------------------------------------------------------
(* Steps                                                                   *)

\* A step that prints nothing and begins no call of a core, and after which no
\* core formats that did not, and none is without the lock that had it.
LEMMA QuietStep ==
  ASSUME IInv, console' = console, DOMAIN scan' = Printers, DOMAIN at' = Printers,
         \A p \in Printers : /\ "call" \in DOMAIN scan'[p] /\ scan'[p].call \in Nat
                             /\ scan'[p].call >= scan[p].call
                             /\ p \in Cores => scan'[p].call = scan[p].call,
         \A c \in Cores : /\ at'[c] \in {"idle", "lock", "format", "halted"}
                          /\ panicked' = {} /\ at'[c] = "format" => at[c] = "format" /\ taken',
         panicked' = {} => panicked = {}
  PROVE  IInv'
<1>1. ConsoleTypeOK'
  BY DEF IInv, ConsoleTypeOK, Shown
<1>2. CallsInv'
  <2>1. ASSUME NEW i \in DOMAIN console
        PROVE  /\ console[i].by \in Printers /\ console[i].call \in Nat
               /\ console[i].call <= scan'[console[i].by].call
    <3>1. PICK p \in Printers : p = console[i].by
      BY DEF IInv, CallsInv
    <3>2. /\ console[i].call \in Nat /\ console[i].call <= scan[p].call
          /\ scan[p].call \in Nat /\ scan'[p].call \in Nat /\ scan'[p].call >= scan[p].call
      BY <3>1 DEF IInv, CallsInv, ConsoleTypeOK
    <3> QED BY <3>1, <3>2
  <2> QED BY <2>1 DEF CallsInv
<1>3. LockInv'
  BY DEF IInv, LockInv
<1>4. LastInv'
  BY ConsoleAssumption DEF IInv, LastInv, Current
<1>5. MessagesWhole'
  BY DEF IInv, MessagesWhole
<1> QED BY <1>1, <1>2, <1>3, <1>4, <1>5 DEF IInv

\* A character of printer p, which if it is a core has the lock.
LEMMA PutStep ==
  ASSUME IInv, NEW p \in Printers, NEW ch, UNCHANGED <<taken, panicked>>,
         console' = Append(console, [by |-> p, call |-> scan[p].call, ch |-> ch]),
         \A q \in Printers : SameCall(q), DOMAIN at' = Printers,
         \A c \in Cores : at'[c] = at[c],
         p \in Cores => at[p] = "format"
  PROVE  IInv'
<1> DEFINE n == Len(console)
           e == [by |-> p, call |-> scan[p].call, ch |-> ch]
<1>1. e.by = p /\ e.call = scan[p].call
  OBVIOUS
<1> HIDE DEF e
<1>2. /\ n \in Nat /\ DOMAIN console = 1 .. n /\ DOMAIN console' = 1 .. n + 1
      /\ \A i \in 1 .. n : console'[i] = console[i]
      /\ console'[n + 1] = e
      /\ console' \in Seq(Shown')
  <2>1. console' = Append(console, e) /\ console \in Seq(Shown)
    BY DEF e, IInv, ConsoleTypeOK
  <2> QED BY <2>1, Appended
<1> HIDE DEF n
<1>3. ConsoleTypeOK'
  BY <1>2 DEF IInv, ConsoleTypeOK, SameCall
<1>4. CallsInv'
  BY <1>1, <1>2 DEF IInv, CallsInv, ConsoleTypeOK, SameCall
<1>5. LockInv'
  BY DEF IInv, LockInv
<1>6. LastInv'
  <2> SUFFICES ASSUME panicked = {}, NEW c \in Cores, at[c] = "format",
                      NEW i \in 1 .. n + 1, NEW j \in 1 .. n + 1, i < j,
                      console'[i].by = c, console'[i].call = scan[c].call,
                      console'[j].by \in Cores
               PROVE  console'[j].by = c /\ console'[j].call = scan[c].call
    <3>1. \A c \in Cores : c \in Printers /\ at'[c] = at[c] /\ scan'[c].call = scan[c].call
      BY ConsoleAssumption DEF SameCall
    <3> QED BY <1>2, <3>1 DEF LastInv, Current
  <2>1. i \in 1 .. n
    BY <1>2
  <2>2. CASE j = n + 1
    <3>1. p \in Cores /\ console'[j] = e
      BY <1>1, <1>2, <2>2
    <3>2. p = c
      BY <3>1 DEF IInv, LockInv
    <3> QED BY <1>1, <3>1, <3>2
  <2>3. CASE j # n + 1
    <3>1. j \in 1 .. n /\ console'[i] = console[i] /\ console'[j] = console[j]
      BY <1>2, <2>1, <2>3
    <3> QED BY <1>2, <2>1, <3>1 DEF IInv, LastInv, Current
  <2> QED BY <2>2, <2>3
<1>7. MessagesWhole'
  <2> SUFFICES ASSUME panicked = {},
                      NEW i \in 1 .. n + 1, NEW k \in 1 .. n + 1, i < k,
                      console'[i].by \in Cores,
                      console'[i].by = console'[k].by, console'[i].call = console'[k].call,
                      NEW j \in i .. k, console'[j].by \in Cores
               PROVE  console'[j].by = console'[i].by /\ console'[j].call = console'[i].call
    BY <1>2 DEF MessagesWhole
  <2>1. i \in 1 .. n /\ j \in 1 .. n + 1 /\ console'[i] = console[i]
    BY <1>2
  <2>2. CASE k = n + 1
    <3>1. console'[k] = e
      BY <1>2, <2>2
    <3>2. p \in Cores /\ console[i].by = p /\ console[i].call = scan[p].call
      BY <1>1, <2>1, <3>1
    <3>3. CASE j = n + 1
      BY <2>2, <3>3
    <3>4. CASE j # n + 1 /\ j # i
      <4>1. j \in 1 .. n /\ i < j /\ console'[j] = console[j]
        BY <1>2, <2>1, <3>4
      <4> QED BY <1>2, <2>1, <3>2, <4>1 DEF IInv, LastInv, Current
    <3> QED BY <3>3, <3>4
  <2>3. CASE k # n + 1
    <3>1. k \in 1 .. n /\ j \in 1 .. n /\ console'[k] = console[k] /\ console'[j] = console[j]
      BY <1>2, <2>1, <2>3
    <3>2. /\ console[i].by \in Cores /\ console[j].by \in Cores
          /\ console[i].by = console[k].by /\ console[i].call = console[k].call
      BY <2>1, <3>1
    <3>3. console[j].by = console[i].by /\ console[j].call = console[i].call
      BY <1>2, <2>1, <3>1, <3>2 DEF IInv, MessagesWhole
    <3> QED BY <2>1, <3>1, <3>3
  <2> QED BY <2>2, <2>3
<1> QED BY <1>3, <1>4, <1>5, <1>6, <1>7 DEF IInv

-----------------------------------------------------------------------------
(* Every step                                                              *)

\* At first nothing has been printed.
LEMMA InitIInv == Init => IInv
<1> SUFFICES ASSUME Init PROVE IInv
  OBVIOUS
<1>1. console = << >> /\ DOMAIN console = {}
  BY DEF Init
<1>2. "call" \in DOMAIN Fresh /\ Fresh.call = 0
  BY DEF Fresh
<1>3. \A p \in Printers : scan[p] = Fresh /\ at[p] = "idle"
  BY DEF Init
<1>4. ConsoleTypeOK
  <2>1. console \in Seq(Shown)
    BY <1>1
  <2> QED BY <1>2, <1>3, <2>1, ConsoleAssumption DEF Init, ConsoleTypeOK
<1>5. CallsInv /\ LastInv /\ MessagesWhole
  BY <1>1 DEF CallsInv, LastInv, MessagesWhole
<1>6. LockInv
  BY <1>3, ConsoleAssumption DEF LockInv
<1> QED BY <1>4, <1>5, <1>6 DEF IInv

\* Only this core gets the lock, and with it a new call.
LEMMA LockStep ==
  ASSUME IInv, NEW c \in Cores, Lock(c)
  PROVE  IInv'
<1>1. /\ at[c] = "lock" /\ at' = [at EXCEPT ![c] = "format"] /\ ~taken /\ taken' = TRUE
      /\ UNCHANGED <<console, panicked>>
      /\ scan' = [scan EXCEPT ![c] = [Fresh EXCEPT !.fmt = job[c].fmt, !.args = job[c].args,
                                                   !.call = scan[c].call + 1]]
  BY DEF Lock, Goto, Begin, rest
<1>2. c \in Printers /\ Cores \subseteq Printers
  BY ConsoleAssumption
<1>3. /\ DOMAIN scan' = Printers
      /\ scan'[c].call = scan[c].call + 1
      /\ \A p \in Printers : "call" \in DOMAIN scan'[p] /\ scan'[p].call \in Nat
      /\ \A p \in Printers \ {c} : scan'[p] = scan[p]
  BY <1>1, <1>2 DEF IInv, ConsoleTypeOK, Fresh
<1>4. ConsoleTypeOK'
  BY <1>1, <1>2, <1>3 DEF IInv, ConsoleTypeOK, Shown
<1>5. CallsInv'
  <2>1. ASSUME NEW i \in DOMAIN console
        PROVE  /\ console[i].by \in Printers /\ console[i].call \in Nat
               /\ console[i].call <= scan'[console[i].by].call
    <3>1. PICK p \in Printers : p = console[i].by
      BY DEF IInv, CallsInv
    <3>2. console[i].call \in Nat /\ console[i].call <= scan[p].call /\ scan[p].call \in Nat
      BY <3>1 DEF IInv, CallsInv, ConsoleTypeOK
    <3>3. scan'[p].call = IF p = c THEN scan[p].call + 1 ELSE scan[p].call
      BY <1>3
    <3> QED BY <3>1, <3>2, <3>3
  <2> QED BY <1>1, <2>1 DEF CallsInv
<1>6. panicked = {} => \A d \in Cores : at[d] # "format"
  BY <1>1 DEF IInv, LockInv
<1>7. DOMAIN at = Printers
  BY DEF IInv, ConsoleTypeOK
<1>8. LockInv'
  BY <1>1, <1>2, <1>6, <1>7 DEF LockInv
<1>9. LastInv'
  <2>1. \A i \in DOMAIN console : console[i].by = c => console[i].call # scan'[c].call
    <3> SUFFICES ASSUME NEW i \in DOMAIN console, console[i].by = c
                 PROVE  console[i].call # scan'[c].call
      OBVIOUS
    <3>1. console[i].call \in Nat /\ console[i].call <= scan[c].call /\ scan[c].call \in Nat
      BY <1>2 DEF IInv, CallsInv, ConsoleTypeOK
    <3> QED BY <1>3, <3>1
  <2>2. \A d \in Cores : panicked = {} /\ at'[d] = "format" => d = c
    BY <1>1, <1>2, <1>6, <1>7
  <2> QED BY <1>1, <2>1, <2>2 DEF LastInv, Current
<1>10. MessagesWhole'
  BY <1>1 DEF IInv, MessagesWhole
<1> QED BY <1>4, <1>5, <1>8, <1>9, <1>10 DEF IInv

\* dopr() of a core that has the lock, or of a process.
LEMMA DoprStep ==
  ASSUME IInv, NEW p \in Printers, Dopr(p), at[p] = "format", DOMAIN at' = Printers,
         \A c \in Cores : at'[c] = at[c], UNCHANGED <<taken, panicked>>
  PROVE  IInv'
<1>1. ScanOK
  BY DEF IInv, ConsoleTypeOK, ScanOK
<1>2. CASE Scan(p)
  <2>1. console' = console /\ \A q \in Printers : SameCall(q)
    BY <1>1, <1>2, ScanKeepsCall
  <2>2. \A c \in Cores : panicked = {} /\ at[c] = "format" => taken
    BY DEF IInv, LockInv
  <2>3. \A q \in Printers : /\ "call" \in DOMAIN scan'[q] /\ scan'[q].call \in Nat
                            /\ scan'[q].call >= scan[q].call /\ scan'[q].call = scan[q].call
    BY <1>1, <2>1 DEF SameCall, ScanOK
  <2>4. \A c \in Cores : at'[c] \in {"idle", "lock", "format", "halted"}
    BY DEF IInv, ConsoleTypeOK
  <2>5. DOMAIN scan' = Printers
    BY <2>1 DEF SameCall
  <2> QED BY <2>1, <2>2, <2>3, <2>4, <2>5, QuietStep
<1>3. CASE Put(p)
  <2>1. console' = Append(console, [by |-> p, call |-> scan[p].call, ch |-> Head(scan[p].pend)])
    BY <1>3 DEF Put
  <2>2. \A q \in Printers : SameCall(q)
    BY <1>1, <1>3 DEF Put, ScanOK, SameCall
  <2>3. PICK ch : ch = Head(scan[p].pend)
    OBVIOUS
  <2>4. console' = Append(console, [by |-> p, call |-> scan[p].call, ch |-> ch])
    BY <2>1, <2>3
  <2> QED BY <2>2, <2>4, PutStep
<1> QED BY <1>2, <1>3 DEF Dopr

\* A step of printer p that neither prints nor scans, and after which p does
\* not format, or is a process; nothing is unlocked and nobody panics.
LEMMA MoveStep ==
  ASSUME IInv, NEW p \in Printers, NEW there, at' = [at EXCEPT ![p] = there],
         p \in Cores => there \in {"idle", "lock"},
         UNCHANGED <<scan, console, taken, panicked>>
  PROVE  IInv'
<1>1. DOMAIN at = Printers /\ DOMAIN scan = Printers /\ Cores \subseteq Printers
  BY ConsoleAssumption DEF IInv, ConsoleTypeOK
<1>2. \A q \in Printers : /\ "call" \in DOMAIN scan'[q] /\ scan'[q].call \in Nat
                          /\ scan'[q].call >= scan[q].call /\ scan'[q].call = scan[q].call
  BY DEF IInv, ConsoleTypeOK
<1>3. \A c \in Cores : /\ at'[c] \in {"idle", "lock", "format", "halted"}
                       /\ panicked' = {} /\ at'[c] = "format" => at[c] = "format" /\ taken'
  BY <1>1 DEF IInv, ConsoleTypeOK, LockInv
<1> QED BY <1>1, <1>2, <1>3, QuietStep

\* A process begins a call, of printf() or of cp(): it takes no lock.
LEMMA NewCallStep ==
  ASSUME IInv, NEW p \in Processes, NEW there, at' = [at EXCEPT ![p] = there], NEW new,
         "call" \in DOMAIN new, new.call = scan[p].call + 1,
         scan' = [scan EXCEPT ![p] = new], UNCHANGED <<console, taken, panicked>>
  PROVE  IInv'
<1>1. /\ DOMAIN at = Printers /\ DOMAIN scan = Printers /\ Cores \subseteq Printers
      /\ p \in Printers /\ p \notin Cores
  BY ConsoleAssumption DEF IInv, ConsoleTypeOK
<1>2. \A q \in Printers : /\ "call" \in DOMAIN scan'[q] /\ scan'[q].call \in Nat
                          /\ scan'[q].call >= scan[q].call
                          /\ q \in Cores => scan'[q].call = scan[q].call
  <2>1. TAKE q \in Printers
  <2>2. "call" \in DOMAIN scan[q] /\ scan[q].call \in Nat
    BY DEF IInv, ConsoleTypeOK
  <2>3. scan'[q] = IF q = p THEN new ELSE scan[q]
    BY <1>1
  <2> QED BY <1>1, <2>2, <2>3
<1>3. \A c \in Cores : /\ at'[c] \in {"idle", "lock", "format", "halted"}
                       /\ panicked' = {} /\ at'[c] = "format" => at[c] = "format" /\ taken'
  BY <1>1 DEF IInv, ConsoleTypeOK, LockInv
<1>4. DOMAIN scan' = Printers /\ DOMAIN at' = Printers
  BY <1>1
<1> QED BY <1>2, <1>3, <1>4, QuietStep

\* No other core formats while this one gives the lock back.
LEMMA UnlockStep ==
  ASSUME IInv, NEW c \in Cores, Unlock(c)
  PROVE  IInv'
<1>1. /\ at[c] = "format" /\ at' = [at EXCEPT ![c] = "idle"]
      /\ UNCHANGED <<scan, console, panicked>>
  BY DEF Unlock, Goto, rest
<1>2. DOMAIN at = Printers /\ DOMAIN scan = Printers /\ Cores \subseteq Printers
  BY ConsoleAssumption DEF IInv, ConsoleTypeOK
<1>3. \A q \in Printers : /\ "call" \in DOMAIN scan'[q] /\ scan'[q].call \in Nat
                          /\ scan'[q].call >= scan[q].call /\ scan'[q].call = scan[q].call
  BY <1>1 DEF IInv, ConsoleTypeOK
<1>4. \A d \in Cores : /\ at'[d] \in {"idle", "lock", "format", "halted"}
                       /\ panicked' = {} => at'[d] # "format"
  BY <1>1, <1>2 DEF IInv, ConsoleTypeOK, LockInv
<1> QED BY <1>1, <1>2, <1>3, <1>4, QuietStep

\* From the first panic on nothing is promised.
LEMMA PanicStep ==
  ASSUME IInv, NEW c \in Cores, Panic(c) \/ Halt(c)
  PROVE  IInv'
<1>1. /\ UNCHANGED <<scan, console>> /\ panicked' # {}
      /\ at' = [at EXCEPT ![c] = "idle"] \/ at' = [at EXCEPT ![c] = "halted"]
  BY DEF Panic, Halt, Goto
<1>2. DOMAIN at = Printers /\ DOMAIN scan = Printers /\ Cores \subseteq Printers
  BY ConsoleAssumption DEF IInv, ConsoleTypeOK
<1>3. \A q \in Printers : /\ "call" \in DOMAIN scan'[q] /\ scan'[q].call \in Nat
                          /\ scan'[q].call >= scan[q].call /\ scan'[q].call = scan[q].call
  BY <1>1 DEF IInv, ConsoleTypeOK
<1>4. \A d \in Cores : at'[d] \in {"idle", "lock", "format", "halted"}
  BY <1>1, <1>2 DEF IInv, ConsoleTypeOK
<1> QED BY <1>1, <1>2, <1>3, <1>4, QuietStep

\* Debug::printf() and Debug::vpanic().
LEMMA KernelStep ==
  ASSUME IInv, NEW c \in Cores, Kernel(c)
  PROVE  IInv'
<1>1. c \in Printers
  BY ConsoleAssumption
<1>2. CASE Call(c)
  BY <1>1, <1>2, MoveStep DEF Call, Goto, rest
<1>3. CASE Lock(c)
  BY <1>3, LockStep
<1>4. CASE Format(c)
  <2>1. /\ Dopr(c) /\ at[c] = "format" /\ at' = [at EXCEPT ![c] = "format"]
        /\ UNCHANGED <<taken, panicked>>
    BY <1>4 DEF Format, Goto, rest
  <2>2. DOMAIN at' = Printers /\ \A d \in Cores : at'[d] = at[d]
    BY <2>1 DEF IInv, ConsoleTypeOK
  <2> QED BY <1>1, <2>1, <2>2, DoprStep
<1>5. CASE Unlock(c)
  BY <1>5, UnlockStep
<1>6. CASE Panic(c) \/ Halt(c)
  BY <1>6, PanicStep
<1> QED BY <1>2, <1>3, <1>4, <1>5, <1>6 DEF Kernel

\* printf() and cp() of a process.
LEMMA UserStep ==
  ASSUME IInv, NEW p \in Processes, User(p)
  PROVE  IInv'
<1>1. p \in Printers /\ p \notin Cores
  BY ConsoleAssumption
<1>2. \A there : at' = [at EXCEPT ![p] = there] =>
                  DOMAIN at' = Printers /\ \A c \in Cores : at'[c] = at[c]
  BY <1>1 DEF IInv, ConsoleTypeOK
<1>3. CASE UserCall(p)
  <2>1. PICK new : new = [Fresh EXCEPT !.fmt = Head(todo[p]).fmt, !.args = Head(todo[p]).args,
                                       !.call = scan[p].call + 1]
    OBVIOUS
  <2>2. "call" \in DOMAIN new /\ new.call = scan[p].call + 1
    BY <2>1 DEF Fresh
  <2>3. /\ at' = [at EXCEPT ![p] = "format"] /\ scan' = [scan EXCEPT ![p] = new]
        /\ UNCHANGED <<console, taken, panicked>>
    BY <1>3, <2>1 DEF UserCall, Goto, Begin, rest
  <2> QED BY <2>2, <2>3, NewCallStep
<1>4. CASE UserFormat(p)
  <2>1. /\ at[p] = "format" /\ at' = [at EXCEPT ![p] = "format"] /\ UNCHANGED <<taken, panicked>>
    BY <1>4 DEF UserFormat, Goto, rest
  <2>2. Dopr(p)
    BY <1>4 DEF UserFormat, UserRead, UserConvert, UserConvertIntOrStr, UserConvertFp, Putchar,
                Dopr, Scan
  <2> QED BY <1>1, <1>2, <2>1, <2>2, DoprStep
<1>5. CASE UserReturn(p)
  BY <1>1, <1>5, MoveStep DEF UserReturn, Goto, rest
<1>6. CASE CopyBegin(p)
  <2>1. PICK new : new = [Fresh EXCEPT !.call = scan[p].call + 1]
    OBVIOUS
  <2>2. "call" \in DOMAIN new /\ new.call = scan[p].call + 1
    BY <2>1 DEF Fresh
  <2>3. /\ at' = [at EXCEPT ![p] = "read"] /\ scan' = [scan EXCEPT ![p] = new]
        /\ UNCHANGED <<console, taken, panicked>>
    BY <1>6, <2>1 DEF CopyBegin, Goto
  <2> QED BY <2>2, <2>3, NewCallStep
<1>7. CASE CopyRead(p)
  <2>1. PICK there : at' = [at EXCEPT ![p] = there]
    BY <1>7 DEF CopyRead, Goto
  <2>2. UNCHANGED <<scan, console, taken, panicked>>
    BY <1>7 DEF CopyRead
  <2> QED BY <1>1, <2>1, <2>2, MoveStep
<1>8. CASE CopyWrite(p)
  <2>1. PICK there : at' = [at EXCEPT ![p] = there]
    BY <1>8 DEF CopyWrite, Goto
  <2>2. PICK ch : ch = Head(buf[p])
    OBVIOUS
  <2>3. /\ console' = Append(console, [by |-> p, call |-> scan[p].call, ch |-> ch])
        /\ UNCHANGED <<scan, taken, panicked>>
    BY <1>8, <2>2 DEF CopyWrite
  <2>4. \A q \in Printers : SameCall(q)
    BY <2>3 DEF IInv, ConsoleTypeOK, SameCall
  <2> QED BY <1>1, <1>2, <2>1, <2>3, <2>4, PutStep
<1> QED BY <1>3, <1>4, <1>5, <1>6, <1>7, <1>8 DEF User

\* No step breaks the invariant.
LEMMA NextIInv == IInv /\ [Next]_vars => IInv'
<1>1. ASSUME IInv, Next PROVE IInv'
  BY <1>1, KernelStep, UserStep DEF Next
<1>2. ASSUME IInv, UNCHANGED vars PROVE IInv'
  BY <1>2 DEF vars, IInv, ConsoleTypeOK, Shown, CallsInv, LockInv, LastInv, Current, MessagesWhole
<1> QED BY <1>1, <1>2

-----------------------------------------------------------------------------
(* The theorems                                                            *)

\* What the promise rests on: the core that formats has the lock of debug.cc,
\* and no other core has put anything since the first character of its call.
THEOREM SpecIInv == Spec => []IInv
<1> QED BY InitIInv, NextIInv, PTL DEF Spec

\* Messages stay whole (debug.cc): unless the kernel panics, what one call of
\* Debug::printf() puts on the console stands together, no other core's message
\* is mixed into it, whatever processes print and copy between any two of its
\* characters.
THEOREM MessagesStayWhole == Spec => []MessagesWhole
<1>1. IInv => MessagesWhole
  BY DEF IInv
<1> QED BY <1>1, SpecIInv, PTL
=============================================================================
