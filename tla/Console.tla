------------------------------ MODULE Console -------------------------------
(***************************************************************************)
(* Who prints on the serial line (u8250.cc): the cores, through Debug      *)
(* (debug.cc), whose messages hold a lock from their first character to    *)
(* their last, and the processes, whose printf() and cp() (libc.c,         *)
(* printf.c) make a system call for every character and take no lock.      *)
(*                                                                         *)
(* A job is a call: [kind, fmt, args, items], where items are the          *)
(* directives of fmt as the caller meant them, or kind "copy" with the     *)
(* file's characters in fmt.                                               *)
(***************************************************************************)
EXTENDS Printf

CONSTANTS Cores,      \* printers in the kernel
          Processes,  \* printers that are user programs
          Plans,      \* the jobs the printers may have, one sequence for each
          Chunk       \* the buffer of cp(), 100

ASSUME ConsoleAssumption ==
  /\ Printers = Cores \cup Processes /\ Cores \cap Processes = {}
  /\ Chunk \in Nat \ {0}

VARIABLES taken,     \* the lock of debug.cc
          at,        \* at[p]: where printer p is
          todo,      \* todo[p]: the jobs it still has
          job,       \* job[p]: the one it is at, or was
          file,      \* file[p]: what cp() has still to read
          buf,       \* buf[p]: what it has read and still to write
          panicked,  \* the cores that are in vpanic()
          off        \* the write to port 0xf4 has ended the machine

vars == <<scan, console, taken, at, todo, job, file, buf, panicked, off>>
rest == <<file, buf, panicked, off>>

NoJob == [kind |-> "none", fmt |-> <<>>, args |-> <<>>, items |-> <<>>]

Init == /\ scan = [p \in Printers |-> Fresh]
        /\ console = <<>>
        /\ taken = FALSE
        /\ at = [p \in Printers |-> "idle"]
        /\ todo \in Plans
        /\ job = [p \in Printers |-> NoJob]
        /\ file = [p \in Printers |-> <<>>]
        /\ buf = [p \in Printers |-> <<>>]
        /\ panicked = {}
        /\ off = FALSE

Goto(p, here, there) == ~off /\ at[p] = here /\ at' = [at EXCEPT ![p] = there]

Take(p, kind) == /\ todo[p] # <<>> /\ Head(todo[p]).kind = kind
                 /\ job' = [job EXCEPT ![p] = Head(todo[p])]
                 /\ todo' = [todo EXCEPT ![p] = Tail(@)]

-----------------------------------------------------------------------------
(* Debug::printf() and vprintf() on core c *)

Call(c) ==
  /\ Goto(c, "idle", "lock") /\ Take(c, "printf")
  /\ UNCHANGED <<scan, console, taken, rest>>

\* Mutant: the lock is set and not looked at.
LockUnseen(c) ==
  /\ Goto(c, "lock", "format")
  /\ taken' = TRUE
  /\ Begin(c, job[c].fmt, job[c].args)
  /\ UNCHANGED <<console, todo, job, rest>>

\* lock.lock(), then snprintf() begins.
Lock(c) ==
  /\ Goto(c, "lock", "format")
  /\ ~taken /\ taken' = TRUE
  /\ Begin(c, job[c].fmt, job[c].args)
  /\ UNCHANGED <<console, todo, job, rest>>

Format(c) ==
  /\ Goto(c, "format", "format")
  /\ Dopr(c)
  /\ UNCHANGED <<taken, todo, job, rest>>

\* Mutant: the unlock is missing.
KeepLock(c) ==
  /\ Goto(c, "format", "idle")
  /\ Finished(c)
  /\ UNCHANGED <<scan, console, taken, todo, job, rest>>

Unlock(c) ==
  /\ Goto(c, "format", "idle")
  /\ Finished(c)
  /\ taken' = FALSE
  /\ UNCHANGED <<scan, console, todo, job, rest>>

-----------------------------------------------------------------------------
(* Debug::vpanic() *)

Halting(c) == [kind |-> "printf", fmt |-> <<"|", "%", "d">>, args |-> <<1>>,
               items |-> <<[conv |-> "d", min |-> 0, max |-> -1, flags |-> {}, value |-> 1]>>]

\* The lock is unlocked whoever holds it; two messages follow.
Panic(c) ==
  /\ Goto(c, "idle", "idle")
  /\ todo[c] # <<>> /\ Head(todo[c]).kind = "panic"
  /\ taken' = FALSE
  /\ todo' = [todo EXCEPT ![c] = <<[Head(@) EXCEPT !.kind = "printf"], Halting(c)>>]
  /\ panicked' = panicked \cup {c}
  /\ UNCHANGED <<scan, console, job, file, buf, off>>

\* The loop that writes to port 0xf4.
Halt(c) ==
  /\ Goto(c, "idle", "halted")
  /\ c \in panicked /\ todo[c] = <<>>
  /\ off' = TRUE
  /\ UNCHANGED <<scan, console, taken, todo, job, file, buf, panicked>>

Kernel(c) == Call(c) \/ Lock(c) \/ Format(c) \/ Unlock(c) \/ Panic(c) \/ Halt(c)

-----------------------------------------------------------------------------
(* printf() of a user program.  The system calls of two processes, and the *)
(* messages of the kernel, come between any two characters.                *)

UserCall(p) ==
  /\ Goto(p, "idle", "format") /\ Take(p, "printf")
  /\ Begin(p, Head(todo[p]).fmt, Head(todo[p]).args)
  /\ UNCHANGED <<console, taken, rest>>

UserRead(p) == \/ ReadText(p) \/ ReadFlags(p) \/ ReadMin(p) \/ ReadDot(p)
               \/ ReadMax(p) \/ ReadMod(p)

UserConvert(p) == ConvertChar(p) \/ ConvertExponent(p) \/ ConvertNothing(p)

UserConvertIntOrStr(p) == ConvertInt(p) \/ ConvertStr(p)

UserConvertFp(p) == ConvertFp(p)

\* putchar(): write(1, &t, 1), one character.
Putchar(p) == Put(p)

UserFormat(p) ==
  /\ Goto(p, "format", "format")
  /\ \/ UserRead(p) \/ UserConvert(p) \/ UserConvertIntOrStr(p) \/ UserConvertFp(p)
     \/ Putchar(p)
  /\ UNCHANGED <<taken, todo, job, rest>>

UserReturn(p) ==
  /\ Goto(p, "format", "idle")
  /\ Finished(p)
  /\ UNCHANGED <<scan, console, taken, todo, job, rest>>

-----------------------------------------------------------------------------
(* cp() *)

CopyBegin(p) ==
  /\ Goto(p, "idle", "read") /\ Take(p, "copy")
  /\ file' = [file EXCEPT ![p] = Head(todo[p]).fmt]
  /\ scan' = [scan EXCEPT ![p] = [Fresh EXCEPT !.call = scan[p].call + 1]]
  /\ UNCHANGED <<console, taken, buf, panicked, off>>

\* read() of a chunk; it returns 0 at the end of the file.
CopyRead(p) ==
  /\ Goto(p, "read", IF file[p] = <<>> THEN "idle" ELSE "write")
  /\ LET n == IF Len(file[p]) < Chunk THEN Len(file[p]) ELSE Chunk
     IN  /\ buf' = [buf EXCEPT ![p] = SubSeq(file[p], 1, n)]
         /\ file' = [file EXCEPT ![p] = SubSeq(@, n + 1, Len(@))]
  /\ UNCHANGED <<scan, console, taken, todo, job, panicked, off>>

CopyWrite(p) ==
  /\ Goto(p, "write", IF Len(buf[p]) = 1 THEN "read" ELSE "write")
  /\ console' = Append(console, [by |-> p, call |-> scan[p].call, ch |-> Head(buf[p])])
  /\ buf' = [buf EXCEPT ![p] = Tail(@)]
  /\ UNCHANGED <<scan, taken, todo, job, file, panicked, off>>

User(p) == \/ UserCall(p) \/ UserFormat(p) \/ UserReturn(p)
           \/ CopyBegin(p) \/ CopyRead(p) \/ CopyWrite(p)

Next == (\E c \in Cores : Kernel(c)) \/ (\E p \in Processes : User(p))

\* Cores and processes run on; a spin lock that is free again and again is
\* got in the end, as the number of messages is finite.
Fairness == /\ \A c \in Cores : WF_vars(Kernel(c))
            /\ \A p \in Processes : WF_vars(User(p))

Spec == Init /\ [][Next]_vars /\ Fairness

-----------------------------------------------------------------------------
(* What the directive that was converted last should have shown.           *)

Asked(p) == job[p].items[scan[p].nth]
Converting(p, convs) == at[p] = "format" /\ scan[p].nth > 0 /\ Asked(p).conv \in convs

Unblank(text) == SelectSeq(text, LAMBDA ch : ch # " ")
Unsigned(text) == SelectSeq(text, LAMBDA ch : ch \notin {" ", "+", "-"})

DigitValue(ch) == (CHOOSE d \in 1..16 : ch \in {Digits[d], Capitals[d]}) - 1

ValueOf(digits, base) ==
  LET value[i \in 0..Len(digits)] ==
        IF i = 0 THEN 0 ELSE base * value[i - 1] + DigitValue(digits[i])
  IN  value[Len(digits)]

(* A number that is printed reads back as itself, in the base asked for,   *)
(* with its sign, with the digits its precision asks for and in a field of *)
(* the width asked for; only "0" with a precision makes the field narrower *)
(* (fmtint()).                                                             *)
IntegersReadBack ==
  \A p \in Printers : Converting(p, {"d", "i", "o", "u", "x", "X", "p"}) =>
    LET piece  == scan[p].piece
        digits == Unsigned(piece)
        shown  == ValueOf(digits, Base(Asked(p).conv))
    IN  /\ Word(IF Unblank(piece)[1] = "-" THEN -shown ELSE shown) = Word(Asked(p).value)
        /\ Asked(p).conv \in {"o", "u", "x", "X"} => Unblank(piece) = digits
        /\ Len(digits) >= Asked(p).max
        /\ Len(piece) >= Asked(p).min \/ ("0" \in Asked(p).flags /\ Asked(p).max >= 0)

(* A fraction is printed as the nearest one with the places asked for; but *)
(* not when its first place is 0 (1.05 is printed as 1.50).  The field has *)
(* the width asked for, less one for a point that is counted and not there *)
(* and one for a sign that is counted twice before zeros (fmtfp()).        *)
FractionsReadBack ==
  \A p \in Printers : Converting(p, {"f"}) =>
    LET places == IF Asked(p).max < 0 THEN 6 ELSE IF Asked(p).max > 9 THEN 9 ELSE Asked(p).max
        amount == IF Asked(p).value < 0 THEN -Asked(p).value ELSE Asked(p).value
        text   == Unsigned(scan[p].piece)
        point  == IF places = 0 THEN Len(text) + 1 ELSE Len(text) - places
        whole  == ValueOf(SubSeq(text, 1, point - 1), 10)
        part   == ValueOf(SubSeq(text, point + 1, Len(text)), 10)
        unit   == 10^(2 - places)
        error  == (whole * 10^places + part) * unit - amount
    IN  /\ places > 0 => text[point] = "."
        /\ IF places >= 2
           THEN amount % 100 \in 1..9 \/ (whole = amount \div 100
                                          /\ part = (amount % 100) * 10^(places - 2))
           ELSE 2 * (IF error < 0 THEN -error ELSE error) <= unit
        /\ Asked(p).value < 0 <=> Unblank(scan[p].piece)[1] = "-"
        /\ Len(scan[p].piece) >= Asked(p).min
             - (IF places = 0 THEN 1 ELSE 0)
             - (IF "0" \in Asked(p).flags
                THEN Len(SignOf(Asked(p).value < 0, Asked(p).flags)) ELSE 0)

(* A string takes at most the columns that its precision allows, and is    *)
(* there in full when they suffice (fmtstr()).                             *)
StringsKeepPrecision ==
  \A p \in Printers : Converting(p, {"s"}) =>
    LET shown == Unblank(scan[p].piece)
        limit == IF Asked(p).max < 0 THEN MaxLen ELSE Asked(p).max
        text  == Asked(p).value
    IN  /\ Len(scan[p].piece) <= limit
        /\ shown = SubSeq(text, 1, Len(shown))
        /\ Larger(Len(text), Asked(p).min) <= limit =>
             shown = text /\ Len(scan[p].piece) >= Asked(p).min

(* Whatever is printed can be read back from what is shown: integers,      *)
(* fractions and strings, with every flag, width and precision, but for    *)
(* the deviations of snprintf.cc that its parts state.                     *)
ConversionsReadBack == IntegersReadBack /\ FractionsReadBack /\ StringsKeepPrecision

(* Unless the kernel panics, what one call of Debug::printf() puts stands  *)
(* together on the console: no other core's message is mixed into it       *)
(* (only the output of processes may be).                                  *)
MessagesWhole ==
  panicked = {} =>
    \A i, k \in DOMAIN console :
      /\ i < k
      /\ console[i].by \in Cores
      /\ console[i].by = console[k].by /\ console[i].call = console[k].call
      => \A j \in i..k : console[j].by \in Cores => console[j].by = console[i].by
                                                   /\ console[j].call = console[i].call

(* Every call returns, whoever else prints, unless a panic ends the        *)
(* machine.                                                                *)
EveryCallReturns ==
  \A p \in Printers : at[p] # "idle" ~> (at[p] = "idle" \/ off)
=============================================================================
