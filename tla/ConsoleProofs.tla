--------------------------- MODULE ConsoleProofs ---------------------------
(***************************************************************************)
(* Proofs about Console, for any set of application processors and any     *)
(* number of pieces and messages.  LinesIntact rests on the lock of log    *)
(* alone: the lock of stdio.c is not held while a message is formatted.    *)
(* NoSelfDeadlock rests on the order of ap_kernel, which starts the timer  *)
(* after its last message.                                                 *)
(***************************************************************************)
EXTENDS Console, TLAPS

Labels == {"out", "log_lock"} \cup InLog

TypeOK ==
    /\ log_mutex \in BOOLEAN /\ mutex \in BOOLEAN
    /\ fb_buf \in Seq(Contexts \X {"head", "body", "newline"})
    /\ pc \in [Contexts -> Labels]
    /\ parts \in [Contexts -> Nat]
    /\ todo \in [CPUs -> Nat]
    /\ timer \in [CPUs -> BOOLEAN]

\* The flag of log is set exactly while one context, and only one, is between
\* setting and clearing it.
LogLockInv ==
    /\ \A x \in Contexts : pc[x] \in InLog => log_mutex
    /\ \A x, y \in Contexts : pc[x] \in InLog /\ pc[y] \in InLog => x = y

\* A CPU whose timer runs has left its boot code, and only such a CPU takes
\* periodic interrupts.
TimerInv ==
    \A c \in CPUs :
        /\ pc[<<c, "irq">>] # "out" => timer[c]
        /\ timer[c] => todo[c] = 0 /\ pc[<<c, "base">>] = "out"

\* How many pieces the buffer holds when context x, inside log, is at its pc.
Buffered(x) ==
    CASE pc[x] \in {"nl_lock", "nl"} -> BodyParts + 1
      [] pc[x] = "body"  -> parts[x] + 1
      [] pc[x] = "flush" -> BodyParts + 2
      [] OTHER -> 0

\* The buffer is the beginning of the line of the context inside log.
BufferInv ==
    /\ \A x \in Contexts : pc[x] = "body" => parts[x] < BodyParts
    /\ \A x \in Contexts : pc[x] \in InLog =>
           /\ Len(fb_buf) = Buffered(x)
           /\ \A i \in 1 .. Len(fb_buf) : fb_buf[i][1] = x
    /\ (\A x \in Contexts : pc[x] \notin InLog) => fb_buf = <<>>

IInv == TypeOK /\ LogLockInv /\ TimerInv /\ BufferInv

-----------------------------------------------------------------------------

\* Init establishes the invariant.
LEMMA InitIInv == Init => IInv
<1> SUFFICES ASSUME Init PROVE IInv
  OBVIOUS
<1> USE DEF Init
<1>1. TypeOK
  <2>1. todo \in [CPUs -> Nat] /\ parts \in [Contexts -> Nat]
    BY ConsoleAssumption
  <2>2. fb_buf \in Seq(Contexts \X {"head", "body", "newline"})
    OBVIOUS
  <2>3. timer \in [CPUs -> BOOLEAN] /\ pc \in [Contexts -> Labels]
    BY DEF Labels
  <2> QED
    BY <2>1, <2>2, <2>3 DEF TypeOK
<1>2. LogLockInv /\ TimerInv /\ BufferInv
  <2>1. \A x \in Contexts : pc[x] = "out"
    OBVIOUS
  <2>2. \A c \in CPUs : pc[<<c, "irq">>] = "out" /\ ~ timer[c]
    BY DEF Contexts
  <2> QED
    BY <2>1, <2>2 DEF LogLockInv, TimerInv, BufferInv, InLog
<1> QED
  BY <1>1, <1>2 DEF IInv

\* The steps of a CPU outside log: calling it, starting the timer, the tick.
LEMMA CpuStepIInv ==
    ASSUME IInv, NEW c \in CPUs, CallLog(c) \/ StartTimer(c) \/ Tick(c)
    PROVE  IInv'
<1> USE DEF IInv, Goto, Runs
<1>0. <<c, "base">> \in Contexts /\ <<c, "irq">> \in Contexts /\ <<c, "base">> # <<c, "irq">>
  BY DEF Contexts
<1>1. TypeOK'
  <2>1. todo' \in [CPUs -> Nat]
    BY DEF TypeOK, CallLog, StartTimer, Tick
  <2>2. timer' \in [CPUs -> BOOLEAN]
    BY DEF TypeOK, CallLog, StartTimer, Tick
  <2>3. pc' \in [Contexts -> Labels]
    BY DEF TypeOK, Labels, CallLog, StartTimer, Tick
  <2> QED
    BY <2>1, <2>2, <2>3 DEF TypeOK, CallLog, StartTimer, Tick
<1>2. \A x \in Contexts : /\ pc'[x] \in InLog <=> pc[x] \in InLog
                          /\ pc[x] \in InLog => pc'[x] = pc[x]
  BY <1>0 DEF TypeOK, CallLog, StartTimer, Tick, InLog
<1>3. LogLockInv'
  BY <1>2 DEF LogLockInv, CallLog, StartTimer, Tick
<1>4. BufferInv'
  BY <1>2 DEF BufferInv, Buffered, CallLog, StartTimer, Tick, InLog
<1>5. TimerInv'
  <2> SUFFICES ASSUME NEW d \in CPUs
               PROVE  /\ pc'[<<d, "irq">>] # "out" => timer'[d]
                      /\ timer'[d] => todo'[d] = 0 /\ pc'[<<d, "base">>] = "out"
    BY DEF TimerInv
  <2>0. <<d, "base">> \in Contexts /\ <<d, "irq">> \in Contexts
    BY DEF Contexts
  <2>1. CASE CallLog(c)
    BY <1>0, <2>0, <2>1 DEF TimerInv, TypeOK, CallLog
  <2>2. CASE StartTimer(c)
    BY <1>0, <2>0, <2>2 DEF TimerInv, TypeOK, StartTimer
  <2>3. CASE Tick(c)
    BY <1>0, <2>0, <2>3 DEF TimerInv, TypeOK, Tick
  <2> QED
    BY <2>1, <2>2, <2>3
<1> QED
  BY <1>1, <1>3, <1>4, <1>5

\* A step of context x, whichever it is, leaves every other context where it
\* is and moves x along log.
LEMMA StepMoves ==
    ASSUME IInv, NEW x \in Contexts, Step(x)
    PROVE  /\ TypeOK'
           /\ \A y \in Contexts \ {x} : pc'[y] = pc[y] /\ parts'[y] = parts[y]
           /\ pc[x] # "out" /\ pc'[x] # "log_lock"
           /\ todo' = todo /\ timer' = timer
<1> USE DEF IInv, Goto
<1>1. PICK a \in Labels, b \in Labels \ {"log_lock"} : Goto(x, a, b) /\ a # "out"
  BY DEF Step, LogLock, HeadLock, Head1, Body, NewlineLock, Newline, Flush, LogUnlock, Labels, InLog
<1>2. pc' \in [Contexts -> Labels] /\ pc[x] # "out" /\ pc'[x] # "log_lock"
      /\ \A y \in Contexts \ {x} : pc'[y] = pc[y]
  BY <1>1 DEF TypeOK
<1>3. parts' \in [Contexts -> Nat] /\ \A y \in Contexts \ {x} : parts'[y] = parts[y]
  BY DEF TypeOK, Step, LogLock, HeadLock, Head1, Body, NewlineLock, Newline, Flush, LogUnlock
<1>4. fb_buf' \in Seq(Contexts \X {"head", "body", "newline"})
  <2> DEFINE S == Contexts \X {"head", "body", "newline"}
  <2>1. fb_buf \in Seq(S)
    BY DEF TypeOK
  <2>2. fb_buf' = fb_buf \/ fb_buf' = <<>> \/ \E p \in S : fb_buf' = Append(fb_buf, p)
    <3>1. <<x, "head">> \in S /\ <<x, "body">> \in S /\ <<x, "newline">> \in S
      OBVIOUS
    <3> HIDE DEF S
    <3> QED
      BY <3>1 DEF Append1, Step, LogLock, HeadLock, Head1, Body, NewlineLock, Newline, Flush, LogUnlock
  <2> HIDE DEF S
  <2>3. fb_buf' \in Seq(S)
    <3>1. ASSUME NEW p \in S PROVE Append(fb_buf, p) \in Seq(S)
      BY <2>1
    <3>2. <<>> \in Seq(S)
      OBVIOUS
    <3> QED
      BY <2>1, <2>2, <3>1, <3>2, Zenon
  <2> QED
    BY <2>3 DEF S
<1>5. todo' = todo /\ timer' = timer /\ log_mutex' \in BOOLEAN /\ mutex' \in BOOLEAN
  BY DEF TypeOK, Step, LogLock, HeadLock, Head1, Body, NewlineLock, Newline, Flush, LogUnlock
<1> QED
  BY <1>2, <1>3, <1>4, <1>5 DEF TypeOK

\* The lock of log keeps all but one context out.
LEMMA StepLogLock ==
    ASSUME IInv, NEW x \in Contexts, Step(x)
    PROVE  LogLockInv'
<1> USE DEF IInv, LogLockInv, Goto
<1>0. pc \in [Contexts -> Labels]
  BY DEF TypeOK
<1>1. CASE LogLock(x)
  BY <1>0, <1>1 DEF LogLock, InLog
<1>2. CASE LogUnlock(x)
  BY <1>0, <1>2 DEF LogUnlock, InLog
<1>3. CASE HeadLock(x) \/ Head1(x) \/ Body(x) \/ NewlineLock(x) \/ Newline(x) \/ Flush(x)
  <2>1. log_mutex' = log_mutex /\ \A y \in Contexts : pc'[y] \in InLog <=> pc[y] \in InLog
    BY <1>0, <1>3 DEF HeadLock, Head1, Body, NewlineLock, Newline, Flush, InLog
  <2> QED
    BY <2>1
<1> QED
  BY <1>1, <1>2, <1>3 DEF Step

\* What the context inside log appends and flushes is a beginning of its line.
LEMMA StepBuffer ==
    ASSUME IInv, NEW x \in Contexts, Step(x)
    PROVE  BufferInv'
<1> USE DEF IInv, Goto
<1>0. /\ pc \in [Contexts -> Labels] /\ parts \in [Contexts -> Nat]
      /\ fb_buf \in Seq(Contexts \X {"head", "body", "newline"})
      /\ BodyParts \in Nat \ {0}
  BY ConsoleAssumption DEF TypeOK
<1>1. \A y \in Contexts \ {x} : pc'[y] = pc[y] /\ parts'[y] = parts[y]
  BY StepMoves
<1>2. LogLockInv'
  BY StepLogLock
<1>3. CASE LogLock(x)
  <2>1. \A y \in Contexts : pc[y] \notin InLog
    BY <1>3 DEF LogLock, LogLockInv
  <2>2. fb_buf' = <<>>
    BY <1>3, <2>1 DEF BufferInv, LogLock
  <2>3. \A y \in Contexts : pc'[y] \in InLog => y = x
    BY <1>1, <2>1
  <2>4. pc'[x] = "head_lock"
    BY <1>0, <1>3 DEF LogLock
  <2> QED
    BY <2>2, <2>3, <2>4 DEF BufferInv, Buffered, InLog
<1>4. CASE ~ LogLock(x)
  <2>1. pc[x] \in InLog
    BY <1>4 DEF Step, HeadLock, Head1, Body, NewlineLock, Newline, Flush, LogUnlock, InLog
  <2>2. \A y \in Contexts : pc[y] \in InLog => y = x
    BY <2>1 DEF LogLockInv
  <2>3. \A y \in Contexts : pc'[y] \in InLog => y = x
    BY <1>1, <2>2
  <2>4. Len(fb_buf) = Buffered(x) /\ \A i \in 1 .. Len(fb_buf) : fb_buf[i][1] = x
    BY <2>1 DEF BufferInv
  <2>5. SUFFICES /\ pc'[x] = "body" => parts'[x] < BodyParts
                 /\ pc'[x] \in InLog => /\ Len(fb_buf') = Buffered(x)'
                                        /\ \A i \in 1 .. Len(fb_buf') : fb_buf'[i][1] = x
                 /\ pc'[x] \notin InLog => fb_buf' = <<>>
    BY <2>3 DEF BufferInv, InLog
  <2>6. CASE HeadLock(x)
    BY <1>0, <2>4, <2>6 DEF HeadLock, Buffered, InLog
  <2>7. CASE Head1(x)
    BY <1>0, <2>4, <2>7 DEF Head1, Append1, Buffered, InLog
  <2>8. CASE Body(x)
    BY <1>0, <2>4, <2>8 DEF Body, Append1, Buffered, InLog, BufferInv
  <2>9. CASE NewlineLock(x)
    BY <1>0, <2>4, <2>9 DEF NewlineLock, Buffered, InLog
  <2>10. CASE Newline(x)
    BY <1>0, <2>4, <2>10 DEF Newline, Append1, Buffered, InLog
  <2>11. CASE Flush(x)
    BY <1>0, <2>4, <2>11 DEF Flush, Buffered, InLog
  <2>12. CASE LogUnlock(x)
    BY <1>0, <2>4, <2>12 DEF LogUnlock, Buffered, InLog
  <2> QED
    BY <1>4, <2>6, <2>7, <2>8, <2>9, <2>10, <2>11, <2>12 DEF Step
<1> QED
  BY <1>3, <1>4

\* A CPU whose base code is in log has no timer, whichever context steps.
LEMMA StepTimer ==
    ASSUME IInv, NEW x \in Contexts, Step(x)
    PROVE  TimerInv'
<1> SUFFICES ASSUME NEW c \in CPUs
             PROVE  /\ pc'[<<c, "irq">>] # "out" => timer[c]
                    /\ timer[c] => todo[c] = 0 /\ pc'[<<c, "base">>] = "out"
  BY StepMoves DEF TimerInv
<1>1. <<c, "base">> \in Contexts /\ <<c, "irq">> \in Contexts
  BY DEF Contexts
<1>2. x # <<c, "base">> => pc'[<<c, "base">>] = pc[<<c, "base">>]
  BY <1>1, StepMoves
<1>3. x # <<c, "irq">> => pc'[<<c, "irq">>] = pc[<<c, "irq">>]
  BY <1>1, StepMoves
<1>4. pc[x] # "out"
  BY StepMoves
<1> QED
  BY <1>1, <1>2, <1>3, <1>4 DEF IInv, TimerInv

\* Every step keeps the invariant.
LEMMA NextIInv == IInv /\ [Next]_vars => IInv'
<1> SUFFICES ASSUME IInv, [Next]_vars PROVE IInv'
  OBVIOUS
<1>1. CASE UNCHANGED vars
  BY <1>1 DEF IInv, TypeOK, LogLockInv, TimerInv, BufferInv, Buffered, vars
<1>2. ASSUME NEW c \in CPUs, CallLog(c) \/ StartTimer(c) \/ Tick(c) PROVE IInv'
  BY <1>2, CpuStepIInv
<1>3. ASSUME NEW x \in Contexts, Step(x) PROVE IInv'
  BY <1>3, StepMoves, StepLogLock, StepBuffer, StepTimer DEF IInv
<1> QED
  BY <1>1, <1>2, <1>3 DEF Next

\* Every variable keeps its type, whatever the contexts do (the state of
\* logging.c and stdio.c).
THEOREM TypeCorrect == Spec => []TypeOK
<1>1. IInv => TypeOK
  BY DEF IInv
<1> QED
  BY <1>1, InitIInv, NextIInv, PTL DEF Spec

\* The spin lock of log excludes: two contexts, of two CPUs or of one, are
\* never both between atomic_flag_test_and_set and atomic_flag_clear in log.
THEOREM LogExcludes == Spec => []LogLockInv
<1>1. IInv => LogLockInv
  BY DEF IInv
<1> QED
  BY <1>1, InitIInv, NextIInv, PTL DEF Spec

\* What a newline flushes is the line of one log call, with any number of CPUs
\* and of pieces, though vprintf runs without the lock of stdio.c.
THEOREM LinesNeverMix == Spec => []LinesIntact
<1>1. IInv => LinesIntact
  <2> SUFFICES ASSUME IInv PROVE LinesIntact
    OBVIOUS
  <2>0. BodyParts \in Nat /\ parts \in [Contexts -> Nat]
    BY ConsoleAssumption DEF IInv, TypeOK
  <2>1. CASE \A x \in Contexts : pc[x] \notin InLog
    BY <2>0, <2>1 DEF IInv, BufferInv, LinesIntact
  <2>2. CASE \E x \in Contexts : pc[x] \in InLog
    <3>1. PICK x \in Contexts : pc[x] \in InLog
      BY <2>2
    <3>2. Buffered(x) <= BodyParts + 2
      BY <2>0 DEF IInv, BufferInv, Buffered
    <3> QED
      BY <3>1, <3>2 DEF IInv, BufferInv, LinesIntact
  <2> QED
    BY <2>1, <2>2
<1> QED
  BY <1>1, InitIInv, NextIInv, PTL DEF Spec

\* No periodic interrupt spins on a lock the code it interrupted holds: the
\* timer of an AP starts after its last log call (ap_kernel).
THEOREM HandlerNeverSpinsOnOwn == Spec => []NoSelfDeadlock
<1>1. IInv => NoSelfDeadlock
  BY DEF IInv, TimerInv, NoSelfDeadlock, InLog
<1> QED
  BY <1>1, InitIInv, NextIInv, PTL DEF Spec

=============================================================================
