------------------------------ MODULE Console ------------------------------
(***************************************************************************)
(* log (kernel/logging.c) and the buffered printf beneath it (io/stdio.c)  *)
(* on several CPUs.  log holds its own spin lock for the whole call; the   *)
(* two printf calls inside it take the lock of stdio.c, the vprintf that   *)
(* formats the message between them does not.  All of them fill the one    *)
(* buffer fb_buf, which a newline flushes to the screen.                   *)
(*                                                                         *)
(* Every CPU has two contexts: the code it was executing ("base") and an   *)
(* interrupt handler on top of it ("irq"), entered through interrupt gates *)
(* and so never nested.  The base code is the boot code of the CPU: the    *)
(* BSP logs its own messages, an AP those of init_lapic_ap and init_tss,   *)
(* and then starts its periodic timer, whose handler logs on every tick.   *)
(***************************************************************************)
EXTENDS Integers, Sequences

CONSTANTS APs,        \* the application processors
          BSP,        \* the boot processor
          BodyParts,  \* how many pieces vprintf appends for a message
          BootLogs    \* log calls the base code of a CPU makes

ASSUME ConsoleAssumption ==
    /\ BSP \notin APs
    /\ BodyParts \in Nat \ {0} /\ BootLogs \in Nat

CPUs == APs \cup {BSP}
Contexts == CPUs \X {"base", "irq"}

VARIABLES log_mutex,   \* atomic_flag of logging.c
          mutex,       \* atomic_flag of stdio.c
          fb_buf,      \* the pieces buffered so far, each with its writer
          pc,          \* where each context is in log
          parts,       \* pieces of its message a context has appended
          todo,        \* log calls the base code still has to make
          timer        \* the periodic timer of the CPU runs

vars == <<log_mutex, mutex, fb_buf, pc, parts, todo, timer>>

Init ==
    /\ log_mutex = FALSE /\ mutex = FALSE
    /\ fb_buf = <<>>
    /\ pc = [x \in Contexts |-> "out"]
    /\ parts = [x \in Contexts |-> 0]
    /\ todo = [c \in CPUs |-> BootLogs]
    /\ timer = [c \in CPUs |-> FALSE]

\* A context executes: a handler on top of the base code suspends it.
Runs(x) == x[2] = "irq" \/ pc[<<x[1], "irq">>] = "out"

Goto(x, from, to) ==
    /\ Runs(x) /\ pc[x] = from
    /\ pc' = [pc EXCEPT ![x] = to]

Append1(x, piece) == fb_buf' = Append(fb_buf, <<x, piece>>)

\* The base code calls log.
CallLog(c) ==
    /\ todo[c] > 0
    /\ Goto(<<c, "base">>, "out", "log_lock")
    /\ todo' = [todo EXCEPT ![c] = @ - 1]
    /\ UNCHANGED <<log_mutex, mutex, fb_buf, parts, timer>>

\* Mutant of StartTimer: ap_kernel starts the timer before it logs.
StartTimerFirst(c) ==
    /\ c \in APs /\ ~ timer[c]
    /\ timer' = [timer EXCEPT ![c] = TRUE]
    /\ UNCHANGED <<log_mutex, mutex, fb_buf, pc, parts, todo>>

\* ap_kernel starts the periodic timer after its last message; the BSP never
\* starts one (the call in init_kernel is commented out).
StartTimer(c) ==
    /\ c \in APs /\ ~ timer[c]
    /\ todo[c] = 0 /\ pc[<<c, "base">>] = "out"
    /\ timer' = [timer EXCEPT ![c] = TRUE]
    /\ UNCHANGED <<log_mutex, mutex, fb_buf, pc, parts, todo>>

\* apic_periodic_handler: schedule logs before it does anything else.
Tick(c) ==
    /\ timer[c]
    /\ Goto(<<c, "irq">>, "out", "log_lock")
    /\ UNCHANGED <<log_mutex, mutex, fb_buf, parts, todo, timer>>

\* Mutant of LogLock: the flag is set without being tested.
LogLockUntested(x) ==
    /\ Goto(x, "log_lock", "head_lock")
    /\ log_mutex' = TRUE
    /\ UNCHANGED <<mutex, fb_buf, parts, todo, timer>>

\* while (atomic_flag_test_and_set(&mutex)) in log.
LogLock(x) ==
    /\ Goto(x, "log_lock", "head_lock")
    /\ ~ log_mutex /\ log_mutex' = TRUE
    /\ UNCHANGED <<mutex, fb_buf, parts, todo, timer>>

\* printf("[%u][%s] %s: ", ...): take the lock of stdio.c ...
HeadLock(x) ==
    /\ Goto(x, "head_lock", "head")
    /\ ~ mutex /\ mutex' = TRUE
    /\ UNCHANGED <<log_mutex, fb_buf, parts, todo, timer>>

\* ... buffer the head of the line, release it.
Head1(x) ==
    /\ Goto(x, "head", "body")
    /\ Append1(x, "head")
    /\ mutex' = FALSE
    /\ parts' = [parts EXCEPT ![x] = 0]
    /\ UNCHANGED <<log_mutex, todo, timer>>

\* Mutant of Body: vprintf does not get past a piece of the format.
BodyStuck(x) == Goto(x, "body", "body") /\ UNCHANGED vars

\* vprintf(format, args), one piece at a time and without the lock.
Body(x) ==
    /\ Goto(x, "body", IF parts[x] + 1 = BodyParts THEN "nl_lock" ELSE "body")
    /\ Append1(x, "body")
    /\ parts' = [parts EXCEPT ![x] = @ + 1]
    /\ UNCHANGED <<log_mutex, mutex, todo, timer>>

\* printf("\n"): take the lock of stdio.c ...
NewlineLock(x) ==
    /\ Goto(x, "nl_lock", "nl")
    /\ ~ mutex /\ mutex' = TRUE
    /\ UNCHANGED <<log_mutex, fb_buf, parts, todo, timer>>

\* ... buffer the newline ...
Newline(x) ==
    /\ Goto(x, "nl", "flush")
    /\ Append1(x, "newline")
    /\ UNCHANGED <<log_mutex, mutex, parts, todo, timer>>

\* ... flush_screen, release the lock.
Flush(x) ==
    /\ Goto(x, "flush", "log_unlock")
    /\ fb_buf' = <<>>
    /\ mutex' = FALSE
    /\ UNCHANGED <<log_mutex, parts, todo, timer>>

\* atomic_flag_clear(&mutex) at the end of log.
LogUnlock(x) ==
    /\ Goto(x, "log_unlock", "out")
    /\ log_mutex' = FALSE
    /\ UNCHANGED <<mutex, fb_buf, parts, todo, timer>>

Step(x) ==
    \/ LogLock(x) \/ HeadLock(x) \/ Head1(x) \/ Body(x)
    \/ NewlineLock(x) \/ Newline(x) \/ Flush(x) \/ LogUnlock(x)

Next ==
    \/ \E c \in CPUs : CallLog(c) \/ StartTimer(c) \/ Tick(c)
    \/ \E x \in Contexts : Step(x)

\* A context that executes goes on executing; no spinning context is promised
\* a lock that others keep taking.
Fairness == \A x \in Contexts : WF_vars(Step(x))

Spec == Init /\ [][Next]_vars /\ Fairness

-----------------------------------------------------------------------------
(* Properties *)

InLog == {"head_lock", "head", "body", "nl_lock", "nl", "flush", "log_unlock"}
InPrintf == {"head", "nl", "flush"}

\* fb_buf never holds more than one line, nor pieces of two messages, although
\* the message itself is formatted without the lock of stdio.c: what a newline
\* flushes is the line of one log call.
LinesIntact ==
    /\ Len(fb_buf) <= BodyParts + 2
    /\ \A i, j \in 1 .. Len(fb_buf) : fb_buf[i][1] = fb_buf[j][1]

\* No handler spins on a lock that the code it interrupted holds, which would
\* never let go of it.
NoSelfDeadlock ==
    \A c \in CPUs :
        pc[<<c, "irq">>] # "out" => pc[<<c, "base">>] \notin InLog

\* A taken log lock is always released again.
LogLockReleased == log_mutex ~> ~ log_mutex
=============================================================================
