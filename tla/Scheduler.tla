----------------------------- MODULE Scheduler -----------------------------
(***************************************************************************)
(* The thread scheduler (scheduler/scheduler.c, scheduler/thread.c, the    *)
(* periodic handler of cpu/lapic.c and syscall_handler of cpu/isr.c).      *)
(*                                                                         *)
(* k holds the scheduler's data: the fields of cpu_data_t as functions of  *)
(* the CPU, those of thread_t as functions of the thread.  Both lists of a *)
(* CPU are linked through thread->next, which is kept as a pointer.  A     *)
(* tick can interrupt a thread anywhere, the system calls included: their  *)
(* gate is a trap gate (kernel.c), which leaves interrupts enabled.        *)
(*                                                                         *)
(* DebugReturn is the return statement on line 20 of scheduler.c, in force *)
(* at this commit, which makes schedule pick the idle thread always; FALSE *)
(* gives the algorithm behind it.                                          *)
(***************************************************************************)
EXTENDS Integers, FiniteSets

CONSTANTS Threads,      \* the threads create_thread makes (idle excluded)
          NumCpus,      \* KSMP.num_cpus
          NULL,         \* no thread
          IDLE,         \* KSMP.idle
          BOOT,         \* the context of init_kernel and of ap_kernel
          Quantum,      \* SCHEDULER_THREAD_TICKS
          Sleeps,       \* arguments of thread_sleep
          MaxTicks,     \* bound: ticks are counted up to here, see CountTick
          MaxCount,     \* bound: num_threads is counted up to here
          DebugReturn   \* the return on line 20 is compiled in

CPUs == 0 .. NumCpus - 1

ASSUME SchedulerAssumption ==
    /\ IsFiniteSet(Threads) /\ NumCpus \in Nat \ {0}
    /\ {NULL, IDLE, BOOT} \cap Threads = {} /\ Cardinality({NULL, IDLE, BOOT}) = 3
    /\ Quantum \in Nat /\ MaxTicks \in Nat /\ Sleeps \subseteq Nat /\ MaxCount \in Nat
    /\ DebugReturn \in BOOLEAN

VARIABLES k,          \* scheduler data
          running,    \* the context each CPU executes
          at,         \* how far each thread is: user code; the sleep system
                      \* call, before ("sleep"), between ("syscall") and
                      \* after ("leave") its assignments; the yield after it;
                      \* the exit system call before ("exit") and after
                      \* ("exited") its assignment
          arg,        \* rdi of a thread inside the sleep system call
          timer,      \* the periodic timer of a CPU has been started
          torn,       \* threads switched away from inside a system call: the
                      \* next entry from user mode reuses the kernel stack
                      \* their frames are on
          wild        \* a torn context has been resumed; nothing is known of
                      \* the machine after that

vars == <<k, running, at, arg, timer, torn, wild>>

-----------------------------------------------------------------------------
(* Lists *)

\* The j-th thread of the list that starts at head, NULL past its end.
Nth(s, head) ==
    LET walk[j \in 0 .. Cardinality(Threads)] ==
            IF j = 0 THEN head
            ELSE LET t == walk[j - 1] IN IF t = NULL THEN NULL ELSE s.next[t]
    IN walk

InList(s, head, t) ==
    \E j \in 0 .. Cardinality(Threads) : Nth(s, head)[j] = t

\* The threads of the list that starts at head.
Listed(s, head) == {t \in Threads : InList(s, head, t)}

\* The thread whose next is t, NULL for the first one.
PrevOf(s, head, t) ==
    IF head = t THEN NULL
    ELSE CHOOSE p \in Listed(s, head) : s.next[p] = t

\* scheduler_remove_thread(&KCPUS[c].threads, t): a thread that is not in the
\* list only causes a warning.
scheduler_remove_thread(s, c, t) ==
    LET prev == PrevOf(s, s.threads[c], t) IN
    IF ~ InList(s, s.threads[c], t) THEN s
    ELSE IF prev = NULL THEN [s EXCEPT !.threads[c] = s.next[t]]
    ELSE [s EXCEPT !.next[prev] = s.next[t]]

\* The first CPU with the fewest threads; num_threads counts every thread ever
\* added, again when it is woken.  With one CPU nothing depends on it.
LeastLoaded(s) ==
    CHOOSE c \in CPUs :
        /\ \A d \in CPUs : s.num_threads[c] <= s.num_threads[d]
        /\ \A d \in 0 .. c - 1 : s.num_threads[c] < s.num_threads[d]

scheduler_add_thread(s, t) ==
    LET c == LeastLoaded(s)
    IN [s EXCEPT !.num_threads[c] = IF @ < MaxCount THEN @ + 1 ELSE @,
                 !.next[t] = s.threads[c],
                 !.threads[c] = t]

\* Mutant of scheduler_next_thread: always the first thread.
NextIsFirst(s, c, t) == s.threads[c]

\* The thread after t, or the first of the CPU's list.
scheduler_next_thread(s, c, t) ==
    IF s.threads[c] = NULL \/ t = NULL THEN s.threads[c]
    ELSE IF s.next[t] = NULL THEN s.threads[c] ELSE s.next[t]

-----------------------------------------------------------------------------
(* schedule *)

Stopped(s, t) == s.status[t] \in {"SLEEP", "DEAD"}

\* The first sleeper of the CPU is due only later.
WakeupAhead(s, c) ==
    s.wakeups[c] # NULL /\ s.wakeup_time[s.wakeups[c]] > s.ticks[c]

\* Lines 25 to 28: the current thread keeps the CPU.
KeepsCpu(s, c) ==
    /\ WakeupAhead(s, c)
    /\ s.slice[s.cur[c]] < Quantum
    /\ ~ Stopped(s, s.cur[c])

\* cur->ticks++ is evaluated only after the test for a future wakeup.
CountSlice(s, c) ==
    IF WakeupAhead(s, c) THEN [s EXCEPT !.slice[s.cur[c]] = @ + 1] ELSE s

\* Mutant of PutToSleep: t stays in the ready list.
SleepInReadyList(s, c, t) ==
    [s EXCEPT !.cur[c] = NULL, !.wakeups[c] = t, !.next[t] = s.wakeups[c]]

\* The sleepers from the first one on that are due before t.
Earlier(s, c, t) ==
    LET sleepers == Listed(s, s.wakeups[c])
    IN {u \in sleepers : \A v \in sleepers :
            (v = u \/ InList(s, s.next[v], u)) => s.wakeup_time[v] < s.wakeup_time[t]}

\* t enters the wakeups behind them.
InsertBehind(s, c, t, earlier) ==
    LET prev == CHOOSE u \in earlier : s.next[u] \notin earlier
    IN IF earlier = {}
       THEN [s EXCEPT !.wakeups[c] = t, !.next[t] = s.wakeups[c]]
       ELSE [s EXCEPT !.next = [@ EXCEPT ![prev] = t, ![t] = s.next[prev]]]

\* Lines 39 to 52: t leaves the ready list and enters the wakeups.
PutToSleep(s0, c, t) ==
    CHOOSE r \in {InsertBehind(s, c, t, Earlier(s, c, t)) :
                    s \in {scheduler_remove_thread([s0 EXCEPT !.cur[c] = NULL], c, t)}} : TRUE

\* Mutants of GiveUpCpu: a dead thread stays the current one; a dead thread
\* stays in the ready list.
DeadStaysCurrent(s, c) ==
    LET t == s.cur[c] IN
    IF s.status[t] = "DEAD" THEN scheduler_remove_thread(s, c, t)
    ELSE IF s.status[t] = "SLEEP" THEN PutToSleep(s, c, t)
    ELSE [s EXCEPT !.status[t] = "READY"]

DeadStaysReady(s, c) ==
    LET t == s.cur[c] IN
    IF s.status[t] = "DEAD" THEN [s EXCEPT !.cur[c] = NULL]
    ELSE IF s.status[t] = "SLEEP" THEN PutToSleep(s, c, t)
    ELSE [s EXCEPT !.status[t] = "READY"]

\* Lines 30 to 53: the current thread gives the CPU up.
GiveUpCpu(s, c) ==
    LET t == s.cur[c] IN
    IF s.status[t] = "DEAD"
    THEN [scheduler_remove_thread(s, c, t) EXCEPT !.cur[c] = NULL]
    ELSE IF s.status[t] = "SLEEP" THEN PutToSleep(s, c, t)
    ELSE [s EXCEPT !.status[t] = "READY"]

\* ready_thread(t, true).  For the idle thread nothing the scheduler reads
\* changes: cur is left alone.
ready_thread(s, c, t) ==
    [s EXCEPT !.cur[c] = t, !.status[t] = "READY", !.slice[t] = 0]

\* Mutants of Dispatch: the first sleeper is woken before it is due; sleepers are
\* never woken.
WakesEarly(s, c) ==
    LET w == s.wakeups[c]
        t == scheduler_next_thread(s, c, s.cur[c]) IN
    IF w # NULL
    THEN [k |-> ready_thread(
                   [scheduler_add_thread(s, w) EXCEPT !.wakeups[c] = s.next[w]],
                   c, w),
          run |-> w]
    ELSE IF t # NULL THEN [k |-> ready_thread(s, c, t), run |-> t]
    ELSE [k |-> s, run |-> IDLE]

NeverWakes(s, c) ==
    LET t == scheduler_next_thread(s, c, s.cur[c]) IN
    IF t # NULL THEN [k |-> ready_thread(s, c, t), run |-> t]
    ELSE [k |-> s, run |-> IDLE]

\* Lines 56 to 68: wake the first sleeper if it is due, else take the next
\* ready thread, else idle.
Dispatch(s, c) ==
    LET w == s.wakeups[c]
        t == scheduler_next_thread(s, c, s.cur[c]) IN
    IF w # NULL /\ s.wakeup_time[w] <= s.ticks[c]
    THEN [k |-> ready_thread(
                   [scheduler_add_thread(s, w) EXCEPT !.wakeups[c] = s.next[w]],
                   c, w),
          run |-> w]
    ELSE IF t # NULL THEN [k |-> ready_thread(s, c, t), run |-> t]
    ELSE [k |-> s, run |-> IDLE]

\* schedule on CPU c, entered from the context from with the data s: the data on
\* return and the context to be resumed, as the set of its only outcome.
schedule(s, c, from) ==
    IF DebugReturn \/ (s.threads[c] = NULL /\ s.wakeups[c] = NULL)
    THEN {[k |-> s, run |-> IDLE]}
    ELSE IF s.cur[c] = NULL THEN {Dispatch(s, c)}
    ELSE IF KeepsCpu(s, c) THEN {[k |-> CountSlice(s, c), run |-> from]}
    ELSE {Dispatch(t, c) : t \in {GiveUpCpu(CountSlice(s, c), c)}}

-----------------------------------------------------------------------------
(* The machine *)

Init ==
    /\ k = [threads |-> [c \in CPUs |-> NULL], wakeups |-> [c \in CPUs |-> NULL],
            cur |-> [c \in CPUs |-> NULL], num_threads |-> [c \in CPUs |-> 0],
            ticks |-> [c \in CPUs |-> 0], next |-> [t \in Threads |-> NULL],
            status |-> [t \in Threads |-> "NEW"], slice |-> [t \in Threads |-> 0],
            wakeup_time |-> [t \in Threads |-> 0]]
    /\ running = [c \in CPUs |-> BOOT]
    /\ at = [t \in Threads |-> "user"]
    /\ arg = [t \in Threads |-> 0]
    /\ timer = [c \in CPUs |-> FALSE]
    /\ torn = {}
    /\ wild = FALSE

\* A thread has been passed to scheduler_add_thread.
Added(t) == \E c \in CPUs : t \in Listed(k, k.threads[c])
                               \/ t \in Listed(k, k.wakeups[c])

\* init_kernel: scheduler_add_thread(create_thread(...)).
AddThread(t) ==
    /\ running[0] = BOOT /\ ~ timer[0]
    /\ k.status[t] = "NEW" /\ ~ Added(t)
    /\ k' = scheduler_add_thread(k, t)
    /\ UNCHANGED <<running, at, arg, timer, torn, wild>>

\* init_kernel, ap_kernel: start_apic_timer(APIC_TIMER_PERIODIC, ...).
StartTimer(c) ==
    /\ ~ timer[c]
    /\ timer' = [timer EXCEPT ![c] = TRUE]
    /\ UNCHANGED <<k, running, at, arg, torn, wild>>

\* KCPUS[c].ticks++.  schedule only compares times with each other, so once
\* MaxTicks ticks are counted, the times move down instead; with one CPU that is
\* the same.  A time that falls more than MaxTicks behind stays there.
CountTick(s, c) ==
    IF s.ticks[c] < MaxTicks
    THEN [s EXCEPT !.ticks[c] = @ + 1]
    ELSE [s EXCEPT !.wakeup_time =
             [t \in Threads |-> IF @[t] > 0 THEN @[t] - 1 ELSE 0]]

\* A thread on its kernel stack.
InSyscall(t) == t \in Threads /\ at[t] \in {"sleep", "syscall", "leave", "exit"}

\* apic_periodic_handler on CPU c, entered from the context it executes.  The
\* handler saves and restores the whole context: the program of a thread that
\* is switched away from continues where it was.
apic_periodic_handler(c) ==
    LET from == running[c] IN
    \E entry \in {CountTick(k, c)} : \E r \in schedule(entry, c, from) :
        /\ k' = r.k
        /\ running' = [running EXCEPT ![c] = r.run]
        /\ torn' = IF InSyscall(from) /\ r.run # from THEN torn \cup {from} ELSE torn
        /\ wild' = (r.run # from /\ r.run \in torn)
        /\ UNCHANGED <<arg, timer>>

\* The periodic timer interrupts whatever CPU c does.
Tick(c) ==
    /\ timer[c] /\ ~ wild
    /\ apic_periodic_handler(c)
    /\ UNCHANGED at

\* thread_yield: the thread raises the periodic interrupt itself.
Yield(c) ==
    LET t == running[c] IN
    /\ t \in Threads /\ ~ wild
    /\ at[t] \in {"user", "yield"}
    /\ apic_periodic_handler(c)
    /\ at' = [at EXCEPT ![t] = "user"]

\* The yield of thread_wrapper after the thread function returned.
YieldDead(c) ==
    LET t == running[c] IN
    /\ t \in Threads /\ ~ wild
    /\ at[t] = "exited"
    /\ apic_periodic_handler(c)
    /\ UNCHANGED at

\* A thread in its code at from goes on to to.
Goes(c, from, to) ==
    LET t == running[c] IN
    /\ t \in Threads /\ ~ wild
    /\ at[t] = from /\ at' = [at EXCEPT ![t] = to]
    /\ UNCHANGED <<running, timer, torn, wild>>

\* thread_sleep(ms): the system call is entered.
SleepCall(c, ms) ==
    /\ Goes(c, "user", "sleep")
    /\ arg' = [arg EXCEPT ![running[c]] = ms]
    /\ UNCHANGED k

\* The two assignments of thread_sleep_syscall.
SleepBegin(c) ==
    /\ Goes(c, "sleep", "syscall")
    /\ k' = [k EXCEPT !.status[k.cur[c]] = "SLEEP"]
    /\ UNCHANGED arg

SleepEnd(c) ==
    /\ Goes(c, "syscall", "leave")
    /\ k' = [k EXCEPT !.wakeup_time[k.cur[c]] = k.ticks[c] + arg[running[c]]]
    /\ arg' = [arg EXCEPT ![running[c]] = 0]

\* The return to thread_sleep, which yields.
SleepReturn(c) == Goes(c, "leave", "yield") /\ UNCHANGED <<k, arg>>

\* thread_wrapper: the thread function returns, and thread_dead_syscall is
\* entered and executed.
ExitCall(c) == Goes(c, "user", "exit") /\ UNCHANGED <<k, arg>>

Exit(c) ==
    /\ Goes(c, "exit", "exited")
    /\ k' = [k EXCEPT !.status[k.cur[c]] = "DEAD"]
    /\ UNCHANGED arg

\* What does not wait for the code of a thread.
Kernel(c) == SleepBegin(c) \/ SleepEnd(c) \/ SleepReturn(c) \/ Exit(c) \/ YieldDead(c)

\* Nothing is known of the machine any more.
Wild == wild /\ UNCHANGED vars

Next ==
    \/ \E t \in Threads : AddThread(t)
    \/ \E c \in CPUs : \/ StartTimer(c) \/ Tick(c)
                       \/ Yield(c)
                       \/ \E ms \in Sleeps : SleepCall(c, ms)
                       \/ ExitCall(c) \/ Kernel(c)
    \/ Wild

\* The timer keeps ticking, and kernel code runs to its end; nothing makes a
\* thread leave its own code.
Fairness ==
    \A c \in CPUs : /\ WF_vars(StartTimer(c)) /\ WF_vars(Tick(c))
                    /\ WF_vars(Kernel(c))

Spec == Init /\ [][Next]_vars /\ Fairness

-----------------------------------------------------------------------------
(* Properties *)

\* Unlinking and relinking through the one next pointer of a thread never
\* loses or shares one: a CPU's two lists end, have no thread in common, and
\* every thread that was added and has not been taken off as dead is on one.
ListsIntact ==
    /\ \A c \in CPUs :
           LET ready == Listed(k, k.threads[c])
               asleep == Listed(k, k.wakeups[c])
           IN /\ Nth(k, k.threads[c])[Cardinality(Threads)] = NULL
              /\ Nth(k, k.wakeups[c])[Cardinality(Threads)] = NULL
              /\ ready \cap asleep = {}
              /\ k.cur[c] # NULL => k.cur[c] \in ready
    /\ \A t \in Threads : k.status[t] \in {"READY", "SLEEP"} => Added(t)

\* The thread schedule saves the interrupted context into, cur, is the one
\* whose context was interrupted, never idle's or another thread's.
ContextSavedToOwner ==
    \A c \in CPUs : k.cur[c] # NULL => running[c] = k.cur[c]

\* A dead thread is not chosen again once it has been taken off the CPU.
DeadStayDead ==
    [][\A t \in Threads, c \in CPUs :
          at[t] = "exited" /\ running[c] # t => running'[c] # t]_vars

\* A thread that went to sleep with its wakeup time stored is not given the
\* CPU before that time.
NoEarlyWake ==
    [][\A t \in Threads, c \in CPUs :
          /\ k.status[t] = "SLEEP" /\ at[t] # "syscall"
          /\ running'[c] = t /\ k'.status[t] # "SLEEP"
          => k'.ticks[c] >= k'.wakeup_time[t]]_vars

\* Every thread that sleeps gets the CPU back.
SleepersRun ==
    \A t \in Threads :
        (k.status[t] = "SLEEP")
            ~> (wild \/ \E c \in CPUs : running[c] = t /\ k.status[t] = "READY")

\* A thread that is ready gets the CPU, unless others go to sleep for ever and
\* ever: only they, woken to the front of the list, keep it from its turn.
ReadyThreadsRun ==
    \A t \in Threads :
        \/ (k.status[t] \in {"NEW", "READY"} /\ Added(t))
               ~> (wild \/ \E c \in CPUs : running[c] = t)
        \/ []<>(\E u \in Threads \ {t} : k.status[u] = "SLEEP")
=============================================================================
