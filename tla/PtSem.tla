-------------------------------- MODULE PtSem --------------------------------
(***************************************************************************)
(* The counting semaphore of test/utils/src/pt_semaphoer.c, in the variant *)
(* the header selects (PT_USE_MY_SEM): a counter, a mutex and a condition  *)
(* variable, used by several threads.                                      *)
(*                                                                         *)
(* What happens between lock and unlock is one action, enabled while the   *)
(* mutex is free.  The one exception is a timed wait whose deadline is     *)
(* not a valid time: pthread_cond_timedwait then returns EINVAL without    *)
(* giving up the mutex, and the loop around it calls it again.             *)
(***************************************************************************)
EXTENDS Integers, FiniteSets

CONSTANTS Threads,
          WaitMs,        \* arguments of pt_sem_wait_time
          ClockUsec,     \* microseconds of the clock when it is called
          MaxPosts,      \* bound: calls of pt_sem_signal and pt_sem_broadcast
          Nobody         \* no thread

ASSUME PtSemAssumption ==
    /\ IsFiniteSet(Threads)
    /\ Nobody \notin Threads
    /\ WaitMs \subseteq Nat
    /\ ClockUsec \subseteq 0 .. 10^6 - 1
    /\ MaxPosts \in Nat

VARIABLES
    num,        \* sem->num
    holder,     \* the thread that keeps the mutex across calls of the library
    thread,     \* per thread, where it is
    posts,      \* history: calls of signal and broadcast
    served,     \* history: timed waits that returned 0
    misspent    \* history: posts whose wake-up went to pt_sem_wait

vars == <<num, holder, thread, posts, served, misspent>>

Idle == [pc |-> "idle"]

\* Asleep in pthread_cond_wait, or on the way back from it to the mutex
Waiting == [pc : {"wait_asleep", "wait_woken"}]

\* The same in pt_sem_wait_time: late when the deadline has passed, ret what
\* pthread_cond_timedwait returned last.
TimedWaiting ==
    [pc : {"timed_asleep", "timed_woken"}, late : BOOLEAN, ret : {"0", "ETIMEDOUT"}]

Spinning == [pc |-> "spin"]

TypeOk ==
    /\ num \in 0 .. MaxPosts
    /\ holder \in Threads \union {Nobody}
    /\ thread \in [Threads -> {Idle, Spinning} \union Waiting \union TimedWaiting]
    /\ posts \in 0 .. MaxPosts /\ served \in 0 .. MaxPosts /\ misspent \in 0 .. MaxPosts

At(t, pc) == thread[t].pc = pc
In(pc) == {t \in Threads : At(t, pc)}
Asleep == In("wait_asleep") \union In("timed_asleep")

Init ==
    /\ num = 0
    /\ holder = Nobody
    /\ thread = [t \in Threads |-> Idle]
    /\ posts = 0 /\ served = 0 /\ misspent = 0

-----------------------------------------------------------------------------
\* External: pthread_cond_signal and pthread_cond_broadcast.  The threads in
\* woken leave the condition variable and go for the mutex.
Awake(woken) ==
    [t \in Threads |->
        IF t \notin woken THEN thread[t]
        ELSE IF At(t, "wait_asleep") THEN [pc |-> "wait_woken"]
        ELSE [pc |-> "timed_woken", late |-> thread[t].late, ret |-> "0"]]

Post(t, woken) ==
    /\ At(t, "idle") /\ holder = Nobody
    /\ posts < MaxPosts
    /\ num' = num + 1
    /\ posts' = posts + 1
    /\ thread' = Awake(woken)
    /\ misspent' = IF woken # {} /\ woken \subseteq In("wait_asleep")
                   THEN misspent + 1 ELSE misspent
    /\ UNCHANGED <<holder, served>>

\* Mutated form of Signal: the counter is raised and nobody is told.
SignalSilent(t) == Post(t, {})

\* pt_sem_signal wakes one sleeper, if there is one; which one is not promised.
Signal(t) ==
    \/ Asleep = {} /\ Post(t, {})
    \/ \E s \in Asleep : Post(t, {s})

Broadcast(t) == Post(t, Asleep)

\* pt_sem_wait takes a post if there is one, and then sleeps in any case.
Wait(t) ==
    /\ At(t, "idle") /\ holder = Nobody
    /\ num' = IF num > 0 THEN num - 1 ELSE num
    /\ thread' = [thread EXCEPT ![t] = [pc |-> "wait_asleep"]]
    /\ UNCHANGED <<holder, posts, served, misspent>>

\* It returns on the first wake-up, whatever the counter says.
WaitReturns(t) ==
    /\ At(t, "wait_woken") /\ holder = Nobody
    /\ thread' = [thread EXCEPT ![t] = Idle]
    /\ UNCHANGED <<num, holder, posts, served, misspent>>

-----------------------------------------------------------------------------
(* pt_sem_wait_time *)

\* timedout.tv_nsec in units of 8 ns.  The factor is 10^7 where milliseconds
\* need 10^6, and the product wraps at 2^32 before the clock is added.
Nsec8(time_ms, usec) == (((time_ms % 1000) * 1250000) % 2^29) + usec * 125

ValidDeadline(time_ms, usec) == Nsec8(time_ms, usec) < 125000000

TimedWait(t) ==
    /\ At(t, "idle") /\ holder = Nobody
    /\ \/ /\ num > 0
          /\ num' = num - 1
          /\ served' = served + 1
          /\ UNCHANGED <<thread, holder>>
       \/ /\ num = 0
          /\ \E time_ms \in WaitMs, usec \in ClockUsec :
                IF ValidDeadline(time_ms, usec)
                THEN /\ thread' = [thread EXCEPT ![t] =
                                     [pc |-> "timed_asleep", late |-> FALSE, ret |-> "0"]]
                     /\ UNCHANGED holder
                ELSE /\ thread' = [thread EXCEPT ![t] = Spinning]
                     /\ holder' = t
          /\ UNCHANGED <<num, served>>
    /\ UNCHANGED <<posts, misspent>>

\* EINVAL, again and again: the counter cannot change while the mutex is held.
Spin(t) == At(t, "spin") /\ UNCHANGED vars

\* Time passes.
Expire(t) ==
    /\ thread[t].pc \in {"timed_asleep", "timed_woken"}
    /\ ~thread[t].late
    /\ thread' = [thread EXCEPT ![t].late = TRUE]
    /\ UNCHANGED <<num, holder, posts, served, misspent>>

\* External: pthread_cond_timedwait gives up, or wakes without a reason.
TimeOut(t) ==
    /\ At(t, "timed_asleep") /\ thread[t].late
    /\ thread' = [thread EXCEPT ![t] =
                    [pc |-> "timed_woken", late |-> TRUE, ret |-> "ETIMEDOUT"]]
    /\ UNCHANGED <<num, holder, posts, served, misspent>>

Spurious(t) ==
    /\ At(t, "wait_asleep") \/ (At(t, "timed_asleep") /\ ~thread[t].late)
    /\ thread' = Awake({t})
    /\ UNCHANGED <<num, holder, posts, served, misspent>>

\* Mutated forms of TimedReturns: the loop goes on after ETIMEDOUT, and the
\* counter is not looked at again after a wake-up.
TimedReturnsRetries(t) ==
    /\ At(t, "timed_woken") /\ holder = Nobody
    /\ \/ /\ num > 0
          /\ num' = num - 1
          /\ served' = IF thread[t].ret = "0" THEN served + 1 ELSE served
          /\ thread' = [thread EXCEPT ![t] = Idle]
       \/ /\ num = 0
          /\ thread' = [thread EXCEPT ![t].pc = "timed_asleep"]
          /\ UNCHANGED <<num, served>>
    /\ UNCHANGED <<holder, posts, misspent>>
TimedReturnsUnchecked(t) ==
    /\ At(t, "timed_woken") /\ holder = Nobody
    /\ num' = IF num > 0 THEN num - 1 ELSE num
    /\ served' = IF thread[t].ret = "0" THEN served + 1 ELSE served
    /\ thread' = [thread EXCEPT ![t] = Idle]
    /\ UNCHANGED <<holder, posts, misspent>>

\* The loop goes on while there is no post and the time has not run out.  A post
\* that comes with the time-out is taken, and the call returns ETIMEDOUT.
TimedReturns(t) ==
    /\ At(t, "timed_woken") /\ holder = Nobody
    /\ \/ /\ num > 0
          /\ num' = num - 1
          /\ served' = IF thread[t].ret = "0" THEN served + 1 ELSE served
          /\ thread' = [thread EXCEPT ![t] = Idle]
       \/ /\ num = 0
          /\ thread' = [thread EXCEPT ![t] = IF @.ret = "0"
                                             THEN [@ EXCEPT !.pc = "timed_asleep"]
                                             ELSE Idle]
          /\ UNCHANGED <<num, served>>
    /\ UNCHANGED <<holder, posts, misspent>>

-----------------------------------------------------------------------------
Next ==
    \E t \in Threads :
        \/ Signal(t) \/ Broadcast(t)
        \/ Wait(t) \/ WaitReturns(t)
        \/ TimedWait(t) \/ Spin(t) \/ Expire(t) \/ TimeOut(t) \/ TimedReturns(t)
        \/ Spurious(t)

\* Time passes, and a thread that is awake gets the mutex when nobody keeps it.
\* Nobody is obliged to post or to call anything.
Fairness ==
    \A t \in Threads :
        /\ WF_vars(Expire(t)) /\ WF_vars(TimeOut(t))
        /\ WF_vars(TimedReturns(t)) /\ WF_vars(WaitReturns(t))

Spec == Init /\ [][Next]_vars

FairSpec == Spec /\ Fairness

-----------------------------------------------------------------------------
(* Properties *)

\* Every timed wait that returns 0 has a post of its own, and no post is counted
\* twice, however many threads wait, time out, wake for no reason or take a post
\* before the thread it woke gets the mutex: the loop at pt_semaphoer.c:91 looks
\* at the counter again after every wake-up.
PostsServeOnce == num + served <= posts

\* No timed wait sleeps on while a post is there for it: as long as one sleeps,
\* every post not yet taken has a thread on its way to take it
\* (pt_semaphoer.c:52-53 raise the counter and wake under the same lock).  The
\* only posts that can lie there are those whose wake-up went to pt_sem_wait,
\* which takes none when it wakes (:69).
NoStrandedPost ==
    In("timed_asleep") # {} =>
        num <= Cardinality(In("timed_woken")) + misspent

\* A timed wait comes to an end, with or without a post (pt_semaphoer.c:91),
\* unless some thread has an invalid deadline: that one spins with the mutex
\* held, and nobody gets out of this semaphore again.
TimedWaitReturns ==
    \A t \in Threads :
        thread[t].pc \in {"timed_asleep", "timed_woken"} ~> (At(t, "idle") \/ holder # Nobody)
=============================================================================
