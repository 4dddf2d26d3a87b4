----------------------------- MODULE PtSemProofs -----------------------------
(***************************************************************************)
(* Theorems about PtSem for every finite set of threads, any deadlines and *)
(* any number of posts, checked by TLAPS.                                  *)
(***************************************************************************)
EXTENDS PtSem, FiniteSetTheorems, TLAPS

ThreadState == {Idle, Spinning} \union Waiting \union TimedWaiting

\* The invariant of the counters
Counted == TypeOk /\ PostsServeOnce /\ misspent <= posts

-----------------------------------------------------------------------------
(* The constants and the records of threads *)

LEMMA ConstantFacts == IsFiniteSet(Threads) /\ Nobody \notin Threads /\ MaxPosts \in Nat
BY PtSemAssumption

LEMMA RecordFacts ==
    /\ \A r \in TimedWaiting :
          /\ [pc |-> "timed_woken", late |-> r.late, ret |-> "0"] \in TimedWaiting
          /\ \A pc \in {"timed_asleep", "timed_woken"} : [r EXCEPT !.pc = pc] \in TimedWaiting
          /\ [r EXCEPT !.late = TRUE] \in TimedWaiting
    /\ [pc |-> "wait_asleep"] \in Waiting /\ [pc |-> "wait_woken"] \in Waiting
    /\ [pc |-> "timed_asleep", late |-> FALSE, ret |-> "0"] \in TimedWaiting
    /\ [pc |-> "timed_woken", late |-> TRUE, ret |-> "ETIMEDOUT"] \in TimedWaiting
BY DEF TimedWaiting, Waiting

LEMMA ThreadFacts ==
    ASSUME TypeOk, NEW t \in Threads, thread[t].pc \in {"timed_asleep", "timed_woken"}
    PROVE  thread[t] \in TimedWaiting
BY DEF TypeOk, Idle, Spinning, Waiting

\* Threads that are awakened are threads still.
LEMMA AwakeType ==
    ASSUME TypeOk, NEW woken \in SUBSET Asleep
    PROVE  Awake(woken) \in [Threads -> ThreadState]
<1> SUFFICES ASSUME NEW t \in Threads PROVE Awake(woken)[t] \in ThreadState
  BY DEF Awake
<1>1. CASE t \notin woken
  BY <1>1 DEF Awake, TypeOk, ThreadState
<1>2. CASE t \in woken /\ At(t, "wait_asleep")
  BY <1>2, RecordFacts DEF Awake, ThreadState
<1>3. CASE t \in woken /\ ~At(t, "wait_asleep")
  <2>1. At(t, "timed_asleep")
    BY <1>3 DEF Asleep, In
  <2>2. thread[t] \in TimedWaiting
    BY <2>1, ThreadFacts DEF At
  <2> QED
    BY <1>3, <2>2, RecordFacts DEF Awake, ThreadState
<1> QED
  BY <1>1, <1>2, <1>3

-----------------------------------------------------------------------------
(* Counters *)

LEMMA PostCounted ==
    ASSUME Counted, NEW t \in Threads, NEW woken \in SUBSET Asleep, Post(t, woken)
    PROVE  Counted'
<1>1. thread' \in [Threads -> ThreadState]
  BY AwakeType DEF Post, Counted
<1> QED
  BY <1>1, ConstantFacts DEF Post, Counted, TypeOk, PostsServeOnce, ThreadState

LEMMA CountedNext == Counted /\ [Next]_vars => Counted'
<1> SUFFICES ASSUME Counted, [Next]_vars PROVE Counted'
  OBVIOUS
<1> USE ConstantFacts
<1>1. CASE UNCHANGED vars
  BY <1>1 DEF vars, Counted, TypeOk, PostsServeOnce
<1>2. ASSUME NEW t \in Threads, Signal(t) PROVE Counted'
  <2>1. CASE Post(t, {})
    BY <2>1, PostCounted
  <2>2. ASSUME NEW s \in Asleep, Post(t, {s}) PROVE Counted'
    BY <2>2, PostCounted
  <2> QED
    BY <1>2, <2>1, <2>2 DEF Signal
<1>3. ASSUME NEW t \in Threads, Broadcast(t) PROVE Counted'
  BY <1>3, PostCounted DEF Broadcast
<1>4. ASSUME NEW t \in Threads, Wait(t) PROVE Counted'
  BY <1>4, RecordFacts DEF Wait, Counted, TypeOk, PostsServeOnce
<1>5. ASSUME NEW t \in Threads, WaitReturns(t) PROVE Counted'
  BY <1>5 DEF WaitReturns, Counted, TypeOk, PostsServeOnce
<1>6. ASSUME NEW t \in Threads, TimedWait(t) PROVE Counted'
  <2>1. thread' \in [Threads -> ThreadState] /\ holder' \in Threads \union {Nobody}
    BY <1>6, RecordFacts DEF TimedWait, Counted, TypeOk, ThreadState
  <2>2. /\ num' \in 0 .. MaxPosts /\ served' \in 0 .. MaxPosts
        /\ num' + served' <= posts
    BY <1>6 DEF TimedWait, Counted, TypeOk, PostsServeOnce
  <2> QED
    BY <1>6, <2>1, <2>2 DEF TimedWait, Counted, TypeOk, PostsServeOnce, ThreadState
<1>7. ASSUME NEW t \in Threads, Spin(t) PROVE Counted'
  BY <1>7 DEF Spin, vars, Counted, TypeOk, PostsServeOnce
<1>8. ASSUME NEW t \in Threads, Expire(t) PROVE Counted'
  <2>1. [thread[t] EXCEPT !.late = TRUE] \in TimedWaiting
    BY <1>8, ThreadFacts, RecordFacts DEF Expire, Counted
  <2>2. thread' = [thread EXCEPT ![t] = [thread[t] EXCEPT !.late = TRUE]]
    BY <1>8 DEF Expire
  <2> QED
    BY <1>8, <2>1, <2>2 DEF Expire, Counted, TypeOk, PostsServeOnce
<1>9. ASSUME NEW t \in Threads, TimeOut(t) PROVE Counted'
  <2> QED
    BY <1>9, RecordFacts DEF TimeOut, Counted, TypeOk, PostsServeOnce
<1>10. ASSUME NEW t \in Threads, TimedReturns(t) PROVE Counted'
  <2>1. thread[t] \in TimedWaiting
    BY <1>10, ThreadFacts DEF TimedReturns, At, Counted
  <2>2. thread' \in [Threads -> ThreadState]
    BY <1>10, <2>1, RecordFacts DEF TimedReturns, Counted, TypeOk, ThreadState
  <2>3. /\ num' \in 0 .. MaxPosts /\ served' \in 0 .. MaxPosts
        /\ num' + served' <= posts
    BY <1>10 DEF TimedReturns, Counted, TypeOk, PostsServeOnce
  <2> QED
    BY <1>10, <2>2, <2>3 DEF TimedReturns, Counted, TypeOk, PostsServeOnce, ThreadState
<1>11. ASSUME NEW t \in Threads, Spurious(t) PROVE Counted'
  <2>1. t \in Asleep
    BY <1>11 DEF Spurious, Asleep, In
  <2>2. thread' \in [Threads -> ThreadState]
    BY <1>11, <2>1, AwakeType DEF Spurious, Counted
  <2> QED
    BY <1>11, <2>2 DEF Spurious, Counted, TypeOk, PostsServeOnce, ThreadState
<1> QED
  BY <1>1, <1>2, <1>3, <1>4, <1>5, <1>6, <1>7, <1>8, <1>9, <1>10, <1>11 DEF Next

LEMMA CountedAlways == Spec => []Counted
<1>1. Init => Counted
  BY ConstantFacts DEF Init, Counted, TypeOk, PostsServeOnce
<1> QED
  BY <1>1, CountedNext, PTL DEF Spec

\* Every state of the semaphore is well formed: in particular its counter stays
\* between 0 and the posts made, although two kinds of waiter lower it.
THEOREM TypeCorrect == Spec => []TypeOk
<1>1. Counted => TypeOk
  BY DEF Counted
<1> QED
  BY <1>1, CountedAlways, PTL

\* pt_sem_wait_time returns 0 at most once per post (pt_semaphoer.c:91), for any
\* number of threads that post, wait, time out and wake without a reason.
THEOREM PostsAreServedOnce == Spec => []PostsServeOnce
<1>1. Counted => PostsServeOnce
  BY DEF Counted
<1> QED
  BY <1>1, CountedAlways, PTL

-----------------------------------------------------------------------------
(* No post is stranded *)

LEMMA InFacts ==
    ASSUME NEW pc
    PROVE  In(pc) \subseteq Threads /\ IsFiniteSet(In(pc)) /\ Cardinality(In(pc)) \in Nat
<1>1. In(pc) \subseteq Threads
  BY DEF In
<1> QED
  BY <1>1, ConstantFacts, FS_Subset, FS_CardinalityType

\* The invariant, for the three ways the sets of threads change
LEMMA SameThreads ==
    ASSUME Counted, Counted', NoStrandedPost,
           In("timed_asleep")' = In("timed_asleep"), In("timed_woken")' = In("timed_woken"),
           \/ num' <= num /\ misspent' = misspent
           \/ num' <= num + 1 /\ misspent' = misspent + 1
    PROVE  NoStrandedPost'
<1>1. Cardinality(In("timed_woken")) \in Nat
  BY InFacts
<1>2. num \in Int /\ misspent \in Int /\ num' \in Int /\ misspent' \in Int
  BY ConstantFacts DEF Counted, TypeOk
<1>3. Cardinality(In("timed_woken")') = Cardinality(In("timed_woken"))
  OBVIOUS
<1> QED
  BY <1>1, <1>2, <1>3 DEF NoStrandedPost

LEMMA OneMoreAwake ==
    ASSUME Counted, Counted', NoStrandedPost, NEW t \in In("timed_asleep"),
           In("timed_woken")' = In("timed_woken") \union {t},
           num' <= num + 1, misspent' = misspent
    PROVE  NoStrandedPost'
<1>1. Cardinality(In("timed_woken")) \in Nat
  BY InFacts
<1>2. num \in Int /\ misspent \in Int /\ num' \in Int /\ misspent' \in Int
  BY ConstantFacts DEF Counted, TypeOk
<1>3. t \notin In("timed_woken")
  BY DEF In, At
<1>4. Cardinality(In("timed_woken")') = Cardinality(In("timed_woken")) + 1
  BY <1>3, InFacts, FS_AddElement
<1> QED
  BY <1>1, <1>2, <1>4 DEF NoStrandedPost

LEMMA OneLessAwake ==
    ASSUME Counted, Counted', NoStrandedPost, NEW t \in In("timed_woken"),
           In("timed_asleep")' = In("timed_asleep"),
           In("timed_woken")' = In("timed_woken") \ {t},
           num' = num - 1, misspent' = misspent
    PROVE  NoStrandedPost'
<1>1. Cardinality(In("timed_woken")) \in Nat
  BY InFacts
<1>2. num \in Int /\ misspent \in Int /\ num' \in Int /\ misspent' \in Int
  BY ConstantFacts DEF Counted, TypeOk
<1>3. Cardinality(In("timed_woken")') = Cardinality(In("timed_woken")) - 1
  BY InFacts, FS_RemoveElement
<1> QED
  BY <1>1, <1>2, <1>3 DEF NoStrandedPost

\* Without a post none is stranded.
LEMMA NothingPosted == ASSUME Counted', num' = 0 PROVE NoStrandedPost'
<1>1. /\ In("timed_woken")' \subseteq Threads
      /\ IsFiniteSet(In("timed_woken")') /\ Cardinality(In("timed_woken")') \in Nat
  <2>1. In("timed_woken")' \subseteq Threads
    BY DEF In
  <2> QED
    BY <2>1, ConstantFacts, FS_Subset, FS_CardinalityType
<1>2. misspent' \in Nat
  BY ConstantFacts DEF Counted, TypeOk
<1> QED
  BY <1>1, <1>2 DEF NoStrandedPost

\* What one thread that wakes does to the sets of threads
LEMMA AwakeOne ==
    ASSUME TypeOk, NEW t \in Asleep, thread' = Awake({t})
    PROVE  \/ /\ t \in In("wait_asleep")
              /\ In("timed_asleep")' = In("timed_asleep")
              /\ In("timed_woken")' = In("timed_woken")
           \/ /\ t \in In("timed_asleep") /\ t \notin In("wait_asleep")
              /\ In("timed_woken")' = In("timed_woken") \union {t}
<1>1. /\ \A s \in Threads \ {t} : thread'[s] = thread[s]
      /\ t \in Threads
  BY DEF Awake, Asleep, In
<1>2. CASE At(t, "wait_asleep")
  <2>1. thread'[t] = [pc |-> "wait_woken"]
    BY <1>1, <1>2 DEF Awake
  <2> QED
    BY <1>1, <1>2, <2>1 DEF In, At
<1>3. CASE ~At(t, "wait_asleep")
  <2>1. At(t, "timed_asleep")
    BY <1>3 DEF Asleep, In
  <2>2. thread'[t].pc = "timed_woken"
    BY <1>1, <1>3 DEF Awake
  <2> QED
    BY <1>1, <1>3, <2>1, <2>2 DEF In, At
<1> QED
  BY <1>2, <1>3

LEMMA StrandedSignal ==
    ASSUME Counted, Counted', NoStrandedPost, NEW t \in Threads, Signal(t)
    PROVE  NoStrandedPost'
<1>1. CASE Asleep = {} /\ Post(t, {})
  <2>1. thread' = Awake({})
    BY <1>1 DEF Post
  <2>2. \A s \in Threads : thread'[s] = thread[s]
    BY <2>1 DEF Awake
  <2>3. In("timed_asleep")' = {}
    BY <1>1, <2>2 DEF Asleep, In, At
  <2> QED
    BY <2>3 DEF NoStrandedPost
<1>2. ASSUME NEW s \in Asleep, Post(t, {s}) PROVE NoStrandedPost'
  <2>1. thread' = Awake({s}) /\ num' = num + 1
    BY <1>2 DEF Post
  <2>2. num \in Int /\ misspent \in Int
    BY ConstantFacts DEF Counted, TypeOk
  <2>3. CASE s \in In("wait_asleep")
    <3>1. misspent' = misspent + 1
      BY <1>2, <2>3 DEF Post
    <3>2. /\ In("timed_asleep")' = In("timed_asleep")
          /\ In("timed_woken")' = In("timed_woken")
      BY <2>1, <2>3, AwakeOne DEF Counted, In, At
    <3> QED
      BY <2>1, <2>2, <3>1, <3>2, SameThreads
  <2>4. CASE s \notin In("wait_asleep")
    <3>1. misspent' = misspent
      BY <1>2, <2>4 DEF Post
    <3>2. s \in In("timed_asleep") /\ In("timed_woken")' = In("timed_woken") \union {s}
      BY <2>1, <2>4, AwakeOne DEF Counted
    <3> QED
      BY <2>1, <2>2, <3>1, <3>2, OneMoreAwake
  <2> QED
    BY <2>3, <2>4
<1> QED
  BY <1>1, <1>2 DEF Signal

LEMMA StrandedBroadcast ==
    ASSUME Counted, NEW t \in Threads, Broadcast(t)
    PROVE  NoStrandedPost'
<1>1. thread' = Awake(Asleep)
  BY DEF Broadcast, Post
<1>2. ASSUME NEW s \in Threads PROVE thread'[s].pc # "timed_asleep"
  BY <1>1 DEF Awake, Asleep, In, At
<1> QED
  BY <1>2 DEF NoStrandedPost, In, At

LEMMA StrandedReturn ==
    ASSUME Counted, Counted', NoStrandedPost, NEW t \in Threads, TimedReturns(t)
    PROVE  NoStrandedPost'
<1>1. CASE num = 0
  <2>1. num' = 0
    BY <1>1 DEF TimedReturns
  <2> QED
    BY <2>1, NothingPosted
<1>2. CASE num # 0
  <2>1. thread' = [thread EXCEPT ![t] = Idle] /\ num' = num - 1 /\ misspent' = misspent
    BY <1>2 DEF TimedReturns
  <2>2. t \in In("timed_woken") /\ In("timed_woken")' = In("timed_woken") \ {t}
    BY <2>1 DEF TimedReturns, In, At, Idle, Counted, TypeOk
  <2>3. In("timed_asleep")' = In("timed_asleep")
    BY <2>1 DEF TimedReturns, In, At, Idle, Counted, TypeOk
  <2> QED
    BY <2>1, <2>2, <2>3, OneLessAwake
<1> QED
  BY <1>1, <1>2

LEMMA StrandedNext == Counted /\ Counted' /\ NoStrandedPost /\ [Next]_vars => NoStrandedPost'
<1> SUFFICES ASSUME Counted, Counted', NoStrandedPost, [Next]_vars PROVE NoStrandedPost'
  OBVIOUS
<1>n. num \in Int /\ misspent \in Int
  BY ConstantFacts DEF Counted, TypeOk
<1>1. CASE UNCHANGED vars
  BY <1>1 DEF vars, NoStrandedPost, In, At
<1>2. ASSUME NEW t \in Threads, Signal(t) PROVE NoStrandedPost'
  BY <1>2, StrandedSignal
<1>3. ASSUME NEW t \in Threads, Broadcast(t) PROVE NoStrandedPost'
  BY <1>3, StrandedBroadcast
<1>4. ASSUME NEW t \in Threads, Wait(t) PROVE NoStrandedPost'
  <2>1. /\ In("timed_asleep")' = In("timed_asleep")
        /\ In("timed_woken")' = In("timed_woken")
    BY <1>4 DEF Wait, In, At, Idle, Counted, TypeOk
  <2>2. num' <= num /\ misspent' = misspent
    BY <1>4, <1>n DEF Wait
  <2> QED
    BY <2>1, <2>2, SameThreads
<1>5. ASSUME NEW t \in Threads, WaitReturns(t) PROVE NoStrandedPost'
  <2>1. /\ In("timed_asleep")' = In("timed_asleep")
        /\ In("timed_woken")' = In("timed_woken")
    BY <1>5 DEF WaitReturns, In, At, Idle, Counted, TypeOk
  <2> QED
    BY <1>5, <1>n, <2>1, SameThreads DEF WaitReturns
<1>6. ASSUME NEW t \in Threads, TimedWait(t) PROVE NoStrandedPost'
  <2>1. CASE num = 0
    <3>1. num' = 0
      BY <1>6, <2>1 DEF TimedWait
    <3> QED
      BY <3>1, NothingPosted
  <2>2. CASE num # 0
    <3>1. thread' = thread /\ num' = num - 1 /\ misspent' = misspent
      BY <1>6, <2>2 DEF TimedWait
    <3>2. /\ In("timed_asleep")' = In("timed_asleep")
          /\ In("timed_woken")' = In("timed_woken")
      BY <3>1 DEF In, At
    <3> QED
      BY <1>n, <3>1, <3>2, SameThreads
  <2> QED
    BY <2>1, <2>2
<1>7. ASSUME NEW t \in Threads, Spin(t) PROVE NoStrandedPost'
  BY <1>1, <1>7 DEF Spin
<1>8. ASSUME NEW t \in Threads, Expire(t) PROVE NoStrandedPost'
  <2>1. thread' = [thread EXCEPT ![t] = [thread[t] EXCEPT !.late = TRUE]]
    BY <1>8 DEF Expire
  <2>2. thread[t] \in TimedWaiting
    BY <1>8, ThreadFacts DEF Expire, Counted
  <2>3. [thread[t] EXCEPT !.late = TRUE].pc = thread[t].pc
    BY <2>2 DEF TimedWaiting
  <2>4. /\ In("timed_asleep")' = In("timed_asleep")
        /\ In("timed_woken")' = In("timed_woken")
    BY <2>1, <2>3 DEF In, At, Counted, TypeOk
  <2> QED
    BY <1>8, <1>n, <2>4, SameThreads DEF Expire
<1>9. ASSUME NEW t \in Threads, TimeOut(t) PROVE NoStrandedPost'
  <2>1. t \in In("timed_asleep") /\ In("timed_woken")' = In("timed_woken") \union {t}
    BY <1>9 DEF TimeOut, In, At, Counted, TypeOk
  <2> QED
    BY <1>9, <1>n, <2>1, OneMoreAwake DEF TimeOut
<1>10. ASSUME NEW t \in Threads, TimedReturns(t) PROVE NoStrandedPost'
  BY <1>10, StrandedReturn
<1>11. ASSUME NEW t \in Threads, Spurious(t) PROVE NoStrandedPost'
  <2>1. t \in Asleep /\ thread' = Awake({t}) /\ num' = num /\ misspent' = misspent
    BY <1>11 DEF Spurious, Asleep, In
  <2>2. \/ /\ In("timed_asleep")' = In("timed_asleep")
           /\ In("timed_woken")' = In("timed_woken")
        \/ t \in In("timed_asleep") /\ In("timed_woken")' = In("timed_woken") \union {t}
    BY <2>1, AwakeOne DEF Counted
  <2> QED
    BY <1>n, <2>1, <2>2, SameThreads, OneMoreAwake
<1> QED
  BY <1>1, <1>2, <1>3, <1>4, <1>5, <1>6, <1>7, <1>8, <1>9, <1>10, <1>11 DEF Next

\* As long as a timed wait sleeps, every post not yet taken has a thread on its
\* way to take it, but for the posts whose wake-up went to pt_sem_wait
\* (pt_semaphoer.c:52-53, :69).
THEOREM NoPostIsStranded == Spec => []NoStrandedPost
<1>1. Init => NoStrandedPost
  BY DEF Init, NoStrandedPost, In, At, Idle
<1>2. Counted /\ Counted' /\ NoStrandedPost /\ [Next]_vars => NoStrandedPost'
  BY StrandedNext
<1> QED
  BY <1>1, <1>2, CountedAlways, PTL DEF Spec
=============================================================================
