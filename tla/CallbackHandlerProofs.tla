----------------------- MODULE CallbackHandlerProofs -----------------------
(***************************************************************************)
(* TLAPS proofs about CallbackHandler, for any handlers and any number of   *)
(* articles: until a push overlaps a thread's access, a vector holds as     *)
(* many uids as threads are going to read, so back() is never called on an  *)
(* empty vector; and every uid pushed is in the vector or was read by       *)
(* exactly one thread.                                                     *)
(***************************************************************************)
EXTENDS CallbackHandler, FiniteSetTheorems, TLAPS

\* The assumptions on the constants, in one fact.
LEMMA Assumed ==
  /\ NoHandler \notin Handlers
  /\ MaxArticles \in Nat
  /\ Uids \subseteq Nat \ {0}
  BY HandlersAssumption, MaxArticlesAssumption DEF Uids

-----------------------------------------------------------------------------
(* Type correctness *)

LEMMA TypeInit == Init => TypeOK
  BY Assumed DEF Init, TypeOK, ThreadSteps, Garbage, Nobody

LEMMA TypeNext == TypeOK /\ [Next]_vars => TypeOK'
<1> SUFFICES ASSUME TypeOK, [Next]_vars PROVE TypeOK'
  OBVIOUS
<1> USE Assumed DEF TypeOK
<1>1. CASE NewArticle
  BY <1>1 DEF NewArticle, vectorVars, threadVars
<1>2. ASSUME NEW h \in Handlers, AddUid(h) PROVE TypeOK'
  <2>1. announced \in Uids \cup {Garbage}
    BY DEF Uids, Garbage
  <2>2. m_uids' \in [Handlers -> [Uids -> Uids \cup {Garbage}]]
    BY <1>2, <2>1 DEF AddUid
  <2>3. raced' \in [Handlers -> BOOLEAN]
    BY <1>2 DEF AddUid, Reading
  <2> QED BY <1>2, <2>2, <2>3 DEF AddUid, threadVars
<1>3. ASSUME NEW h \in Handlers, AddUidEnds(h) PROVE TypeOK'
  BY <1>3 DEF AddUidEnds, Pushing, threadVars
<1>4. ASSUME NEW h \in Handlers, CreateThread(h) PROVE TypeOK'
  BY <1>4 DEF CreateThread, vectorVars, ThreadSteps
<1>5. ASSUME NEW h \in Handlers, NEW u \in Uids, Lock(h, u) PROVE TypeOK'
  BY <1>5 DEF Lock, watcherVars, vectorVars, ThreadSteps
<1>6. ASSUME NEW h \in Handlers, NEW u \in Uids, Back(h, u) PROVE TypeOK'
  BY <1>6 DEF Back, Pushing, watcherVars, vectorVars, ThreadSteps
<1>7. ASSUME NEW h \in Handlers, NEW u \in Uids, PopBack(h, u) PROVE TypeOK'
  BY <1>7 DEF PopBack, Pushing, watcherVars, vectorVars, ThreadSteps
<1>8. ASSUME NEW h \in Handlers, NEW u \in Uids, PopBackEnds(h, u) PROVE TypeOK'
  BY <1>8 DEF PopBackEnds, Pushing, watcherVars, ThreadSteps
<1>9. ASSUME NEW h \in Handlers, NEW u \in Uids, Unlock(h, u) PROVE TypeOK'
  BY <1>9 DEF Unlock, watcherVars, vectorVars, ThreadSteps
<1>10. CASE UNCHANGED vars
  BY <1>10 DEF vars, watcherVars, vectorVars, threadVars
<1> QED
  BY <1>1, <1>2, <1>3, <1>4, <1>5, <1>6, <1>7, <1>8, <1>9, <1>10
     DEF Next, Watcher, Watch, Thread, Finished

\* Every variable keeps its type, whatever was raced.
THEOREM TypeCorrect == Spec => []TypeOK
  BY TypeInit, TypeNext, PTL DEF Spec

-----------------------------------------------------------------------------
(* The invariant: initially, and under each action *)

\* The waiting threads are finitely many, and one more or one less counts.
LEMMA WaitingCount ==
  ASSUME NEW h \in Handlers
  PROVE  /\ Cardinality(Waiting(h)) \in Nat
         /\ \A u : Cardinality(Waiting(h) \cup {u}) =
                   IF u \in Waiting(h) THEN Cardinality(Waiting(h)) ELSE Cardinality(Waiting(h)) + 1
         /\ \A u : Cardinality(Waiting(h) \ {u}) =
                   IF u \in Waiting(h) THEN Cardinality(Waiting(h)) - 1 ELSE Cardinality(Waiting(h))
<1>1. IsFiniteSet(Uids)
  BY Assumed, FS_Interval DEF Uids
<1>2. Waiting(h) \in SUBSET Uids
  BY DEF Waiting
<1>3. IsFiniteSet(Waiting(h))
  BY <1>1, <1>2, FS_Subset
<1> QED BY <1>3, FS_CardinalityType, FS_AddElement, FS_RemoveElement

LEMMA InvInit == Init => Inv
<1> SUFFICES ASSUME Init PROVE Inv
  OBVIOUS
<1> USE Assumed DEF Init
<1>1. InsideHoldsMutex /\ NotCreatedYet /\ LoadedIsCurrent
  BY DEF InsideHoldsMutex, NotCreatedYet, LoadedIsCurrent, Pushing
<1>2. \A h \in Handlers : Waiting(h) = {} /\ AwaitingThread(h) = 0 /\ size[h] = 0
  BY DEF Waiting, AwaitingThread
<1>3. SizeIsWaitingThreads
  <2> SUFFICES ASSUME NEW h \in Handlers
               PROVE  size[h] = Cardinality(Waiting(h)) + AwaitingThread(h)
    BY DEF SizeIsWaitingThreads
  <2>1. Cardinality(Waiting(h)) = 0
    BY <1>2, FS_EmptySet
  <2> QED BY <1>2, <2>1
<1> QED BY <1>1, <1>3 DEF Inv

\* An action that leaves size, the waiting threads and the creation under way
\* alone keeps the count, provided it does not clear raced.
LEMMA CountKept ==
  ASSUME SizeIsWaitingThreads, size' = size,
         \A h \in Handlers : raced[h] => raced'[h],
         \A h \in Handlers : Waiting(h)' = Waiting(h),
         \A h \in Handlers : AwaitingThread(h)' = AwaitingThread(h)
  PROVE  SizeIsWaitingThreads'
<1> SUFFICES ASSUME NEW h \in Handlers, ~raced'[h]
             PROVE  size'[h] = Cardinality(Waiting(h)') + AwaitingThread(h)'
  BY DEF SizeIsWaitingThreads
<1>1. ~raced[h]
  BY Zenon
<1>2. size[h] = Cardinality(Waiting(h)) + AwaitingThread(h)
  BY <1>1 DEF SizeIsWaitingThreads
<1>3. size'[h] = size[h] /\ Waiting(h)' = Waiting(h) /\ AwaitingThread(h)' = AwaitingThread(h)
  BY Zenon
<1> QED BY <1>2, <1>3

\* The next article has no threads yet.
LEMMA InvNewArticle == TypeOK /\ Inv /\ NewArticle => Inv'
<1> SUFFICES ASSUME TypeOK, Inv, NewArticle PROVE Inv'
  OBVIOUS
<1> USE Assumed DEF NewArticle, vectorVars, threadVars
<1>1. InsideHoldsMutex'
  BY DEF Inv, InsideHoldsMutex
<1>2. NotCreatedYet'
  <2>1. announced' \in Uids /\ current' \notin left' /\ watcher' = "push"
    BY DEF TypeOK, Uids
  <2>2. ASSUME NEW h \in Handlers, NEW u \in Uids, u >= announced'
        PROVE  thread'[h][u] = "none"
    <3>1. u > announced
      BY <2>2 DEF TypeOK
    <3> QED BY <3>1 DEF Inv, NotCreatedYet
  <2> QED BY <2>1, <2>2 DEF NotCreatedYet
<1>3. LoadedIsCurrent'
  BY DEF Inv, LoadedIsCurrent, Pushing, Reading
<1>4. SizeIsWaitingThreads'
  BY CountKept DEF Inv, Waiting, AwaitingThread
<1> QED BY <1>1, <1>2, <1>3, <1>4 DEF Inv

\* A push that begins while a thread is reading sets raced.
LEMMA InvAddUid ==
  ASSUME TypeOK, Inv, NEW h \in Handlers, AddUid(h)
  PROVE  Inv'
<1> USE Assumed DEF AddUid, threadVars
<1>1. InsideHoldsMutex' /\ NotCreatedYet'
  BY DEF Inv, InsideHoldsMutex, NotCreatedYet
<1>2. LoadedIsCurrent'
  <2> SUFFICES ASSUME NEW g \in Handlers, ~raced'[g]
               PROVE  /\ Pushing(g)' => loaded' = size'[g] /\ ~Reading(g)'
                      /\ \A u \in Uids : thread'[g][u] = "store" => popped'[g] = size'[g]
    BY DEF LoadedIsCurrent
  <2>1. ~raced[g] /\ (g = h => ~Reading(g))
    BY DEF TypeOK
  <2>2. Reading(g)' = Reading(g) /\ (Pushing(g)' => g = h)
    BY DEF Reading, Pushing
  <2> QED BY <2>1, <2>2 DEF Inv, LoadedIsCurrent
<1>3. SizeIsWaitingThreads'
  <2>1. \A g \in Handlers : raced[g] => raced'[g]
    BY DEF TypeOK
  <2> QED BY <2>1, CountKept DEF Inv, Waiting, AwaitingThread
<1> QED BY <1>1, <1>2, <1>3 DEF Inv

\* The stored size counts the thread that is about to be created.
LEMMA InvAddUidEnds ==
  ASSUME TypeOK, Inv, NEW h \in Handlers, AddUidEnds(h)
  PROVE  Inv'
<1> USE Assumed DEF AddUidEnds, Pushing, threadVars
<1>1. InsideHoldsMutex' /\ NotCreatedYet'
  BY DEF Inv, InsideHoldsMutex, NotCreatedYet
<1>2. LoadedIsCurrent'
  <2> SUFFICES ASSUME NEW g \in Handlers, ~raced'[g], NEW u \in Uids, thread'[g][u] = "store"
               PROVE  popped'[g] = size'[g]
    BY DEF LoadedIsCurrent
  <2>1. g # h
    BY DEF Inv, LoadedIsCurrent, Reading
  <2> QED BY <2>1 DEF Inv, LoadedIsCurrent, TypeOK
<1>3. SizeIsWaitingThreads'
  <2> SUFFICES ASSUME NEW g \in Handlers, ~raced'[g]
               PROVE  size'[g] = Cardinality(Waiting(g)') + AwaitingThread(g)'
    BY DEF SizeIsWaitingThreads
  <2>1. Waiting(g)' = Waiting(g)
    BY DEF Waiting
  <2>2. size[g] = Cardinality(Waiting(g)) + AwaitingThread(g)
    BY DEF Inv, SizeIsWaitingThreads
  <2>3. CASE g = h
    <3>1. size'[h] = size[h] + 1
      BY <2>3 DEF Inv, LoadedIsCurrent, TypeOK
    <3>2. AwaitingThread(h) = 0 /\ AwaitingThread(h)' = 1
      BY DEF AwaitingThread
    <3>3. Cardinality(Waiting(h)) \in Nat
      BY WaitingCount
    <3> QED BY <2>1, <2>2, <2>3, <3>1, <3>2, <3>3
  <2>4. CASE g # h
    <3>1. size'[g] = size[g] /\ AwaitingThread(g)' = AwaitingThread(g)
      BY <2>4 DEF TypeOK, AwaitingThread
    <3> QED BY <2>1, <2>2, <3>1
  <2> QED BY <2>3, <2>4
<1> QED BY <1>1, <1>2, <1>3 DEF Inv

\* The thread of the announced article joins the waiting ones and the creation
\* under way ends.
LEMMA InvCreateThread ==
  ASSUME TypeOK, Inv, NEW h \in Handlers, CreateThread(h)
  PROVE  Inv'
<1> USE Assumed DEF CreateThread, vectorVars
<1>1. announced \in Uids /\ current = h /\ h \notin left /\ h # NoHandler
  BY DEF Inv, NotCreatedYet
<1>2. thread[h][announced] = "none"
  BY <1>1 DEF Inv, NotCreatedYet
<1>3. \A g \in Handlers, u \in Uids :
        thread'[g][u] = IF g = h /\ u = announced THEN "lock" ELSE thread[g][u]
  BY <1>1 DEF TypeOK
<1>4. InsideHoldsMutex'
  BY <1>3 DEF Inv, InsideHoldsMutex
<1>5. NotCreatedYet'
  <2>1. watcher' # "idle" => announced' \in Uids /\ current' \notin left'
    BY <1>1
  <2>2. watcher' = "idle" => left' = {}
    OBVIOUS
  <2>3. left' \subseteq left /\ current' \in left \cup {NoHandler}
    BY Zenon
  <2>4. ASSUME NEW g \in Handlers, NEW u \in Uids,
               u > announced \/ (u = announced /\ (g \in left' \/ current' = g))
        PROVE  thread'[g][u] = "none"
    <3>1. thread[g][u] = "none"
      BY <2>3, <2>4 DEF Inv, NotCreatedYet
    <3>2. ~(g = h /\ u = announced)
      <4>1. CASE u > announced
        BY <4>1, <1>1
      <4>2. CASE g \in left' \/ current' = g
        BY <4>2, <2>3, <1>1
      <4> QED BY <4>1, <4>2, <2>4
    <3> QED BY <1>3, <3>1, <3>2
  <2> QED BY <2>1, <2>2, <2>4 DEF NotCreatedYet
<1>6. LoadedIsCurrent'
  BY <1>3 DEF Inv, LoadedIsCurrent, Pushing
<1>7. SizeIsWaitingThreads'
  <2> SUFFICES ASSUME NEW g \in Handlers, ~raced[g]
               PROVE  size[g] = Cardinality(Waiting(g)') + AwaitingThread(g)'
    BY DEF SizeIsWaitingThreads
  <2>1. size[g] = Cardinality(Waiting(g)) + AwaitingThread(g)
    BY DEF Inv, SizeIsWaitingThreads
  <2>2. AwaitingThread(g)' = 0
    BY <1>1 DEF AwaitingThread
  <2>3. CASE g = h
    <3>1. Waiting(h)' = Waiting(h) \cup {announced} /\ announced \notin Waiting(h)
      BY <1>1, <1>2, <1>3 DEF Waiting
    <3>2. Cardinality(Waiting(h)') = Cardinality(Waiting(h)) + 1
      BY <3>1, WaitingCount
    <3>3. AwaitingThread(h) = 1
      BY DEF AwaitingThread
    <3> QED BY <2>1, <2>2, <2>3, <3>2, <3>3, WaitingCount
  <2>4. CASE g # h
    <3>1. Waiting(g)' = Waiting(g)
      BY <1>3, <2>4 DEF Waiting
    <3>2. AwaitingThread(g) = 0
      BY <2>4, <1>1 DEF AwaitingThread
    <3> QED BY <2>1, <2>2, <3>1, <3>2
  <2> QED BY <2>3, <2>4
<1> QED BY <1>4, <1>5, <1>6, <1>7 DEF Inv

\* The mutex was free, so no other thread is in the critical section.
LEMMA InvLock ==
  ASSUME TypeOK, Inv, NEW h \in Handlers, NEW u \in Uids, Lock(h, u)
  PROVE  Inv'
<1> USE Assumed DEF Lock, watcherVars, vectorVars
<1>1. \A g \in Handlers, v \in Uids :
        thread'[g][v] = IF g = h /\ v = u THEN "back" ELSE thread[g][v]
  BY DEF TypeOK
<1>2. InsideHoldsMutex'
  <2>1. \A v \in Uids : v # u => thread[h][v] \notin {"back", "load", "store", "unlock"}
    BY DEF Inv, InsideHoldsMutex, Nobody, Uids
  <2>2. m_new_article_mutex'[h] = u
        /\ \A g \in Handlers : g # h => m_new_article_mutex'[g] = m_new_article_mutex[g]
    BY DEF TypeOK
  <2> QED BY <1>1, <2>1, <2>2 DEF Inv, InsideHoldsMutex
<1>3. NotCreatedYet'
  BY <1>1 DEF Inv, NotCreatedYet
<1>4. LoadedIsCurrent'
  BY <1>1 DEF Inv, LoadedIsCurrent, Pushing, Reading
<1>5. SizeIsWaitingThreads'
  <2>1. \A g \in Handlers : Waiting(g)' = Waiting(g)
    BY <1>1 DEF Waiting
  <2>2. \A g \in Handlers : AwaitingThread(g)' = AwaitingThread(g)
    BY DEF AwaitingThread
  <2> QED BY <2>1, <2>2, CountKept DEF Inv
<1> QED BY <1>2, <1>3, <1>4, <1>5 DEF Inv

\* Reading while a push is under way is an overlap.
LEMMA InvBack ==
  ASSUME TypeOK, Inv, NEW h \in Handlers, NEW u \in Uids, Back(h, u)
  PROVE  Inv'
<1> USE Assumed DEF Back, watcherVars, vectorVars
<1>1. \A g \in Handlers, v \in Uids :
        thread'[g][v] = IF g = h /\ v = u THEN "load" ELSE thread[g][v]
  BY DEF TypeOK
<1>2. \A g \in Handlers : raced[g] => raced'[g]
  BY DEF TypeOK
<1>3. Pushing(h) => raced'[h]
  BY DEF TypeOK, Pushing
<1>4. InsideHoldsMutex' /\ NotCreatedYet'
  BY <1>1 DEF Inv, InsideHoldsMutex, NotCreatedYet
<1>5. LoadedIsCurrent'
  <2> SUFFICES ASSUME NEW g \in Handlers, ~raced'[g]
               PROVE  /\ Pushing(g) => loaded = size[g] /\ ~Reading(g)'
                      /\ \A v \in Uids : thread'[g][v] = "store" => popped[g] = size[g]
    BY DEF LoadedIsCurrent, Pushing
  <2>1. ~raced[g]
    BY <1>2, Zenon
  <2>2. Pushing(g) => g # h /\ loaded = size[g] /\ ~Reading(g)
    BY <1>3, <2>1, Zenon DEF Inv, LoadedIsCurrent
  <2>3. \A v \in Uids : thread[g][v] = "store" => popped[g] = size[g]
    BY <2>1 DEF Inv, LoadedIsCurrent
  <2> QED BY <1>1, <2>2, <2>3 DEF Reading
<1>6. SizeIsWaitingThreads'
  <2>1. \A g \in Handlers : Waiting(g)' = Waiting(g)
    BY <1>1 DEF Waiting
  <2>2. \A g \in Handlers : AwaitingThread(g)' = AwaitingThread(g)
    BY DEF AwaitingThread
  <2> QED BY <1>2, <2>1, <2>2, CountKept DEF Inv
<1> QED BY <1>4, <1>5, <1>6 DEF Inv

\* The size loaded is the size: an unraced push is not between its two steps.
LEMMA InvPopBack ==
  ASSUME TypeOK, Inv, NEW h \in Handlers, NEW u \in Uids, PopBack(h, u)
  PROVE  Inv'
<1> USE Assumed DEF PopBack, watcherVars, vectorVars
<1>1. \A g \in Handlers, v \in Uids :
        thread'[g][v] = IF g = h /\ v = u THEN "store" ELSE thread[g][v]
  BY DEF TypeOK
<1>2. \A g \in Handlers : raced[g] => raced'[g]
  BY DEF TypeOK
<1>3. \A g \in Handlers : popped'[g] = IF g = h THEN size[h] ELSE popped[g]
  BY DEF TypeOK
<1>4. InsideHoldsMutex' /\ NotCreatedYet'
  BY <1>1 DEF Inv, InsideHoldsMutex, NotCreatedYet
<1>5. LoadedIsCurrent'
  <2> SUFFICES ASSUME NEW g \in Handlers, ~raced'[g]
               PROVE  /\ Pushing(g) => loaded = size[g] /\ ~Reading(g)'
                      /\ \A v \in Uids : thread'[g][v] = "store" => popped'[g] = size[g]
    BY DEF LoadedIsCurrent, Pushing
  <2>1. ~raced[g]
    BY <1>2, Zenon
  <2>2. Reading(g)' = Reading(g)
    BY <1>1 DEF Reading
  <2>3. Pushing(g) => loaded = size[g] /\ ~Reading(g)
    BY <2>1, Zenon DEF Inv, LoadedIsCurrent
  <2>4. \A v \in Uids : thread[g][v] = "store" => popped[g] = size[g]
    BY <2>1 DEF Inv, LoadedIsCurrent
  <2> QED BY <1>1, <1>3, <2>2, <2>3, <2>4
<1>6. SizeIsWaitingThreads'
  <2>1. \A g \in Handlers : Waiting(g)' = Waiting(g)
    BY <1>1 DEF Waiting
  <2>2. \A g \in Handlers : AwaitingThread(g)' = AwaitingThread(g)
    BY DEF AwaitingThread
  <2> QED BY <1>2, <2>1, <2>2, CountKept DEF Inv
<1> QED BY <1>4, <1>5, <1>6 DEF Inv

\* The only thread inside stores a size one smaller and waits no more.
LEMMA InvPopBackEnds ==
  ASSUME TypeOK, Inv, NEW h \in Handlers, NEW u \in Uids, PopBackEnds(h, u)
  PROVE  Inv'
<1> USE Assumed DEF PopBackEnds, watcherVars
<1>1. \A g \in Handlers, v \in Uids :
        thread'[g][v] = IF g = h /\ v = u THEN "unlock" ELSE thread[g][v]
  BY DEF TypeOK
<1>2. \A g \in Handlers : raced[g] => raced'[g]
  BY DEF TypeOK
<1>3. Pushing(h) => raced'[h]
  BY DEF TypeOK, Pushing
<1>4. \A g \in Handlers : size'[g] = IF g = h THEN popped[h] - 1 ELSE size[g]
  BY DEF TypeOK
<1>5. InsideHoldsMutex' /\ NotCreatedYet'
  BY <1>1 DEF Inv, InsideHoldsMutex, NotCreatedYet
<1>6. \A v \in Uids : v # u => thread[h][v] # "store"
  BY DEF Inv, InsideHoldsMutex
<1>7. LoadedIsCurrent'
  <2> SUFFICES ASSUME NEW g \in Handlers, ~raced'[g]
               PROVE  /\ Pushing(g) => loaded = size'[g] /\ ~Reading(g)'
                      /\ \A v \in Uids : thread'[g][v] = "store" => popped[g] = size'[g]
    BY DEF LoadedIsCurrent, Pushing
  <2>1. ~raced[g]
    BY <1>2, Zenon
  <2>2. Pushing(g) => g # h /\ loaded = size[g] /\ ~Reading(g)
    BY <1>3, <2>1, Zenon DEF Inv, LoadedIsCurrent
  <2>3. \A v \in Uids : thread[g][v] = "store" => popped[g] = size[g]
    BY <2>1 DEF Inv, LoadedIsCurrent
  <2> QED BY <1>1, <1>4, <1>6, <2>2, <2>3 DEF Reading
<1>8. SizeIsWaitingThreads'
  <2> SUFFICES ASSUME NEW g \in Handlers, ~raced'[g]
               PROVE  size'[g] = Cardinality(Waiting(g)') + AwaitingThread(g)'
    BY DEF SizeIsWaitingThreads
  <2>1. ~raced[g]
    BY <1>2, Zenon
  <2>2. size[g] = Cardinality(Waiting(g)) + AwaitingThread(g)
    BY <2>1 DEF Inv, SizeIsWaitingThreads
  <2>3. AwaitingThread(g)' = AwaitingThread(g)
    BY DEF AwaitingThread
  <2>4. CASE g = h
    <3>1. Waiting(h)' = Waiting(h) \ {u} /\ u \in Waiting(h)
      BY <1>1 DEF Waiting
    <3>2. Cardinality(Waiting(h)') = Cardinality(Waiting(h)) - 1
      BY <3>1, WaitingCount
    <3>3. size'[h] = size[h] - 1
      BY <1>4, <2>1, <2>4 DEF Inv, LoadedIsCurrent
    <3>4. AwaitingThread(h) \in {0, 1} /\ size[h] \in Int
      BY DEF AwaitingThread, TypeOK
    <3> QED BY <2>2, <2>3, <2>4, <3>2, <3>3, <3>4, WaitingCount
  <2>5. CASE g # h
    <3>1. Waiting(g)' = Waiting(g)
      BY <1>1, <2>5 DEF Waiting
    <3> QED BY <1>4, <2>2, <2>3, <2>5, <3>1
  <2> QED BY <2>4, <2>5
<1> QED BY <1>5, <1>7, <1>8 DEF Inv

\* The mutex is released by the one thread that was in the critical section.
LEMMA InvUnlock ==
  ASSUME TypeOK, Inv, NEW h \in Handlers, NEW u \in Uids, Unlock(h, u)
  PROVE  Inv'
<1> USE Assumed DEF Unlock, watcherVars, vectorVars
<1>1. \A g \in Handlers, v \in Uids :
        thread'[g][v] = IF g = h /\ v = u THEN "ended" ELSE thread[g][v]
  BY DEF TypeOK
<1>2. InsideHoldsMutex'
  <2>1. \A v \in Uids : v # u => thread[h][v] \notin {"back", "load", "store", "unlock"}
    BY DEF Inv, InsideHoldsMutex
  <2>2. \A g \in Handlers : g # h => m_new_article_mutex'[g] = m_new_article_mutex[g]
    BY DEF TypeOK
  <2> QED BY <1>1, <2>1, <2>2 DEF Inv, InsideHoldsMutex
<1>3. NotCreatedYet'
  BY <1>1 DEF Inv, NotCreatedYet
<1>4. LoadedIsCurrent'
  BY <1>1 DEF Inv, LoadedIsCurrent, Pushing, Reading
<1>5. SizeIsWaitingThreads'
  <2>1. \A g \in Handlers : Waiting(g)' = Waiting(g)
    BY <1>1 DEF Waiting
  <2>2. \A g \in Handlers : AwaitingThread(g)' = AwaitingThread(g)
    BY DEF AwaitingThread
  <2> QED BY <2>1, <2>2, CountKept DEF Inv
<1> QED BY <1>2, <1>3, <1>4, <1>5 DEF Inv

-----------------------------------------------------------------------------
(* The theorems *)

LEMMA InvNext == TypeOK /\ Inv /\ [Next]_vars => Inv'
<1> SUFFICES ASSUME TypeOK, Inv, [Next]_vars PROVE Inv'
  OBVIOUS
<1>1. CASE UNCHANGED vars
  <2> USE <1>1 DEF vars, watcherVars, vectorVars, threadVars
  <2>1. InsideHoldsMutex' /\ NotCreatedYet'
    BY DEF Inv, InsideHoldsMutex, NotCreatedYet
  <2>2. LoadedIsCurrent'
    BY DEF Inv, LoadedIsCurrent, Pushing, Reading
  <2>3. SizeIsWaitingThreads'
    BY CountKept DEF Inv, Waiting, AwaitingThread
  <2> QED BY <2>1, <2>2, <2>3 DEF Inv
<1>2. CASE NewArticle
  BY <1>2, InvNewArticle
<1>3. ASSUME NEW h \in Handlers, Watch(h) PROVE Inv'
  BY <1>3, InvAddUid, InvAddUidEnds, InvCreateThread DEF Watch
<1>4. ASSUME NEW h \in Handlers, NEW u \in Uids, Thread(h, u) PROVE Inv'
  BY <1>4, InvLock, InvBack, InvPopBack, InvPopBackEnds, InvUnlock DEF Thread
<1> QED BY <1>1, <1>2, <1>3, <1>4 DEF Next, Watcher, Finished

\* The inductive invariant holds for any number of handlers and articles,
\* whatever the watcher and the threads interleave.
THEOREM Invariance == Spec => []Inv
  BY TypeCorrect, InvInit, InvNext, PTL DEF Spec

\* A thread of the catcher or the extractor finds the vector empty only after
\* a push overlapped an access: the missing lock is all that is wrong.
THEOREM SizeMatchesThreads == Spec => []SizeIsWaitingThreads
<1>1. Inv => SizeIsWaitingThreads
  BY DEF Inv
<1> QED BY <1>1, Invariance, PTL

-----------------------------------------------------------------------------
(* Which uids are read *)

\* The invariant behind ReadOnceUnlessRaced: until a push overlaps an access,
\* the slots of a vector hold different uids, the thread that reads has the
\* last one, and a push under way has filled the slot behind it.
SlotsApart(h) ==
  \A i, j \in 1 .. size[h] : m_uids[h][i] = m_uids[h][j] => i = j
TopIsRead(h) ==
  \A u \in Uids : thread[h][u] \in {"load", "store"} =>
    size[h] >= 1 /\ uid[h][u] = m_uids[h][size[h]]
SlotIsFilled(h) ==
  Pushing(h) => size[h] + 1 \in Uids /\ m_uids[h][size[h] + 1] = announced
ReadApart(h) == \A u, v \in Read(h) : uid[h][u] = uid[h][v] => u = v
AllAnnounced(h) == {uid[h][u] : u \in Read(h)} \cup Stored(h) = PushedTo(h)
OnlyPoppingShared(h) == {uid[h][u] : u \in Read(h)} \cap Stored(h) = Popping(h)

Slots(h) ==
  /\ size[h] \in 0 .. MaxArticles
  /\ SlotsApart(h) /\ TopIsRead(h) /\ SlotIsFilled(h)
  /\ ReadApart(h) /\ AllAnnounced(h) /\ OnlyPoppingShared(h)

SlotsHold == \A h \in Handlers : ~raced[h] => Slots(h)

\* The threads that wait are of articles announced before, and the vector has
\* room for one more.
LEMMA RoomForOne ==
  ASSUME TypeOK, Inv, NEW h \in Handlers, ~raced[h], current = h, watcher = "push"
  PROVE  size[h] \in 0 .. MaxArticles - 1 /\ size[h] + 1 \in Uids
<1> USE Assumed
<1>1. announced \in Uids /\ MaxArticles \in Nat
  BY HandlersAssumption DEF Inv, NotCreatedYet
<1>2. Waiting(h) \subseteq 1 .. announced - 1
  BY <1>1 DEF Inv, NotCreatedYet, Waiting, Uids
<1>3. Cardinality(Waiting(h)) <= announced - 1
  <2>1. IsFiniteSet(1 .. announced - 1) /\ Cardinality(1 .. announced - 1) = announced - 1
    BY <1>1, FS_Interval DEF Uids
  <2>2. Waiting(h) \in SUBSET (1 .. announced - 1)
    BY <1>2
  <2>3. Cardinality(Waiting(h)) <= Cardinality(1 .. announced - 1)
    BY <2>1, <2>2, FS_Subset
  <2> QED BY <2>1, <2>3
<1>4. size[h] = Cardinality(Waiting(h))
  <2>1. size[h] = Cardinality(Waiting(h)) + AwaitingThread(h)
    BY DEF Inv, SizeIsWaitingThreads
  <2>2. AwaitingThread(h) = 0
    BY DEF AwaitingThread
  <2> QED BY <2>1, <2>2, WaitingCount
<1> QED BY <1>1, <1>3, <1>4, WaitingCount DEF Uids

\* A thread that is still going to take a uid finds one.
LEMMA NotEmpty ==
  ASSUME TypeOK, Inv, NEW h \in Handlers, ~raced[h], NEW u \in Waiting(h)
  PROVE  size[h] >= 1
<1>1. size[h] = Cardinality(Waiting(h)) + AwaitingThread(h)
  BY DEF Inv, SizeIsWaitingThreads
<1>2. Cardinality(Waiting(h)) >= 1
  <2>1. Cardinality(Waiting(h) \ {u}) = Cardinality(Waiting(h)) - 1
    BY WaitingCount
  <2>2. IsFiniteSet(Uids) /\ Waiting(h) \ {u} \subseteq Uids
    BY Assumed, FS_Interval DEF Uids, Waiting
  <2>3. IsFiniteSet(Waiting(h) \ {u})
    BY <2>2, FS_Subset
  <2>4. Cardinality(Waiting(h) \ {u}) \in Nat
    BY <2>3, FS_CardinalityType
  <2> QED BY <2>1, <2>4, WaitingCount
<1> QED BY <1>1, <1>2, WaitingCount DEF AwaitingThread

\* What a step leaves alone keeps the slots of a handler.
LEMMA SlotsKept ==
  ASSUME NEW h \in Handlers, Slots(h),
         size'[h] = size[h], m_uids'[h] = m_uids[h], uid'[h] = uid[h],
         Read(h)' = Read(h), PushedTo(h)' = PushedTo(h),
         \A u \in Uids : thread'[h][u] \in {"load", "store"} <=> thread[h][u] \in {"load", "store"},
         Pushing(h)' => Pushing(h), announced' = announced \/ ~Pushing(h)'
  PROVE  Slots(h)'
<1>1. Stored(h)' = Stored(h)
  BY DEF Stored
<1>2. Popping(h)' = Popping(h)
  BY DEF Popping
<1>3. SlotsApart(h)' /\ TopIsRead(h)'
  BY DEF Slots, SlotsApart, TopIsRead
<1>4. SlotIsFilled(h)'
  BY DEF Slots, SlotIsFilled
<1>5. ReadApart(h)' /\ AllAnnounced(h)' /\ OnlyPoppingShared(h)'
  BY <1>1, <1>2 DEF Slots, ReadApart, AllAnnounced, OnlyPoppingShared
<1> QED BY <1>3, <1>4, <1>5 DEF Slots

LEMMA SlotsNewArticle == TypeOK /\ Inv /\ SlotsHold /\ NewArticle => SlotsHold'
<1> SUFFICES ASSUME TypeOK, Inv, SlotsHold, NewArticle, NEW h \in Handlers, ~raced'[h]
             PROVE  Slots(h)'
  BY DEF SlotsHold
<1> USE DEF NewArticle, vectorVars, threadVars
<1>1. left = {} /\ announced \in Int
  BY Assumed DEF Inv, NotCreatedYet, TypeOK
<1>2. PushedTo(h) = 1 .. announced
  BY <1>1 DEF PushedTo
<1>3. PushedTo(h)' = 1 .. announced
  <2>1. h \in left' \/ current' = h
    OBVIOUS
  <2> QED BY <1>1, <2>1 DEF PushedTo
<1>4. Slots(h) /\ Read(h)' = Read(h) /\ ~Pushing(h)'
  BY DEF SlotsHold, Read, Pushing
<1> QED BY <1>2, <1>3, <1>4, SlotsKept

LEMMA SlotsAddUid ==
  ASSUME TypeOK, Inv, SlotsHold, NEW h \in Handlers, AddUid(h)
  PROVE  SlotsHold'
<1> SUFFICES ASSUME NEW g \in Handlers, ~raced'[g] PROVE Slots(g)'
  BY DEF SlotsHold
<1> USE DEF AddUid, threadVars
<1>1. ~raced[g] /\ Slots(g)
  BY DEF TypeOK, SlotsHold
<1>2. Read(g)' = Read(g) /\ PushedTo(g)' = PushedTo(g)
  BY DEF Read, PushedTo
<1>3. CASE g # h
  <2>1. m_uids'[g] = m_uids[g] /\ ~Pushing(g)'
    BY <1>3 DEF TypeOK, Pushing
  <2> QED BY <1>1, <1>2, <2>1, SlotsKept
<1>4. CASE g = h
  <2>1. size[h] \in 0 .. MaxArticles - 1 /\ size[h] + 1 \in Uids
    BY <1>1, <1>4, RoomForOne
  <2>2. \A i \in Uids : m_uids'[h][i] = IF i = size[h] + 1 THEN announced ELSE m_uids[h][i]
    BY <2>1 DEF TypeOK
  <2>3. 1 .. size[h] \subseteq Uids /\ \A i \in 1 .. size[h] : i # size[h] + 1
    BY <2>1, Assumed DEF Uids
  <2>4. \A i \in 1 .. size[h] : m_uids'[h][i] = m_uids[h][i]
    BY <2>2, <2>3
  <2>5. Stored(h)' = Stored(h)
    BY <2>4 DEF Stored
  <2>6. Popping(h)' = Popping(h)
    BY DEF Popping
  <2>7. SlotsApart(h)'
    BY <1>1, <1>4, <2>4 DEF Slots, SlotsApart
  <2>8. TopIsRead(h)'
    <3>1. \A u \in Uids : thread[h][u] \in {"load", "store"} => size[h] \in 1 .. size[h]
      BY <1>1, <1>4, <2>1 DEF Slots, TopIsRead
    <3> QED BY <1>1, <1>4, <2>4, <3>1 DEF Slots, TopIsRead
  <2>9. SlotIsFilled(h)'
    BY <2>1, <2>2 DEF SlotIsFilled
  <2>10. ReadApart(h)' /\ AllAnnounced(h)' /\ OnlyPoppingShared(h)'
    BY <1>1, <1>2, <1>4, <2>5, <2>6 DEF Slots, ReadApart, AllAnnounced, OnlyPoppingShared
  <2> QED BY <1>1, <1>4, <2>7, <2>8, <2>9, <2>10 DEF Slots
<1> QED BY <1>3, <1>4

LEMMA SlotsAddUidEnds ==
  ASSUME TypeOK, Inv, SlotsHold, NEW h \in Handlers, AddUidEnds(h)
  PROVE  SlotsHold'
<1> SUFFICES ASSUME NEW g \in Handlers, ~raced[g] PROVE Slots(g)'
  BY DEF SlotsHold, AddUidEnds
<1> USE Assumed DEF AddUidEnds, threadVars
<1>1. Slots(g) /\ Read(g)' = Read(g) /\ ~Pushing(g)'
  BY DEF SlotsHold, Read, Pushing
<1>2. CASE g # h
  <2>1. size'[g] = size[g] /\ PushedTo(g)' = PushedTo(g)
    BY <1>2 DEF TypeOK, Pushing, PushedTo
  <2> QED BY <1>1, <2>1, SlotsKept
<1>3. CASE g = h
  <2>1. current = h /\ watcher = "pushed" /\ h \notin left /\ announced \in Uids
    BY HandlersAssumption DEF Pushing, Inv, NotCreatedYet
  <2>2. loaded = size[h] /\ ~Reading(h)
    BY <1>3 DEF Inv, LoadedIsCurrent
  <2>3. size[h] \in 0 .. MaxArticles /\ size[h] + 1 \in Uids /\ m_uids[h][size[h] + 1] = announced
    BY <1>1, <1>3 DEF Slots, SlotIsFilled
  <2>4. size'[h] = size[h] + 1 /\ size'[h] \in 0 .. MaxArticles
    BY <2>2, <2>3 DEF TypeOK, Uids
  <2>5. 1 .. size'[h] = (1 .. size[h]) \cup {size[h] + 1}
    BY <2>3, <2>4
  <2>6. Stored(h)' = Stored(h) \cup {announced}
    BY <2>3, <2>5 DEF Stored
  <2>7. PushedTo(h) = 1 .. announced - 1 /\ PushedTo(h)' = 1 .. announced
    BY <2>1 DEF PushedTo
  <2>8. PushedTo(h)' = PushedTo(h) \cup {announced} /\ announced \notin PushedTo(h)
    BY <2>1, <2>7 DEF Uids
  <2>9. announced \notin Stored(h) /\ announced \notin {uid[h][u] : u \in Read(h)}
    BY <1>1, <1>3, <2>8 DEF Slots, AllAnnounced
  <2>10. Popping(h)' = {} /\ Popping(h) = {}
    BY <2>2 DEF Popping, Reading
  <2>11. SlotsApart(h)'
    <3>1. \A i \in 1 .. size[h] : m_uids[h][i] # m_uids[h][size[h] + 1]
      BY <2>3, <2>9 DEF Stored
    <3> QED BY <1>1, <1>3, <2>5, <3>1 DEF Slots, SlotsApart
  <2>12. TopIsRead(h)'
    BY <2>2 DEF TopIsRead, Reading
  <2>13. ReadApart(h)' /\ AllAnnounced(h)'
    BY <1>1, <1>3, <2>6, <2>8 DEF Slots, ReadApart, AllAnnounced
  <2>14. OnlyPoppingShared(h)'
    BY <1>1, <1>3, <2>6, <2>9, <2>10 DEF Slots, OnlyPoppingShared
  <2>15. SlotIsFilled(h)'
    BY <1>1, <1>3 DEF SlotIsFilled
  <2> QED BY <1>3, <2>4, <2>11, <2>12, <2>13, <2>14, <2>15 DEF Slots
<1> QED BY <1>2, <1>3

LEMMA SlotsCreateThread ==
  ASSUME TypeOK, Inv, SlotsHold, NEW h \in Handlers, CreateThread(h)
  PROVE  SlotsHold'
<1> SUFFICES ASSUME NEW g \in Handlers, ~raced[g] PROVE Slots(g)'
  BY DEF SlotsHold, CreateThread
<1> USE Assumed DEF CreateThread, vectorVars
<1>1. announced \in Uids /\ h \notin left /\ thread[h][announced] = "none"
  BY DEF Inv, NotCreatedYet
<1>2. \A u \in Uids : thread'[g][u] = thread[g][u] \/ (thread[g][u] = "none" /\ thread'[g][u] = "lock")
  BY <1>1 DEF TypeOK
<1>3. Read(g)' = Read(g)
  BY <1>2 DEF Read
<1>4. PushedTo(g)' = PushedTo(g)
  <2>1. \/ current' = NoHandler /\ watcher' = "idle" /\ left = {} /\ left' = {}
        \/ current' \in left /\ left' = left \ {current'} /\ watcher' = "push"
    BY Zenon
  <2>2. (g \in left' \/ (current' = g /\ watcher' \in {"push", "pushed"}))
          <=> (g \in left \/ (current = g /\ watcher \in {"push", "pushed"}))
    BY <2>1
  <2> QED BY <2>2, Zenon DEF PushedTo
<1>5. Slots(g) /\ ~Pushing(g)'
  BY DEF SlotsHold, Pushing
<1> QED BY <1>2, <1>3, <1>4, <1>5, SlotsKept

\* Stages of a thread outside its access do not matter to the slots.
LEMMA SlotsMove ==
  ASSUME TypeOK, Inv, SlotsHold, NEW h \in Handlers, NEW u \in Uids,
         Lock(h, u) \/ PopBack(h, u) \/ Unlock(h, u)
  PROVE  SlotsHold'
<1> SUFFICES ASSUME NEW g \in Handlers, ~raced'[g] PROVE Slots(g)'
  BY DEF SlotsHold
<1> USE DEF watcherVars, vectorVars
<1>1. ~raced[g]
  BY DEF Lock, PopBack, Unlock, TypeOK
<1>2. \A v \in Uids :
        \/ thread'[g][v] = thread[g][v]
        \/ thread[g][v] = "lock" /\ thread'[g][v] = "back"
        \/ thread[g][v] = "load" /\ thread'[g][v] = "store"
        \/ thread[g][v] = "unlock" /\ thread'[g][v] = "ended"
  <2>1. CASE Lock(h, u)
    BY <2>1 DEF Lock, TypeOK
  <2>2. CASE PopBack(h, u)
    BY <2>2 DEF PopBack, TypeOK
  <2>3. CASE Unlock(h, u)
    BY <2>3 DEF Unlock, TypeOK
  <2> QED BY <2>1, <2>2, <2>3
<1>3. Read(g)' = Read(g)
  BY <1>2 DEF Read
<1>4. \A v \in Uids : thread'[g][v] \in {"load", "store"} <=> thread[g][v] \in {"load", "store"}
  BY <1>2
<1>5. UNCHANGED <<watcherVars, size, m_uids, uid>>
  BY DEF Lock, PopBack, Unlock
<1>6. PushedTo(g)' = PushedTo(g) /\ Pushing(g)' = Pushing(g)
  BY <1>5 DEF PushedTo, Pushing
<1> QED BY <1>1, <1>3, <1>4, <1>5, <1>6, SlotsKept DEF SlotsHold

\* back() takes the last uid, which nobody has read.
LEMMA SlotsBack ==
  ASSUME TypeOK, Inv, SlotsHold, NEW h \in Handlers, NEW u \in Uids, Back(h, u)
  PROVE  SlotsHold'
<1> SUFFICES ASSUME NEW g \in Handlers, ~raced'[g] PROVE Slots(g)'
  BY DEF SlotsHold
<1> USE DEF Back, watcherVars, vectorVars
<1>1. ~raced[g] /\ (g = h => ~Pushing(h))
  BY DEF TypeOK
<1>2. Slots(g)
  BY <1>1 DEF SlotsHold
<1>3. \A v \in Uids : thread'[g][v] = IF g = h /\ v = u THEN "load" ELSE thread[g][v]
  BY DEF TypeOK
<1>4. PushedTo(g)' = PushedTo(g) /\ Pushing(g)' = Pushing(g) /\ Stored(g)' = Stored(g)
  BY DEF PushedTo, Pushing, Stored
<1>5. CASE g # h
  <2>1. uid'[g] = uid[g] /\ Read(g)' = Read(g)
    BY <1>3, <1>5 DEF TypeOK, Read
  <2> QED BY <1>2, <1>3, <1>4, <1>5, <2>1, SlotsKept
<1>6. CASE g = h
  <2>1. u \in Waiting(h)
    BY DEF Waiting
  <2>2. size[h] >= 1 /\ size[h] \in 1 .. size[h] /\ size[h] \in Uids
    BY <1>1, <1>2, <1>6, <2>1, NotEmpty, Assumed DEF Slots, Uids
  <2> DEFINE top == m_uids[h][size[h]]
  <2>3. \A v \in Uids : uid'[h][v] = IF v = u THEN top ELSE uid[h][v]
    BY <2>2 DEF TypeOK
  <2>4. \A v \in Uids : v # u => thread[h][v] \notin {"back", "load", "store", "unlock"}
    BY DEF Inv, InsideHoldsMutex
  <2>5. Popping(h) = {}
    BY <2>4 DEF Popping
  <2>6. Read(h)' = Read(h) \cup {u} /\ u \notin Read(h) /\ Read(h) \subseteq Uids
    BY <1>3, <1>6 DEF Read
  <2>7. top \in Stored(h)
    BY <2>2 DEF Stored
  <2>8. top \notin {uid[h][v] : v \in Read(h)}
    BY <1>2, <1>6, <2>5, <2>7 DEF Slots, OnlyPoppingShared
  <2>9. {v \in Uids : thread'[h][v] \in {"load", "store"}} = {u}
    BY <1>3, <1>6, <2>4
  <2>10. Popping(h)' = {top}
    BY <2>3, <2>9 DEF Popping
  <2>11. {uid'[h][v] : v \in Read(h)'} = {uid[h][v] : v \in Read(h)} \cup {top}
    <3>1. \A v \in Read(h) : uid'[h][v] = uid[h][v]
      BY <2>3, <2>6
    <3>2. uid'[h][u] = top
      BY <2>3
    <3> QED BY <2>6, <3>1, <3>2
  <2>12. SlotsApart(h)' /\ SlotIsFilled(h)'
    BY <1>2, <1>4, <1>6 DEF Slots, SlotsApart, SlotIsFilled
  <2>13. TopIsRead(h)'
    BY <2>2, <2>3, <2>9 DEF TopIsRead
  <2>14. ReadApart(h)'
    <3> SUFFICES ASSUME NEW v \in Read(h)', NEW w \in Read(h)', uid'[h][v] = uid'[h][w]
                 PROVE  v = w
      BY DEF ReadApart
    <3>1. CASE v # u /\ w # u
      BY <1>2, <1>6, <2>3, <2>6, <3>1 DEF Slots, ReadApart
    <3>2. CASE v = u /\ w # u
      <4>1. w \in Read(h) /\ uid[h][w] = top
        BY <2>3, <2>6, <3>2
      <4> QED BY <2>8, <4>1
    <3>3. CASE w = u /\ v # u
      <4>1. v \in Read(h) /\ uid[h][v] = top
        BY <2>3, <2>6, <3>3
      <4> QED BY <2>8, <4>1
    <3> QED BY <3>1, <3>2, <3>3
  <2>15. AllAnnounced(h)'
    BY <1>2, <1>4, <1>6, <2>7, <2>11 DEF Slots, AllAnnounced
  <2>16. OnlyPoppingShared(h)'
    BY <1>2, <1>4, <1>6, <2>5, <2>7, <2>10, <2>11 DEF Slots, OnlyPoppingShared
  <2> QED BY <1>2, <1>6, <2>12, <2>13, <2>14, <2>15, <2>16 DEF Slots
<1> QED BY <1>5, <1>6

\* pop_back() takes away what back() read, and nobody else reads.
LEMMA SlotsPopBackEnds ==
  ASSUME TypeOK, Inv, SlotsHold, NEW h \in Handlers, NEW u \in Uids, PopBackEnds(h, u)
  PROVE  SlotsHold'
<1> SUFFICES ASSUME NEW g \in Handlers, ~raced'[g] PROVE Slots(g)'
  BY DEF SlotsHold
<1> USE DEF PopBackEnds, watcherVars
<1>1. ~raced[g] /\ (g = h => ~Pushing(h))
  BY DEF TypeOK
<1>2. Slots(g)
  BY <1>1 DEF SlotsHold
<1>3. \A v \in Uids : thread'[g][v] = IF g = h /\ v = u THEN "unlock" ELSE thread[g][v]
  BY DEF TypeOK
<1>4. Read(g)' = Read(g) /\ PushedTo(g)' = PushedTo(g) /\ Pushing(g)' = Pushing(g)
  BY <1>3 DEF PushedTo, Pushing, Read
<1>5. CASE g # h
  <2>1. size'[g] = size[g]
    BY <1>5 DEF TypeOK
  <2> QED BY <1>2, <1>3, <1>4, <1>5, <2>1, SlotsKept
<1>6. CASE g = h
  <2>1. size[h] \in 0 .. MaxArticles /\ size[h] >= 1 /\ uid[h][u] = m_uids[h][size[h]]
    BY <1>2, <1>6 DEF Slots, TopIsRead
  <2>2. size'[h] = size[h] - 1
    BY <1>1, <1>6 DEF Inv, LoadedIsCurrent, TypeOK
  <2> DEFINE top == m_uids[h][size[h]]
  <2>3. \A v \in Uids : v # u => thread[h][v] \notin {"back", "load", "store", "unlock"}
    BY DEF Inv, InsideHoldsMutex
  <2>4. {v \in Uids : thread[h][v] \in {"load", "store"}} = {u}
    BY <2>3
  <2>5. Popping(h) = {top}
    BY <2>1, <2>4 DEF Popping
  <2>6. {v \in Uids : thread'[h][v] \in {"load", "store"}} = {}
    BY <1>3, <1>6, <2>3
  <2>7. Popping(h)' = {}
    BY <2>6 DEF Popping
  <2>8. 1 .. size[h] = (1 .. size'[h]) \cup {size[h]} /\ size[h] \notin 1 .. size'[h]
    BY <2>1, <2>2
  <2>9. \A i \in 1 .. size'[h] : m_uids[h][i] # top
    BY <1>2, <1>6, <2>1, <2>8 DEF Slots, SlotsApart
  <2>10. Stored(h) = Stored(h)' \cup {top} /\ top \notin Stored(h)'
    BY <2>8, <2>9 DEF Stored
  <2>11. top \in {uid[h][v] : v \in Read(h)}
    BY <2>1 DEF Read
  <2>12. SlotsApart(h)'
    BY <1>2, <1>6, <2>8 DEF Slots, SlotsApart
  <2>13. TopIsRead(h)' /\ SlotIsFilled(h)'
    BY <1>1, <1>4, <1>6, <2>6 DEF TopIsRead, SlotIsFilled
  <2>14. ReadApart(h)'
    BY <1>2, <1>4, <1>6 DEF Slots, ReadApart
  <2>15. AllAnnounced(h)'
    BY <1>2, <1>4, <1>6, <2>10, <2>11 DEF Slots, AllAnnounced
  <2>16. OnlyPoppingShared(h)'
    BY <1>2, <1>4, <1>6, <2>5, <2>7, <2>10 DEF Slots, OnlyPoppingShared
  <2>17. size'[h] \in 0 .. MaxArticles
    BY <2>1, <2>2, Assumed
  <2> QED BY <1>6, <2>12, <2>13, <2>14, <2>15, <2>16, <2>17 DEF Slots
<1> QED BY <1>5, <1>6

LEMMA SlotsInit == Init => SlotsHold
<1> SUFFICES ASSUME Init, NEW h \in Handlers PROVE Slots(h)
  BY DEF SlotsHold
<1>1. Read(h) = {} /\ Popping(h) = {}
  BY DEF Init, Read, Popping
<1>2. size[h] = 0 /\ Stored(h) = {} /\ PushedTo(h) = {}
  BY DEF Init, Stored, PushedTo
<1>3. SlotsApart(h) /\ TopIsRead(h) /\ SlotIsFilled(h)
  BY <1>2 DEF Init, SlotsApart, TopIsRead, SlotIsFilled, Pushing
<1> QED BY <1>1, <1>2, <1>3, Assumed DEF Slots, ReadApart, AllAnnounced, OnlyPoppingShared

LEMMA SlotsNext == TypeOK /\ Inv /\ SlotsHold /\ [Next]_vars => SlotsHold'
<1> SUFFICES ASSUME TypeOK, Inv, SlotsHold, [Next]_vars PROVE SlotsHold'
  OBVIOUS
<1>1. CASE UNCHANGED vars
  <2> SUFFICES ASSUME NEW h \in Handlers, ~raced[h] PROVE Slots(h)'
    BY <1>1 DEF SlotsHold, vars
  <2> QED
    BY <1>1, SlotsKept DEF SlotsHold, vars, watcherVars, vectorVars, threadVars, Read, PushedTo, Pushing
<1>2. CASE NewArticle
  BY <1>2, SlotsNewArticle
<1>3. ASSUME NEW h \in Handlers, Watch(h) PROVE SlotsHold'
  BY <1>3, SlotsAddUid, SlotsAddUidEnds, SlotsCreateThread DEF Watch
<1>4. ASSUME NEW h \in Handlers, NEW u \in Uids, Thread(h, u) PROVE SlotsHold'
  BY <1>4, SlotsMove, SlotsBack, SlotsPopBackEnds DEF Thread
<1> QED BY <1>1, <1>2, <1>3, <1>4 DEF Next, Watcher, Finished

\* Until a push overlaps an access, every uid pushed is in the vector or was
\* read by one thread, never both and never twice.
THEOREM EveryUidIsReadOnce == Spec => []ReadOnceUnlessRaced
<1>1. SlotsHold => ReadOnceUnlessRaced
  BY DEF SlotsHold, Slots, ReadOnceUnlessRaced, ReadApart, AllAnnounced, OnlyPoppingShared
<1> QED BY <1>1, SlotsInit, SlotsNext, TypeCorrect, Invariance, PTL DEF Spec
=============================================================================
