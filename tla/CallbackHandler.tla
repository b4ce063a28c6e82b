--------------------------- MODULE CallbackHandler --------------------------
(***************************************************************************)
(* callback_handler, article_catcher and text_extractor: the watcher thread *)
(* announces an article by pushing its uid on the vector of every handler   *)
(* and starting a thread per handler, which locks the handler's mutex and   *)
(* takes the last uid off the vector.  The push takes no lock.             *)
(*                                                                         *)
(* Registration is commented out in main (main.cpp:123-129): without        *)
(* handlers new_article does nothing.  The model has them registered, as    *)
(* those lines do.                                                         *)
(*                                                                         *)
(* A push_back or pop_back loads and stores the end of the vector in two    *)
(* steps, which is what a build that may do anything with a data race does  *)
(* at best.                                                                *)
(***************************************************************************)
EXTENDS Integers, FiniteSets

CONSTANTS
  Handlers,     \* the handlers registered for new articles
  NoHandler,
  Hanging,      \* those whose threads may stop anywhere, with their mutex
  MaxArticles   \* bound: articles announced, with uids 1, 2, ...

ASSUME HandlersAssumption == Handlers # {} /\ NoHandler \notin Handlers
ASSUME HangingAssumption == Hanging \subseteq Handlers
ASSUME MaxArticlesAssumption == MaxArticles \in Nat

Uids == 1 .. MaxArticles
Garbage == 0     \* what back() reads in an empty vector
Nobody == 0

VARIABLES
  announced,   \* the uid of the last new_article call
  left,        \* its loop: the handlers it has not come to
  current,     \* the handler it is at
  watcher,     \* "idle", "push", "pushed", "create"
  loaded,      \* the size the push has loaded
  m_uids,      \* the storage of a handler's vector
  size,        \* and its size
  m_new_article_mutex,  \* the thread that holds it, or Nobody
  thread,      \* what each thread of a handler does next
  popped,      \* the size its pop_back has loaded
  uid,         \* the uid it read
  raced        \* history: an access of the vector overlapped another

watcherVars == <<announced, left, current, watcher, loaded>>
vectorVars == <<m_uids, size>>
threadVars == <<m_new_article_mutex, thread, popped, uid>>
vars == <<watcherVars, vectorVars, threadVars, raced>>

ThreadSteps == {"none", "lock", "back", "load", "store", "unlock", "ended"}

TypeOK ==
  /\ announced \in 0 .. MaxArticles
  /\ left \subseteq Handlers
  /\ current \in Handlers \cup {NoHandler}
  /\ watcher \in {"idle", "push", "pushed", "create"}
  /\ current = NoHandler <=> watcher = "idle"
  /\ loaded \in Int
  /\ m_uids \in [Handlers -> [Uids -> Uids \cup {Garbage}]]
  /\ size \in [Handlers -> Int]
  /\ m_new_article_mutex \in [Handlers -> Uids \cup {Nobody}]
  /\ thread \in [Handlers -> [Uids -> ThreadSteps]]
  /\ popped \in [Handlers -> Int]
  /\ uid \in [Handlers -> [Uids -> Uids \cup {Garbage}]]
  /\ raced \in [Handlers -> BOOLEAN]

Init ==
  /\ announced = 0 /\ left = {} /\ current = NoHandler /\ watcher = "idle" /\ loaded = 0
  /\ m_uids = [h \in Handlers |-> [u \in Uids |-> Garbage]]
  /\ size = [h \in Handlers |-> 0]
  /\ m_new_article_mutex = [h \in Handlers |-> Nobody]
  /\ thread = [h \in Handlers |-> [u \in Uids |-> "none"]]
  /\ popped = [h \in Handlers |-> 0]
  /\ uid = [h \in Handlers |-> [u \in Uids |-> Garbage]]
  /\ raced = [h \in Handlers |-> FALSE]

-----------------------------------------------------------------------------
(* The watcher thread *)

Reading(h) == \E u \in Uids : thread[h][u] \in {"load", "store"}
Pushing(h) == current = h /\ watcher = "pushed"

\* callback_handler::new_article(announced + 1)
NewArticle ==
  /\ watcher = "idle"
  /\ announced < MaxArticles
  /\ announced' = announced + 1
  /\ \E h \in Handlers : current' = h /\ left' = Handlers \ {h}
  /\ watcher' = "push"
  /\ UNCHANGED <<loaded, vectorVars, threadVars, raced>>

\* (mutation) The push would wait for the handler's mutex.
AddUidLocked(h) ==
  /\ current = h /\ watcher = "push"
  /\ m_new_article_mutex[h] = Nobody
  /\ loaded' = size[h]
  /\ m_uids' = IF size[h] + 1 \in Uids
               THEN [m_uids EXCEPT ![h][size[h] + 1] = announced] ELSE m_uids
  /\ watcher' = "pushed"
  /\ raced' = [raced EXCEPT ![h] = @ \/ Reading(h)]
  /\ UNCHANGED <<announced, left, current, size, threadVars>>

\* add_uid: the size is loaded and the element constructed ...
AddUid(h) ==
  /\ current = h /\ watcher = "push"
  /\ loaded' = size[h]
  /\ m_uids' = IF size[h] + 1 \in Uids
               THEN [m_uids EXCEPT ![h][size[h] + 1] = announced] ELSE m_uids
  /\ watcher' = "pushed"
  /\ raced' = [raced EXCEPT ![h] = @ \/ Reading(h)]
  /\ UNCHANGED <<announced, left, current, size, threadVars>>

\* ... and the size stored.
AddUidEnds(h) ==
  /\ Pushing(h)
  /\ size' = [size EXCEPT ![h] = loaded + 1]
  /\ watcher' = "create"
  /\ UNCHANGED <<announced, left, current, loaded, m_uids, threadVars, raced>>

\* (mutation) The loop over the handlers would run past the last one.
CreateThreadRunsOver(h) ==
  /\ current = h /\ watcher = "create"
  /\ thread' = [thread EXCEPT ![h][announced] = "lock"]
  /\ watcher' = "push"
  /\ \/ left = {} /\ current' = NoHandler /\ UNCHANGED left
     \/ \E g \in left : current' = g /\ left' = left \ {g}
  /\ UNCHANGED <<announced, loaded, vectorVars, m_new_article_mutex, popped, uid, raced>>

\* create_thread, and the next handler.
CreateThread(h) ==
  /\ current = h /\ watcher = "create"
  /\ thread' = [thread EXCEPT ![h][announced] = "lock"]
  /\ \/ left = {} /\ current' = NoHandler /\ watcher' = "idle" /\ UNCHANGED left
     \/ \E g \in left : current' = g /\ left' = left \ {g} /\ watcher' = "push"
  /\ UNCHANGED <<announced, loaded, vectorVars, m_new_article_mutex, popped, uid, raced>>

-----------------------------------------------------------------------------
(* The u-th thread of handler h: new_article(handler) *)

\* (mutation) The handlers would have no mutex.
LockNothing(h, u) ==
  /\ thread[h][u] = "lock"
  /\ thread' = [thread EXCEPT ![h][u] = "back"]
  /\ UNCHANGED <<watcherVars, vectorVars, m_new_article_mutex, popped, uid, raced>>

Lock(h, u) ==
  /\ thread[h][u] = "lock"
  /\ m_new_article_mutex[h] = Nobody
  /\ m_new_article_mutex' = [m_new_article_mutex EXCEPT ![h] = u]
  /\ thread' = [thread EXCEPT ![h][u] = "back"]
  /\ UNCHANGED <<watcherVars, vectorVars, popped, uid, raced>>

Back(h, u) ==
  /\ thread[h][u] = "back"
  /\ uid' = [uid EXCEPT ![h][u] = IF size[h] \in Uids THEN m_uids[h][size[h]] ELSE Garbage]
  /\ thread' = [thread EXCEPT ![h][u] = "load"]
  /\ raced' = [raced EXCEPT ![h] = @ \/ Pushing(h)]
  /\ UNCHANGED <<watcherVars, vectorVars, m_new_article_mutex, popped>>

\* (mutation) The mutex would be held for back() only.
PopBackUnlocked(h, u) ==
  /\ thread[h][u] = "load"
  /\ popped' = [popped EXCEPT ![h] = size[h]]
  /\ m_new_article_mutex' = [m_new_article_mutex EXCEPT ![h] = Nobody]
  /\ thread' = [thread EXCEPT ![h][u] = "store"]
  /\ raced' = [raced EXCEPT ![h] = @ \/ Pushing(h)]
  /\ UNCHANGED <<watcherVars, vectorVars, uid>>

PopBack(h, u) ==
  /\ thread[h][u] = "load"
  /\ popped' = [popped EXCEPT ![h] = size[h]]
  /\ thread' = [thread EXCEPT ![h][u] = "store"]
  /\ raced' = [raced EXCEPT ![h] = @ \/ Pushing(h)]
  /\ UNCHANGED <<watcherVars, vectorVars, m_new_article_mutex, uid>>

PopBackEnds(h, u) ==
  /\ thread[h][u] = "store"
  /\ size' = [size EXCEPT ![h] = popped[h] - 1]
  /\ thread' = [thread EXCEPT ![h][u] = "unlock"]
  /\ raced' = [raced EXCEPT ![h] = @ \/ Pushing(h)]
  /\ UNCHANGED <<watcherVars, m_uids, m_new_article_mutex, popped, uid>>

\* (mutation) Nothing would unlock the mutex.
UnlockForgotten(h, u) ==
  /\ thread[h][u] = "unlock"
  /\ thread' = [thread EXCEPT ![h][u] = "ended"]
  /\ UNCHANGED <<watcherVars, vectorVars, m_new_article_mutex, popped, uid, raced>>

\* The article is logged and the scoped_lock leaves its scope.
Unlock(h, u) ==
  /\ thread[h][u] = "unlock"
  /\ m_new_article_mutex' = [m_new_article_mutex EXCEPT ![h] = Nobody]
  /\ thread' = [thread EXCEPT ![h][u] = "ended"]
  /\ UNCHANGED <<watcherVars, vectorVars, popped, uid, raced>>

Watch(h) == AddUid(h) \/ AddUidEnds(h) \/ CreateThread(h)
Watcher == NewArticle \/ \E h \in Handlers : Watch(h)
Thread(h, u) ==
  Lock(h, u) \/ Back(h, u) \/ PopBack(h, u) \/ PopBackEnds(h, u) \/ Unlock(h, u)

\* All articles announced, all threads ended: where the bound stops the model.
Finished ==
  /\ announced = MaxArticles /\ watcher = "idle"
  /\ \A h \in Handlers, u \in Uids : thread[h][u] = "ended"
  /\ UNCHANGED vars

Next == Watcher \/ (\E h \in Handlers, u \in Uids : Thread(h, u)) \/ Finished

Spec == Init /\ [][Next]_vars

\* The watcher thread runs, and so do the threads of a handler that does not
\* hang.  No fairness of the mutex is needed: each thread takes it once.
FairSpec ==
  /\ Spec
  /\ WF_vars(\E h \in Handlers : Watch(h))
  /\ \A h \in Handlers \ Hanging, u \in Uids : WF_vars(Thread(h, u))

-----------------------------------------------------------------------------
(* Properties *)

Waiting(h) == {u \in Uids : thread[h][u] \in {"lock", "back", "load", "store"}}
Read(h) == {u \in Uids : thread[h][u] \in {"load", "store", "unlock", "ended"}}

\* A vector holds one uid for every thread that is going to take one, so none
\* finds it empty, as long as no push ran while a thread was in the vector:
\* that overlap is the only way to lose or repeat an article.
AwaitingThread(h) == IF current = h /\ watcher = "create" THEN 1 ELSE 0
SizeIsWaitingThreads ==
  \A h \in Handlers : ~raced[h] => size[h] = Cardinality(Waiting(h)) + AwaitingThread(h)

\* Then the uids in the vector and those read by a thread are apart, and
\* together they are the ones announced to the handler.
Stored(h) == {m_uids[h][i] : i \in 1 .. size[h]}
Popping(h) == {uid[h][u] : u \in {v \in Uids : thread[h][v] \in {"load", "store"}}}
PushedTo(h) ==
  1 .. IF h \in left \/ (current = h /\ watcher \in {"push", "pushed"})
       THEN announced - 1 ELSE announced
ReadOnceUnlessRaced ==
  \A h \in Handlers : ~raced[h] =>
    /\ \A u, v \in Read(h) : uid[h][u] = uid[h][v] => u = v
    /\ {uid[h][u] : u \in Read(h)} \cup Stored(h) = PushedTo(h)
    /\ {uid[h][u] : u \in Read(h)} \cap Stored(h) = Popping(h)

\* new_article returns even while a handler hangs in its critical section: the
\* watcher waits for no handler.
WatcherIsNotHeldUp == watcher # "idle" ~> watcher = "idle"

\* Every thread that is created ends, whatever was raced and whichever other
\* handler hangs: it only waits for threads of its own handler, one at a time.
ThreadsEnd ==
  \A h \in Handlers \ Hanging, u \in Uids :
    thread[h][u] = "lock" ~> thread[h][u] = "ended"

-----------------------------------------------------------------------------
(* The inductive invariant behind SizeIsWaitingThreads *)

\* The threads in the critical section of a handler hold its mutex.
InsideHoldsMutex ==
  \A h \in Handlers, u \in Uids :
    thread[h][u] \in {"back", "load", "store", "unlock"} => m_new_article_mutex[h] = u

\* The loop of new_article has created no thread for what lies ahead of it.
NotCreatedYet ==
  /\ watcher # "idle" => announced \in Uids /\ current \notin left
  /\ watcher = "idle" => left = {}
  /\ \A h \in Handlers, u \in Uids :
       u > announced \/ (u = announced /\ (h \in left \/ current = h)) => thread[h][u] = "none"

\* Without overlap a size that was loaded is still the size when it is stored.
LoadedIsCurrent ==
  \A h \in Handlers : ~raced[h] =>
    /\ Pushing(h) => loaded = size[h] /\ ~Reading(h)
    /\ \A u \in Uids : thread[h][u] = "store" => popped[h] = size[h]

\* Holds in every reachable state and is preserved by every step.
Inv == InsideHoldsMutex /\ NotCreatedYet /\ LoadedIsCurrent /\ SizeIsWaitingThreads

-----------------------------------------------------------------------------
(* What the code's comments say, and the code does not do *)

\* main.cpp:127: the article catcher "will register to feed_watcher event and
\* notify for new article in database": when all is done it has read the uid of
\* every article announced.
EveryArticleIsCaught ==
  announced = MaxArticles /\ watcher = "idle"
  /\ (\A h \in Handlers, u \in Uids : thread[h][u] = "ended")
    => \A h \in Handlers : {uid[h][u] : u \in Uids} = Uids
=============================================================================
