------------------------ MODULE OtlpHttpClient_proofs ------------------------
(***************************************************************************)
(* OInv is an invariant of OtlpHttpClient for any number of exports and    *)
(* callers and any max_running_requests, and with it the result callback   *)
(* runs once, a sync Export and ForceFlush return what happened, and the   *)
(* destructor leaves nothing behind.                                       *)
(*                                                                         *)
(* Most steps move one caller on and change little else.  The lemmas named *)
(* Keep... say which conjunct of OInv survives which changes; there is one *)
(* lemma per operation below them.                                         *)
(***************************************************************************)
EXTENDS OtlpHttpClient, FiniteSetTheorems, TLAPS

USE OtlpAssumption
USE DEF clientVars, lockVars, handlerVars, callVars

Over == {"done", "refused", "stray"}           \* stages FinishSession returns from
Told == {"reported", "stray", "refused"}       \* stages in which a handler may be running
Early == {"none", "created", "dropped"}        \* stages before SendRequest
EarlySteps == {"idle", "add", "count"}         \* steps of Export before SendRequest

-----------------------------------------------------------------------------
(* Sets of sessions.                                                       *)

\* The sets of sessions are finite.
LEMMA FiniteSessions ==
  ASSUME NEW S \in SUBSET Exports
  PROVE  IsFiniteSet(S) /\ Cardinality(S) \in Nat
BY FS_Subset, FS_CardinalityType

\* A set of sessions is no larger than one that contains it, and as large only
\* if it is the same.
LEMMA LargerSet ==
  ASSUME NEW T \in SUBSET Exports, NEW S \in SUBSET T
  PROVE  /\ Cardinality(S) <= Cardinality(T)
         /\ Cardinality(S) >= Cardinality(T) => S = T
<1>1. IsFiniteSet(T) /\ Cardinality(T) \in Nat BY FiniteSessions
<1>2. IsFiniteSet(S) /\ Cardinality(S) \in Nat BY FiniteSessions
<1>3. QED BY <1>1, <1>2, FS_Subset

\* One session more.
LEMMA OneMore ==
  ASSUME NEW S \in SUBSET Exports, NEW e \in Exports, e \notin S
  PROVE  Cardinality(S \union {e}) = Cardinality(S) + 1
BY FiniteSessions, FS_AddElement

\* Counted, Added and Released are related as their definitions say.
LEMMA SessionSets ==
  /\ Counted \in SUBSET Added /\ Added \in SUBSET Exports /\ Released = Added \ running
  /\ Released \in SUBSET Exports /\ Counted \in SUBSET Exports
BY DEF Counted, Added, Released

-----------------------------------------------------------------------------
(* What survives which changes.                                            *)

\* A caller moves on.
LEMMA MoveOn ==
  ASSUME TypeOK, NEW c \in Callers, NEW to, pc' = [pc EXCEPT ![c] = to],
         c \in Exports => to \in ExportSteps, c \in Flushing => to \in FlusherSteps(c)
  PROVE  /\ StepsOK' /\ pc'[c] = to
         /\ \A d \in Callers : d # c => pc'[d] = pc[d]
         /\ \A d \in Exports : d # c => pc'[d] = pc[d]
         /\ \A d \in Flushing : d # c => pc'[d] = pc[d]
<1>1. StepsOK BY DEF TypeOK
<1>2. to \in ExportSteps \union FlusherSteps(Destructor)
  BY DEF FlusherSteps, Callers
<1>3. /\ pc' \in [Callers -> ExportSteps \union FlusherSteps(Destructor)]
      /\ pc'[c] = to /\ \A d \in Callers : d # c => pc'[d] = pc[d]
  BY <1>1, <1>2 DEF StepsOK
<1>4. \A d \in Exports : pc'[d] \in ExportSteps BY <1>1, <1>3 DEF StepsOK, Callers
<1>5. \A d \in Flushing : pc'[d] \in FlusherSteps(d) BY <1>1, <1>3 DEF StepsOK, Callers
<1>6. QED BY <1>3, <1>4, <1>5 DEF StepsOK, Callers

\* Sessions: no Export begins or passes SendRequest's start, and no session
\* leaves the lists of the client before the HTTP client has let go of it.
LEMMA KeepSessions ==
  ASSUME TypeOK, SessionInv, CounterInv,
         UNCHANGED <<running, started, finished, stopping, calls>>,
         gc' \union sweep' \subseteq gc \union sweep,
         \A e \in Exports : e \in (gc \union sweep) \ (gc' \union sweep') => http[e] \in Over,
         \A e \in Exports :
           /\ http'[e] = "none" <=> http[e] = "none"
           /\ http[e] \in Over => http'[e] \in Over
           /\ http'[e] = "created" => http[e] = "created"
           /\ pc'[e] \in EarlySteps => pc[e] = pc'[e] /\ http'[e] \in Early
           /\ pc[e] \in EarlySteps \union {"done"} => pc'[e] = pc[e]
  PROVE  /\ SessionInv' /\ CounterInv'
         /\ Added' = Added /\ Counted' = Counted /\ Released' = Released
<1>1. Added' = Added /\ Counted' = Counted /\ Released' = Released
  BY DEF Added, Counted, Released, EarlySteps
<1>2. CounterInv' BY <1>1 DEF CounterInv
<1>3. /\ (running \subseteq Added /\ gc \subseteq Added /\ sweep \subseteq Added)'
      /\ (running \intersect gc = {} /\ running \intersect sweep = {})'
  BY <1>1 DEF SessionInv
<1>4. ASSUME NEW e \in Exports
      PROVE  (/\ pc[e] \in {"idle", "add", "count"} =>
                   http[e] \in {"none", "created", "dropped"} /\ ~stopping[e]
              /\ pc[e] = "idle" => http[e] = "none" /\ calls[e] = 0
              /\ pc[e] \in {"add", "count"} => http[e] # "none"
              /\ pc[e] = "count" => e \in running
              /\ http[e] \in {"none", "created"} => ~stopping[e]
              /\ http[e] = "none" => pc[e] \in {"idle", "done"}
              /\ http[e] # "none" => calls[e] = IF stopping[e] THEN 1 ELSE 0
              /\ calls[e] <= 1)'
  BY DEF SessionInv, EarlySteps, Early
<1>5. ASSUME NEW e \in Exports
      PROVE  (/\ e \in Added \ running => stopping[e]
              /\ e \in Added \ (running \union gc \union sweep) =>
                   http[e] \in {"done", "refused", "stray"})'
  BY <1>1 DEF SessionInv, Over
<1>6. QED BY <1>1, <1>2, <1>3, <1>4, <1>5 DEF SessionInv

\* Handlers: nobody's event changes, nor the stage that allows it.
LEMMA KeepEvents ==
  ASSUME EventInv, TypeOK, UNCHANGED <<event, running, stopping>>,
         \A e \in Exports : /\ http[e] \in Told => http'[e] \in Told
                            /\ http[e] = "refused" => http'[e] = "refused"
                            /\ pc[e] = "refused" => pc'[e] = "refused"
  PROVE  EventInv'
<1>1. \A t \in Threads : event[t] # NoEvent => event[t] \in Deliveries /\ event[t].session \in Exports
  BY DEF TypeOK, Threads, Deliveries
<1>2. QED BY <1>1 DEF EventInv, Told, Threads

\* Flushes: none moves, and more has been counted and finished.
LEMMA KeepFlushes ==
  ASSUME FlushInv, FlushHonest, TypeOK, UNCHANGED <<before, waitCounter, inShutdown>>,
         Counted \subseteq Counted', Released \subseteq Released',
         finished' \in Nat, finished <= finished',
         \A c \in Flushing : /\ pc'[c] = pc[c] \/ (pc[c] = "waiting" /\ pc'[c] = "relock")
                             /\ result'[c] = result[c]
  PROVE  FlushInv' /\ FlushHonest'
<1>1. FlushInv' BY DEF FlushInv, FlushSteps, InFlush, TypeOK
<1>2. FlushHonest' BY DEF FlushHonest
<1>3. QED BY <1>1, <1>2

\* Exports: none moves, and what one was told stays.
LEMMA KeepExports ==
  ASSUME SyncInv, SyncExportHonest, Added \subseteq Added', Released \subseteq Released',
         UNCHANGED <<calls, told>>,
         \A e \in Exports : /\ pc'[e] = pc[e] \/ (pc[e] = "waiting" /\ pc'[e] = "relock")
                            /\ result'[e] = result[e]
  PROVE  SyncInv' /\ SyncExportHonest'
<1>1. SyncInv' BY DEF SyncInv
<1>2. SyncExportHonest' BY DEF SyncExportHonest
<1>3. QED BY <1>1, <1>2

\* The destructor: it does not move, and neither does anybody else while it runs.
LEMMA KeepDestroy ==
  ASSUME DestroyInv, TypeOK, UNCHANGED inShutdown,
         pc'[Destructor] = pc[Destructor]
           \/ (pc[Destructor] = "waiting" /\ pc'[Destructor] = "relock"),
         pc[Destructor] # "idle" =>
           /\ running' \subseteq running
           /\ \A c \in Callers \ {Destructor} : pc[c] \in {"idle", "done"} => pc'[c] = pc[c],
         pc[Destructor] \in {"destroyed", "done"} /\ running = {} => gc' = gc /\ sweep' = sweep
  PROVE  DestroyInv'
BY DEF DestroyInv, DrainSteps, ShutdownSteps

\* Stages: no session begins or is handed over, and no handler is let go of.
StagesKept ==
  \A e \in Exports :
    /\ http'[e] = "none" <=> http[e] = "none"
    /\ http[e] \in Over => http'[e] \in Over
    /\ http'[e] = "created" => http[e] = "created"
    /\ http[e] \in Early => http'[e] \in Early
    /\ http[e] \in Told => http'[e] \in Told
    /\ http[e] = "refused" => http'[e] = "refused"

\* session_manager_lock_: nobody takes it, and the lists stay.
LEMMA KeepLock ==
  ASSUME LockInv, UNCHANGED <<managerLock, gc, sweep>>,
         \A c \in Callers : pc'[c] \in {"finish", "cleaning", "lastFinish"} => pc'[c] = pc[c]
  PROVE  LockInv'
BY DEF LockInv

\* cleanupGCSessions takes the mutex, and releases it.
LEMMA TakeLock ==
  ASSUME LockInv, NEW c \in Callers, managerLock = Nobody, managerLock' = c, gc' = {},
         \A d \in Callers : d # c => pc'[d] = pc[d]
  PROVE  LockInv'
<1>1. c # Nobody /\ \A d \in Callers : d # Nobody OBVIOUS
<1>2. \A d \in Callers : pc[d] \notin {"finish", "cleaning", "lastFinish"}
  BY <1>1 DEF LockInv
<1>3. \A d \in Callers : pc'[d] \in {"finish", "cleaning", "lastFinish"} => d = c
  BY <1>2
<1>4. QED BY <1>1, <1>3 DEF LockInv

LEMMA GiveLock ==
  ASSUME LockInv, NEW c \in Callers, pc[c] \in {"finish", "cleaning", "lastFinish"},
         managerLock' = Nobody, sweep' = {}, NEW to, pc'[c] = to,
         to \notin {"finish", "cleaning", "lastFinish"},
         \A d \in Callers : d # c => pc'[d] = pc[d]
  PROVE  LockInv'
BY DEF LockInv

\* Nobody is in the client while it is being destroyed.
LEMMA NotDestroyed ==
  ASSUME OInv, NEW c \in Callers, c # Destructor, pc[c] \notin {"idle", "done"}
  PROVE  pc[Destructor] = "idle" /\ Destructor \notin inShutdown
<1>1. DestroyInv BY DEF OInv
<1>2. pc[Destructor] = "idle" BY <1>1 DEF DestroyInv
<1>3. QED BY <1>1, <1>2 DEF DestroyInv

\* A thread that flushes or shuts down moves on: what is known of sessions,
\* events and Exports is not affected.
LEMMA FlusherFrame ==
  ASSUME OInv, NEW c \in Flushing, NEW to, pc' = [pc EXCEPT ![c] = to], StagesKept,
         UNCHANGED <<running, started, finished, stopping, told, calls, event>>,
         gc' \union sweep' \subseteq gc \union sweep,
         \A e \in Exports : e \in (gc \union sweep) \ (gc' \union sweep') => http[e] \in Over,
         \A e \in Exports : result'[e] = result[e]
  PROVE  /\ SessionInv' /\ CounterInv' /\ EventInv' /\ SyncInv' /\ SyncExportHonest'
         /\ Added' = Added /\ Counted' = Counted /\ Released' = Released
<1>1. \A e \in Exports : pc'[e] = pc[e] BY DEF OInv, TypeOK, StepsOK, Callers
<1>2. /\ TypeOK /\ SessionInv /\ CounterInv /\ EventInv /\ SyncInv /\ SyncExportHonest
  BY DEF OInv
<1>3. \A e \in Exports : pc[e] \in EarlySteps => http[e] \in Early
  BY <1>2 DEF SessionInv, EarlySteps, Early
<1>4. /\ SessionInv' /\ CounterInv'
      /\ Added' = Added /\ Counted' = Counted /\ Released' = Released
  BY <1>1, <1>2, <1>3, KeepSessions DEF StagesKept
<1>5. EventInv' BY <1>1, <1>2, KeepEvents DEF StagesKept
<1>6. SyncInv' /\ SyncExportHonest' BY <1>1, <1>2, <1>4, KeepExports
<1>7. QED BY <1>4, <1>5, <1>6

\* A cancelled session that was handed over gets a thread, or loses it.
OnlyFlagged(s) == http[s] \in {"flagged", "left"} /\ http'[s] \in {"flagged", "left"}

\* An Export moves on after SendRequest: what is known of sessions, events,
\* flushes and the destructor, which has not begun, is not affected.
LEMMA ExportFrame ==
  ASSUME OInv, NEW e \in Exports, NEW to, pc' = [pc EXCEPT ![e] = to],
         pc[e] \notin EarlySteps \union {"done"}, to \notin EarlySteps,
         UNCHANGED <<running, started, finished, stopping, told, calls,
                     before, waitCounter, inShutdown>>,
         \A s \in Exports : s # e => http'[s] = http[s] \/ OnlyFlagged(s),
         http'[e] \notin {"none", "created"} \/ http'[e] = http[e],
         http[e] \in Over => http'[e] \in Over,
         gc' \union sweep' \subseteq gc \union sweep,
         \A s \in Exports : s \in (gc \union sweep) \ (gc' \union sweep') => http[s] \in Over,
         \A c \in Flushing : result'[c] = result[c]
  PROVE  /\ SessionInv' /\ CounterInv' /\ FlushInv' /\ FlushHonest' /\ DestroyInv'
         /\ Added' = Added /\ Counted' = Counted /\ Released' = Released
<1>1. /\ \A c \in Flushing : pc'[c] = pc[c]
      /\ \A s \in Exports : s # e => pc'[s] = pc[s]
      /\ pc'[e] = to
  BY DEF OInv, TypeOK, StepsOK, Callers
<1>2. /\ TypeOK /\ SessionInv /\ CounterInv /\ FlushInv /\ FlushHonest /\ DestroyInv
  BY DEF OInv
<1>3. \A s \in Exports : pc[s] \in EarlySteps => http[s] \in Early
  BY <1>2 DEF SessionInv, EarlySteps, Early
<1>4. /\ http[e] # "none"
      /\ \A s \in Exports :
           /\ pc'[s] \in EarlySteps => pc[s] = pc'[s] /\ http'[s] \in Early
           /\ pc[s] \in EarlySteps \union {"done"} => pc'[s] = pc[s]
  <2>1. http[e] # "none" BY <1>2 DEF SessionInv, EarlySteps
  <2>2. \A s \in Exports : s # e /\ http[s] \in Early => http'[s] \in Early
    BY DEF OnlyFlagged, Early
  <2>3. QED BY <1>1, <1>3, <2>1, <2>2
<1>5. /\ SessionInv' /\ CounterInv'
      /\ Added' = Added /\ Counted' = Counted /\ Released' = Released
  <2>1. \A s \in Exports : /\ http'[s] = "none" <=> http[s] = "none"
                           /\ http[s] \in Over => http'[s] \in Over
                           /\ http'[s] = "created" => http[s] = "created"
    BY <1>4 DEF OnlyFlagged, Over
  <2>2. QED BY <1>2, <1>4, <2>1, KeepSessions
<1>6. FlushInv' /\ FlushHonest'
  BY <1>1, <1>2, <1>5, KeepFlushes DEF TypeOK
<1>7. DestroyInv'
  <2>1. e \in Callers /\ e # Destructor /\ pc[e] \notin {"idle", "done"}
    BY DEF Callers, Flushing, EarlySteps
  <2>2. pc[Destructor] = "idle" BY <2>1, NotDestroyed
  <2>3. pc'[Destructor] = pc[Destructor] BY <1>1 DEF Flushing
  <2>4. QED BY <1>2, <2>2, <2>3, KeepDestroy
<1>8. QED BY <1>5, <1>6, <1>7

-----------------------------------------------------------------------------
(* The callers' common steps: blocking, waking up, cleaning up.            *)

\* Waiting steps of an Export: none of them changes what its result rests on.
LEMMA ExportWaits ==
  ASSUME OInv, NEW e \in Exports,
         \/ Block(e) \/ WaitTimeout(e)
         \/ Relock(e, "lock", "check") \/ Relock(e, "relock", "check")
         \/ Relock(e, "expired", "lastCheck")
  PROVE  OInv'
<1>1. PICK to \in {"waiting", "expired", "check", "lastCheck"} :
        /\ pc' = [pc EXCEPT ![e] = to]
        /\ pc[e] \in {"block", "waiting", "lock", "relock", "expired"}
        /\ wakerLock' \in Callers \union {Nobody}
        /\ UNCHANGED <<clientVars, managerLock, sweep, handlerVars, http, event, callVars>>
  BY DEF Block, WaitTimeout, Relock, Goto, OInv, TypeOK, Callers
<1>2. TypeOK /\ LockInv /\ SessionInv /\ SyncInv /\ SyncExportHonest BY DEF OInv
<1>3. /\ StepsOK' /\ pc'[e] = to /\ \A c \in Callers : c # e => pc'[c] = pc[c]
  BY <1>1, <1>2, MoveOn DEF ExportSteps, Callers
<1>4. TypeOK' BY <1>1, <1>2, <1>3 DEF TypeOK
<1>5. /\ SessionInv' /\ CounterInv' /\ FlushInv' /\ FlushHonest' /\ DestroyInv'
      /\ Added' = Added /\ Counted' = Counted /\ Released' = Released
  BY <1>1, ExportFrame DEF EarlySteps
<1>6. LockInv' BY <1>1, <1>2, <1>3, KeepLock DEF Callers
<1>7. e \in Added BY <1>1, <1>2 DEF Added, SessionInv
<1>8. SyncInv' BY <1>1, <1>2, <1>3, <1>5, <1>7 DEF SyncInv, Callers
<1>9. SyncExportHonest' BY <1>1, <1>2, <1>3 DEF SyncExportHonest, Callers
<1>10. EventInv' BY <1>1, <1>2, <1>3, KeepEvents DEF Callers, OInv
<1>11. QED BY <1>4, <1>5, <1>6, <1>8, <1>9, <1>10 DEF OInv

\* An Export that takes the list of cleanupGCSessions.
LEMMA ExportBeginCleanup ==
  ASSUME OInv, NEW e \in Exports, BeginCleanup(e, "sweep", "finish")
  PROVE  OInv'
<1>1. /\ pc' = [pc EXCEPT ![e] = "finish"] /\ pc[e] = "sweep"
      /\ managerLock = Nobody /\ managerLock' = e /\ sweep' = gc /\ gc' = {}
      /\ UNCHANGED <<isShutdown, running, started, finished, wakerLock, handlerVars, http, event,
                     callVars>>
  BY DEF BeginCleanup, Goto
<1>2. TypeOK /\ LockInv /\ SyncInv /\ SyncExportHonest /\ sweep = {} BY <1>1 DEF OInv, LockInv
<1>3. StepsOK' /\ pc'[e] = "finish" /\ \A c \in Callers : c # e => pc'[c] = pc[c]
  BY <1>1, <1>2, MoveOn DEF ExportSteps, Callers
<1>4. TypeOK' BY <1>1, <1>2, <1>3 DEF TypeOK, Callers
<1>5. /\ SessionInv' /\ CounterInv' /\ FlushInv' /\ FlushHonest' /\ DestroyInv'
      /\ Added' = Added /\ Counted' = Counted /\ Released' = Released
  BY <1>1, <1>2, ExportFrame DEF EarlySteps
<1>6. LockInv' BY <1>1, <1>2, <1>3, TakeLock DEF Callers
<1>7. SyncInv' BY <1>1, <1>2, <1>3, <1>5 DEF SyncInv, Callers
<1>8. SyncExportHonest' BY <1>1, <1>2, <1>3 DEF SyncExportHonest, Callers
<1>9. EventInv' BY <1>1, <1>2, <1>3, KeepEvents DEF Callers, OInv
<1>10. QED BY <1>4, <1>5, <1>6, <1>7, <1>8, <1>9 DEF OInv

\* FinishSession returns only for sessions that the HTTP client has let go of.
LEMMA SweepOver ==
  ASSUME \A s \in sweep : FinishReturns(s)
  PROVE  \A s \in sweep : http[s] \in Over
BY DEF FinishReturns, Over

\* ... and gives up the sessions in it, which the HTTP client has let go of.
LEMMA ExportEndCleanup ==
  ASSUME OInv, NEW e \in Exports, EndCleanup(e, "finish", "return")
  PROVE  OInv'
<1>1. /\ pc' = [pc EXCEPT ![e] = "return"] /\ pc[e] = "finish"
      /\ managerLock' = Nobody /\ sweep' = {} /\ \A s \in sweep : http[s] \in Over
      /\ UNCHANGED <<clientVars, wakerLock, handlerVars, http, event, callVars>>
  BY SweepOver DEF EndCleanup, Goto
<1>2. TypeOK /\ LockInv /\ SyncInv /\ SyncExportHonest BY DEF OInv
<1>3. StepsOK' /\ pc'[e] = "return" /\ \A c \in Callers : c # e => pc'[c] = pc[c]
  BY <1>1, <1>2, MoveOn DEF ExportSteps, Callers
<1>4. TypeOK' BY <1>1, <1>2, <1>3 DEF TypeOK, Callers
<1>5. /\ SessionInv' /\ CounterInv' /\ FlushInv' /\ FlushHonest' /\ DestroyInv'
      /\ Added' = Added /\ Counted' = Counted /\ Released' = Released
  BY <1>1, <1>2, ExportFrame DEF EarlySteps
<1>6. LockInv' BY <1>1, <1>2, <1>3, GiveLock DEF Callers
<1>7. SyncInv' BY <1>1, <1>2, <1>3, <1>5 DEF SyncInv, Callers
<1>8. SyncExportHonest' BY <1>1, <1>2, <1>3 DEF SyncExportHonest, Callers
<1>9. EventInv' BY <1>1, <1>2, <1>3, KeepEvents DEF Callers, OInv
<1>10. QED BY <1>4, <1>5, <1>6, <1>7, <1>8, <1>9 DEF OInv

-----------------------------------------------------------------------------
(* ForceFlush, Shutdown and the destructor.                                *)

\* What FlushInv and FlushHonest say of one caller.
FlushOf(c) ==
  /\ pc[c] = "idle" \/ (pc[c] \in {"flush"} \union FlushSteps /\ InFlush(c)) => result[c] = "none"
  /\ pc[c] \in FlushSteps /\ InFlush(c) =>
       before[c] \subseteq Counted /\ waitCounter[c] = Cardinality(before[c])
  /\ pc[c] = "flushResult" /\ c \in Patient \union {Destructor} => finished >= waitCounter[c]
  /\ result[c] = "ok" => before[c] \subseteq Released \/ \E e \in Released : e \notin before[c]
  /\ c \in Patient \union {Destructor} => result[c] # "fail"

LEMMA FlushParts == FlushInv /\ FlushHonest <=> \A c \in Flushing : FlushOf(c)
BY DEF FlushInv, FlushHonest, FlushOf

\* A step of a thread that flushes or shuts down: what is left to show of it.
LEMMA FlusherStep ==
  ASSUME OInv, NEW c \in Flushing, NEW to \in FlusherSteps(c), pc' = [pc EXCEPT ![c] = to],
         UNCHANGED <<running, started, finished, stopping, told, calls, event>>,
         StagesKept, http' \in [Exports -> Http!Stages],
         isShutdown' \in BOOLEAN, wakerLock' \in Callers \union {Nobody},
         managerLock' \in Callers \union {Nobody},
         gc' \union sweep' \subseteq gc \union sweep,
         \A e \in Exports : e \in (gc \union sweep) \ (gc' \union sweep') => http[e] \in Over,
         \A d \in Callers : d # c => result'[d] = result[d],
         result' \in [Callers -> {"none", "ok", "fail"}],
         \A d \in Flushing : d # c =>
           waitCounter'[d] = waitCounter[d] /\ before'[d] = before[d]
           /\ (d \in inShutdown' <=> d \in inShutdown),
         waitCounter' \in [Flushing -> Nat], before' \in [Flushing -> SUBSET Exports],
         inShutdown' \subseteq Flushing,
         LockInv', DestroyInv', FlushOf(c)'
  PROVE  OInv'
<1>1. TypeOK /\ FlushInv /\ FlushHonest BY DEF OInv
<1>2. c \in Callers /\ c \notin Exports BY DEF Callers
<1>3. /\ StepsOK' /\ \A d \in Flushing : d # c => pc'[d] = pc[d]
  BY <1>1, <1>2, MoveOn
<1>4. TypeOK' BY <1>1, <1>3 DEF TypeOK
<1>5. \A e \in Exports : result'[e] = result[e] BY <1>2 DEF Callers
<1>6. /\ SessionInv' /\ CounterInv' /\ EventInv' /\ SyncInv' /\ SyncExportHonest'
      /\ Added' = Added /\ Counted' = Counted /\ Released' = Released
  BY <1>5, FlusherFrame
<1>7. FlushInv' /\ FlushHonest'
  <2>1. ASSUME NEW d \in Flushing, d # c PROVE FlushOf(d)'
    <3>1. FlushOf(d) BY <1>1, FlushParts
    <3>2. /\ pc'[d] = pc[d] /\ result'[d] = result[d] /\ before'[d] = before[d]
          /\ waitCounter'[d] = waitCounter[d] /\ (InFlush(d)' <=> InFlush(d))
      BY <1>3, <2>1 DEF InFlush, Callers
    <3>3. QED BY <1>6, <3>1, <3>2 DEF FlushOf
  <2>2. (\A d \in Flushing : FlushOf(d))' BY <2>1
  <2>3. QED BY <2>2 DEF FlushInv, FlushHonest, FlushOf
<1>8. QED BY <1>4, <1>6, <1>7 DEF OInv

\* A step of a caller that has begun, and what it has to show of the destructor.
LEMMA DestroyMoves ==
  ASSUME OInv, NEW c \in Flushing, NEW to, pc' = [pc EXCEPT ![c] = to],
         pc[c] \notin {"idle", "done"}, UNCHANGED <<running, inShutdown>>,
         c = Destructor =>
           /\ to \in {"flush", "flushCheck", "woken", "flushResult"} \union ShutdownSteps
                => Destructor \in inShutdown
           /\ to \in DrainSteps \union {"idle", "done"} => Destructor \notin inShutdown
           /\ to \in {"last", "lastFinish", "destroyed", "done"} => running = {}
           /\ to \in {"destroyed", "done"} => gc' = {} /\ sweep' = {}
  PROVE  DestroyInv'
<1>1. /\ DestroyInv /\ c \in Callers /\ Destructor \in Callers
      /\ pc'[c] = to /\ \A d \in Callers : d # c => pc'[d] = pc[d]
  BY DEF OInv, TypeOK, StepsOK, Callers, Flushing
<1>2. CASE c = Destructor
  <2>1. \A d \in Callers \ {Destructor} : pc'[d] \in {"idle", "done"}
    BY <1>1, <1>2 DEF DestroyInv
  <2>2. QED BY <1>1, <1>2, <2>1 DEF DestroyInv
<1>3. CASE c # Destructor
  <2>1. pc[Destructor] = "idle" /\ Destructor \notin inShutdown BY <1>1, <1>3, NotDestroyed
  <2>2. pc'[Destructor] = "idle" BY <1>1, <1>3, <2>1
  <2>3. QED BY <2>1, <2>2 DEF DestroyInv, ShutdownSteps, DrainSteps
<1>4. QED BY <1>2, <1>3

\* A step that changes nothing that anybody else can see but who holds a mutex.
LEMMA QuietStep ==
  ASSUME OInv, NEW c \in Flushing, NEW to \in FlusherSteps(c), pc' = [pc EXCEPT ![c] = to],
         UNCHANGED <<clientVars, managerLock, sweep, handlerVars, http, event, callVars>>,
         wakerLock' \in Callers \union {Nobody},
         to \notin {"finish", "cleaning", "lastFinish"}, DestroyInv', FlushOf(c)'
  PROVE  OInv'
<1>1. TypeOK /\ LockInv BY DEF OInv
<1>2. LockInv'
  <2>1. \A d \in Callers : d # c => pc'[d] = pc[d] BY <1>1 DEF TypeOK, StepsOK
  <2>2. pc'[c] = to BY <1>1 DEF TypeOK, StepsOK, Callers
  <2>3. QED BY <1>1, <2>1, <2>2, KeepLock
<1>3. StagesKept BY DEF StagesKept
<1>4. /\ http' \in [Exports -> Http!Stages] /\ isShutdown' \in BOOLEAN
      /\ managerLock' \in Callers \union {Nobody} /\ result' \in [Callers -> {"none", "ok", "fail"}]
      /\ waitCounter' \in [Flushing -> Nat] /\ before' \in [Flushing -> SUBSET Exports]
      /\ inShutdown' \subseteq Flushing
  BY <1>1 DEF TypeOK
<1>5. QED BY <1>2, <1>3, <1>4, FlusherStep

\* The sets of sessions do not depend on the steps of a flush.
LEMMA FlusherMove ==
  ASSUME OInv, NEW c \in Flushing, NEW to, pc' = [pc EXCEPT ![c] = to],
         UNCHANGED <<running, http>>
  PROVE  pc'[c] = to /\ Counted' = Counted /\ Released' = Released /\ FlushOf(c)
<1>1. \A e \in Exports : pc'[e] = pc[e] BY DEF OInv, TypeOK, StepsOK, Callers
<1>2. pc'[c] = to BY DEF OInv, TypeOK, StepsOK, Callers
<1>3. FlushOf(c) BY FlushParts DEF OInv
<1>4. QED BY <1>1, <1>2, <1>3 DEF Counted, Released

\* Waiting steps of a flush, and of the destructor's own loop.
LEMMA FlusherWaits ==
  ASSUME OInv, NEW c \in Flushing,
         \/ Block(c) \/ WaitTimeout(c) \/ Relock(c, "expired", "clean")
         \/ InFlush(c) /\ Relock(c, "relock", "woken")
  PROVE  OInv'
<1>1. PICK to \in {"waiting", "expired", "clean", "woken"} :
        /\ pc' = [pc EXCEPT ![c] = to] /\ pc[c] \in {"block", "waiting", "expired", "relock"}
        /\ wakerLock' \in Callers \union {Nobody} /\ (to = "woken" => InFlush(c))
        /\ UNCHANGED <<clientVars, managerLock, sweep, handlerVars, http, event, callVars>>
  BY DEF Block, WaitTimeout, Relock, Goto, OInv, TypeOK, Callers
<1>2. pc'[c] = to /\ Counted' = Counted /\ Released' = Released /\ FlushOf(c)
  BY <1>1, FlusherMove
<1>3. FlushOf(c)' BY <1>1, <1>2 DEF FlushOf, FlushSteps, InFlush
<1>4. DestroyInv'
  BY <1>1, DestroyMoves DEF ShutdownSteps, DrainSteps, InFlush
<1>5. to \in FlusherSteps(c) BY <1>1 DEF FlusherSteps, FlushSteps
<1>6. QED BY <1>1, <1>3, <1>4, <1>5, QuietStep

\* A flush is in ForceFlush unless it is the destructor's own loop.
LEMMA Flushes ==
  ASSUME OInv, NEW c \in Flushing, pc[c] \in {"flush", "flushCheck", "woken", "flushResult"}
  PROVE  InFlush(c)
BY DEF OInv, DestroyInv, InFlush

\* All that was counted has finished when nothing is running.
LEMMA FlushCheckOInv ==
  ASSUME OInv, NEW c \in Flushing, FlushCheck(c)
  PROVE  OInv'
<1>1. PICK to \in {"flushResult", "block"} :
        /\ pc' = [pc EXCEPT ![c] = to] /\ pc[c] = "flushCheck"
        /\ to = "flushResult" => running = {}
        /\ UNCHANGED <<clientVars, lockVars, handlerVars, http, event, callVars>>
  BY DEF FlushCheck, Goto
<1>2. pc'[c] = to /\ Counted' = Counted /\ Released' = Released /\ FlushOf(c) /\ InFlush(c)
  BY <1>1, FlusherMove, Flushes
<1>3. /\ result[c] = "none" /\ before[c] \in SUBSET Counted
      /\ waitCounter[c] = Cardinality(before[c])
  BY <1>1, <1>2 DEF FlushOf, FlushSteps
<1>4. to = "flushResult" => finished >= waitCounter[c]
  <2>1. SUFFICES ASSUME running = {} PROVE finished >= waitCounter[c] BY <1>1
  <2>2. Released = Added BY <2>1, SessionSets
  <2>3. before[c] \in SUBSET Released /\ Released \in SUBSET Exports
    BY <1>3, <2>2, SessionSets
  <2>4. Cardinality(before[c]) <= Cardinality(Released) BY <2>3, LargerSet
  <2>5. /\ finished = Cardinality(Released) /\ finished \in Nat /\ waitCounter[c] \in Nat
    BY DEF OInv, CounterInv, TypeOK
  <2>6. QED BY <1>3, <2>4, <2>5
<1>5. FlushOf(c)' BY <1>1, <1>2, <1>3, <1>4 DEF FlushOf, InFlush
<1>6. DestroyInv'
  BY <1>1, <1>2, DestroyMoves DEF ShutdownSteps, DrainSteps, InFlush
<1>7. to \in FlusherSteps(c) /\ wakerLock' \in Callers \union {Nobody}
  BY <1>1 DEF FlusherSteps, FlushSteps, OInv, TypeOK
<1>8. QED BY <1>1, <1>5, <1>6, <1>7, QuietStep

LEMMA FlushWokenOInv ==
  ASSUME OInv, NEW c \in Flushing, FlushWoken(c)
  PROVE  OInv'
<1>1. PICK to \in {"flushResult", "flushCheck"} :
        /\ pc' = [pc EXCEPT ![c] = to] /\ pc[c] = "woken"
        /\ to = "flushResult" /\ c \in Patient \union {Destructor} => finished >= waitCounter[c]
        /\ UNCHANGED <<clientVars, lockVars, handlerVars, http, event, callVars>>
  BY DEF FlushWoken, LoopHeads, Goto
<1>2. pc'[c] = to /\ Counted' = Counted /\ Released' = Released /\ FlushOf(c) /\ InFlush(c)
  BY <1>1, FlusherMove, Flushes
<1>3. FlushOf(c)' BY <1>1, <1>2 DEF FlushOf, FlushSteps, InFlush
<1>4. DestroyInv'
  BY <1>1, <1>2, DestroyMoves DEF ShutdownSteps, DrainSteps, InFlush
<1>5. to \in FlusherSteps(c) /\ wakerLock' \in Callers \union {Nobody}
  BY <1>1 DEF FlusherSteps, FlushSteps, OInv, TypeOK
<1>6. QED BY <1>1, <1>3, <1>4, <1>5, QuietStep

\* The destructor's own loop.
LEMMA DrainWaits ==
  ASSUME OInv, NEW d, d = Destructor,
         \/ Relock(d, "drain", "drainCheck") \/ DrainCheck \/ DestroyReturn
         \/ ~InFlush(d) /\ Relock(d, "relock", "drainCheck")
  PROVE  OInv'
<1>1. PICK to \in {"drainCheck", "last", "block", "done"} :
        /\ pc' = [pc EXCEPT ![d] = to]
        /\ pc[d] \in {"drain", "drainCheck", "destroyed"} \/ (pc[d] = "relock" /\ ~InFlush(d))
        /\ to = "last" => running = {}
        /\ to = "done" => pc[d] = "destroyed"
        /\ wakerLock' \in Callers \union {Nobody}
        /\ UNCHANGED <<clientVars, managerLock, sweep, handlerVars, http, event, callVars>>
  BY DEF Relock, DrainCheck, DestroyReturn, Unlock, Goto, OInv, TypeOK, Callers, Flushing
<1>2. d \in Flushing BY DEF Flushing
<1>3. d \notin inShutdown /\ (to = "done" => running = {} /\ gc = {} /\ sweep = {})
  BY <1>1 DEF OInv, DestroyInv, InFlush, DrainSteps
<1>4. pc'[d] = to /\ Counted' = Counted /\ Released' = Released /\ FlushOf(d)
  BY <1>1, <1>2, FlusherMove
<1>5. FlushOf(d)' BY <1>1, <1>3, <1>4 DEF FlushOf, FlushSteps, InFlush
<1>6. DestroyInv'
  BY <1>1, <1>2, <1>3, DestroyMoves DEF ShutdownSteps, DrainSteps
<1>7. to \in FlusherSteps(d) BY <1>1 DEF FlusherSteps, FlushSteps, DrainSteps
<1>8. QED BY <1>1, <1>2, <1>5, <1>6, <1>7, QuietStep

\* cleanupGCSessions, on a thread that flushes or shuts down: the steps that
\* change the lists, and what the caller has to show of where it goes.
LEMMA CleanupStep ==
  ASSUME OInv, NEW c \in Flushing, NEW to \in FlusherSteps(c), pc' = [pc EXCEPT ![c] = to],
         UNCHANGED <<isShutdown, running, started, finished, wakerLock, handlerVars, http, event,
                     callVars>>,
         managerLock' \in Callers \union {Nobody}, gc' \union sweep' \subseteq gc \union sweep,
         \A e \in Exports : e \in (gc \union sweep) \ (gc' \union sweep') => http[e] \in Over,
         LockInv', DestroyInv', FlushOf(c)'
  PROVE  OInv'
<1>1. StagesKept BY DEF StagesKept
<1>2. /\ http' \in [Exports -> Http!Stages] /\ isShutdown' \in BOOLEAN
      /\ wakerLock' \in Callers \union {Nobody} /\ result' \in [Callers -> {"none", "ok", "fail"}]
      /\ waitCounter' \in [Flushing -> Nat] /\ before' \in [Flushing -> SUBSET Exports]
      /\ inShutdown' \subseteq Flushing
  BY DEF OInv, TypeOK
<1>3. QED BY <1>1, <1>2, FlusherStep

LEMMA FlusherBeginCleanup ==
  ASSUME OInv, NEW c \in Flushing,
         \/ BeginCleanup(c, "clean", "cleaning") \/ BeginCleanup(c, "sweep", "finish")
         \/ c = Destructor /\ BeginCleanup(c, "last", "lastFinish")
  PROVE  OInv'
<1>1. PICK to \in {"cleaning", "finish", "lastFinish"} :
        /\ pc' = [pc EXCEPT ![c] = to]
        /\ to = "cleaning" => pc[c] = "clean"
        /\ to = "finish" => pc[c] = "sweep"
        /\ to = "lastFinish" => pc[c] = "last" /\ c = Destructor
        /\ managerLock = Nobody /\ managerLock' = c /\ sweep' = gc /\ gc' = {}
        /\ UNCHANGED <<isShutdown, running, started, finished, wakerLock, handlerVars, http,
                       event, callVars>>
  BY DEF BeginCleanup, Goto
<1>2. TypeOK /\ LockInv /\ DestroyInv /\ sweep = {} /\ c \in Callers
  BY <1>1 DEF OInv, LockInv, Callers
<1>3. pc'[c] = to /\ Counted' = Counted /\ Released' = Released /\ FlushOf(c)
  BY <1>1, FlusherMove
<1>4. to \in FlusherSteps(c)
  BY <1>1 DEF FlusherSteps, FlushSteps, ShutdownSteps, DrainSteps
<1>5. LockInv'
  <2>1. \A d \in Callers : d # c => pc'[d] = pc[d] BY <1>1, <1>2 DEF TypeOK, StepsOK
  <2>2. QED BY <1>1, <1>2, <2>1, TakeLock
<1>6. FlushOf(c)' BY <1>1, <1>3 DEF FlushOf, FlushSteps, InFlush
<1>7. DestroyInv'
  BY <1>1, <1>2, DestroyMoves DEF ShutdownSteps, DrainSteps, DestroyInv
<1>8. QED BY <1>1, <1>2, <1>4, <1>5, <1>6, <1>7, CleanupStep

\* Nothing is added to gc_sessions_ while cleanupGCSessions holds the mutex,
\* so that neither Shutdown nor the destructor flushes a second time.
LEMMA FlusherEndCleanup ==
  ASSUME OInv, NEW c \in Flushing,
         \/ InFlush(c) /\ \E head \in LoopHeads(c) : EndCleanup(c, "cleaning", head)
         \/ EndCleanup(c, "finish", IF gc # {} THEN "flush" ELSE "return")
         \/ /\ c = Destructor
            /\ \/ ~InFlush(c) /\ EndCleanup(c, "cleaning", "drainCheck")
               \/ EndCleanup(c, "lastFinish", IF gc # {} THEN "last" ELSE "destroyed")
  PROVE  OInv'
<1>1. TypeOK /\ LockInv /\ DestroyInv /\ c \in Callers BY DEF OInv, Callers
<1>2. pc[c] \in {"cleaning", "finish", "lastFinish"} BY DEF EndCleanup, Goto
<1>3. gc = {}
  <2>1. managerLock = c /\ c # Nobody BY <1>1, <1>2 DEF LockInv
  <2>2. QED BY <1>1, <2>1 DEF LockInv
<1>4. /\ managerLock' = Nobody /\ sweep' = {} /\ \A s \in sweep : http[s] \in Over
      /\ UNCHANGED <<clientVars, wakerLock, handlerVars, http, event, callVars>>
  BY SweepOver DEF EndCleanup
<1>5. PICK to \in {"flushCheck", "flushResult", "return", "drainCheck", "destroyed"} :
        /\ pc' = [pc EXCEPT ![c] = to]
        /\ to \in {"flushCheck", "flushResult"} => pc[c] = "cleaning" /\ InFlush(c)
        /\ to = "flushResult" => c \notin Patient \union {Destructor}
        /\ to = "return" => pc[c] = "finish"
        /\ to = "drainCheck" => c = Destructor /\ pc[c] = "cleaning" /\ ~InFlush(c)
        /\ to = "destroyed" => c = Destructor /\ pc[c] = "lastFinish"
  BY <1>3 DEF EndCleanup, Goto, LoopHeads
<1>6. pc'[c] = to /\ Counted' = Counted /\ Released' = Released /\ FlushOf(c)
  BY <1>4, <1>5, FlusherMove
<1>7. to \in FlusherSteps(c)
  BY <1>5 DEF FlusherSteps, FlushSteps, ShutdownSteps, DrainSteps
<1>8. LockInv'
  <2>1. \A d \in Callers : d # c => pc'[d] = pc[d] BY <1>1, <1>5 DEF TypeOK, StepsOK
  <2>2. QED BY <1>1, <1>2, <1>4, <1>5, <1>6, <2>1, GiveLock
<1>9. FlushOf(c)' BY <1>4, <1>5, <1>6 DEF FlushOf, FlushSteps, InFlush
<1>10. DestroyInv'
  <2>1. c = Destructor =>
          /\ to \in {"flush", "flushCheck", "woken", "flushResult"} \union ShutdownSteps
               => Destructor \in inShutdown
          /\ to \in DrainSteps \union {"idle", "done"} => Destructor \notin inShutdown
          /\ to \in {"last", "lastFinish", "destroyed", "done"} => running = {}
    BY <1>1, <1>5 DEF DestroyInv, InFlush, ShutdownSteps, DrainSteps
  <2>2. QED BY <1>2, <1>3, <1>4, <1>5, <2>1, DestroyMoves
<1>11. QED BY <1>3, <1>4, <1>5, <1>7, <1>8, <1>9, <1>10, CleanupStep

\* A step that changes a caller's own locals and leaves the client alone.
LEMMA LocalStep ==
  ASSUME OInv, NEW c \in Flushing, NEW to \in FlusherSteps(c), pc' = [pc EXCEPT ![c] = to],
         UNCHANGED <<running, gc, started, finished, managerLock, sweep, handlerVars, http, event>>,
         isShutdown' \in BOOLEAN, wakerLock' \in Callers \union {Nobody},
         to \notin {"finish", "cleaning", "lastFinish"},
         \A d \in Callers : d # c => result'[d] = result[d],
         result' \in [Callers -> {"none", "ok", "fail"}],
         \A d \in Flushing : d # c =>
           waitCounter'[d] = waitCounter[d] /\ before'[d] = before[d]
           /\ (d \in inShutdown' <=> d \in inShutdown),
         waitCounter' \in [Flushing -> Nat], before' \in [Flushing -> SUBSET Exports],
         inShutdown' \subseteq Flushing, DestroyInv', FlushOf(c)'
  PROVE  OInv'
<1>1. TypeOK /\ LockInv BY DEF OInv
<1>2. LockInv'
  <2>1. \A d \in Callers : d # c => pc'[d] = pc[d] BY <1>1 DEF TypeOK, StepsOK
  <2>2. pc'[c] = to BY <1>1 DEF TypeOK, StepsOK, Callers
  <2>3. QED BY <1>1, <2>1, <2>2, KeepLock
<1>3. StagesKept BY DEF StagesKept
<1>4. http' \in [Exports -> Http!Stages] /\ managerLock' \in Callers \union {Nobody}
  BY <1>1 DEF TypeOK
<1>5. QED BY <1>2, <1>3, <1>4, FlusherStep

\* A flush begins with the sessions that have been counted.
LEMMA FlushStartOInv ==
  ASSUME OInv, NEW c \in Flushing, FlushStart(c)
  PROVE  OInv'
<1>1. /\ pc' = [pc EXCEPT ![c] = "flushCheck"] /\ pc[c] = "flush" /\ wakerLock' = c
      /\ waitCounter' = [waitCounter EXCEPT ![c] = started]
      /\ before' = [before EXCEPT ![c] = Counted]
      /\ UNCHANGED <<clientVars, managerLock, sweep, handlerVars, http, event, result, inShutdown>>
  BY DEF FlushStart, Goto
<1>2. TypeOK /\ CounterInv BY DEF OInv
<1>3. /\ pc'[c] = "flushCheck" /\ Counted' = Counted /\ Released' = Released /\ FlushOf(c)
      /\ InFlush(c)
  BY <1>1, FlusherMove, Flushes
<1>4. /\ waitCounter'[c] = Cardinality(Counted) /\ before'[c] = Counted /\ result'[c] = "none"
      /\ waitCounter' \in [Flushing -> Nat] /\ before' \in [Flushing -> SUBSET Exports]
      /\ \A d \in Flushing : d # c => waitCounter'[d] = waitCounter[d] /\ before'[d] = before[d]
  <2>1. result[c] = "none" BY <1>1, <1>3 DEF FlushOf
  <2>2. QED BY <1>1, <1>2, <2>1, SessionSets DEF TypeOK, CounterInv
<1>5. FlushOf(c)' BY <1>1, <1>3, <1>4 DEF FlushOf, FlushSteps, InFlush
<1>6. DestroyInv'
  BY <1>1, <1>3, DestroyMoves DEF ShutdownSteps, DrainSteps, InFlush
<1>7. /\ "flushCheck" \in FlusherSteps(c) /\ wakerLock' \in Callers \union {Nobody}
      /\ isShutdown' \in BOOLEAN /\ inShutdown' \subseteq Flushing
      /\ result' \in [Callers -> {"none", "ok", "fail"}]
  BY <1>1, <1>2 DEF FlusherSteps, FlushSteps, TypeOK, Callers
<1>8. QED BY <1>1, <1>4, <1>5, <1>6, <1>7, LocalStep

\* As many sessions have finished as were counted when the flush began: these
\* very ones, or one that was not among them.
LEMMA FlushResultOInv ==
  ASSUME OInv, NEW c \in Flushing, FlushResult(c)
  PROVE  OInv'
<1>1. PICK to \in {"cancel", "done"} :
        /\ pc' = [pc EXCEPT ![c] = to] /\ pc[c] = "flushResult" /\ wakerLock' = Nobody
        /\ to = "done" <=> c \notin inShutdown
        /\ result' = [result EXCEPT ![c] = IF finished >= waitCounter[c] THEN "ok" ELSE "fail"]
        /\ waitCounter' = [waitCounter EXCEPT ![c] = 0]
        /\ UNCHANGED <<clientVars, managerLock, sweep, handlerVars, http, event,
                       inShutdown, before>>
  BY DEF FlushResult, Unlock
<1>2. TypeOK /\ CounterInv /\ c \in Callers BY DEF OInv, Callers
<1>3. pc'[c] = to /\ Counted' = Counted /\ Released' = Released /\ FlushOf(c) /\ InFlush(c)
  BY <1>1, FlusherMove, Flushes
<1>4. /\ result'[c] = IF finished >= waitCounter[c] THEN "ok" ELSE "fail"
      /\ waitCounter' \in [Flushing -> Nat] /\ before' \in [Flushing -> SUBSET Exports]
      /\ result' \in [Callers -> {"none", "ok", "fail"}]
      /\ \A d \in Flushing : d # c => waitCounter'[d] = waitCounter[d]
      /\ \A d \in Callers : d # c => result'[d] = result[d]
  BY <1>1, <1>2 DEF TypeOK
<1>5. finished >= waitCounter[c] =>
        before[c] \subseteq Released \/ \E e \in Released : e \notin before[c]
  <2>1. /\ before[c] \in SUBSET Exports /\ waitCounter[c] = Cardinality(before[c])
        /\ finished = Cardinality(Released)
    BY <1>1, <1>2, <1>3 DEF FlushOf, FlushSteps, TypeOK, CounterInv
  <2>2. SUFFICES ASSUME finished >= waitCounter[c], \A e \in Released : e \in before[c]
                 PROVE  before[c] \subseteq Released
    OBVIOUS
  <2>3. Released \in SUBSET before[c] BY <2>2
  <2>4. Cardinality(Released) >= Cardinality(before[c]) BY <2>1, <2>2
  <2>5. Released = before[c] BY <2>1, <2>3, <2>4, LargerSet
  <2>6. QED BY <2>5
<1>6. FlushOf(c)'
  BY <1>1, <1>3, <1>4, <1>5 DEF FlushOf, FlushSteps
<1>7. DestroyInv'
  <2>1. c = Destructor => to = "cancel" /\ Destructor \in inShutdown BY <1>1, <1>3 DEF InFlush
  <2>2. QED BY <1>1, <2>1, DestroyMoves DEF DrainSteps
<1>8. /\ to \in FlusherSteps(c) /\ wakerLock' \in Callers \union {Nobody}
      /\ isShutdown' \in BOOLEAN /\ inShutdown' \subseteq Flushing
  BY <1>1, <1>2 DEF FlusherSteps, ShutdownSteps, TypeOK
<1>9. QED BY <1>1, <1>4, <1>6, <1>7, <1>8, LocalStep

\* ForceFlush and Shutdown are called on a client that is not being destroyed.
LEMMA CallOInv ==
  ASSUME OInv, NEW u \in Users, CallForceFlush(u) \/ CallShutdown(u)
  PROVE  OInv'
<1>1. /\ pc' = [pc EXCEPT ![u] = "flush"] /\ pc[u] = "idle" /\ pc[Destructor] = "idle"
      /\ isShutdown' \in BOOLEAN
      /\ inShutdown' = inShutdown \/ inShutdown' = inShutdown \union {u}
      /\ UNCHANGED <<running, gc, started, finished, lockVars, handlerVars, http, event,
                     waitCounter, result, before>>
  BY DEF CallForceFlush, CallShutdown, Goto, Callable, OInv, TypeOK
<1>2. TypeOK /\ DestroyInv /\ u \in Flushing /\ u # Destructor BY DEF OInv, Flushing
<1>3. pc'[u] = "flush" /\ Counted' = Counted /\ Released' = Released /\ FlushOf(u)
  BY <1>1, <1>2, FlusherMove
<1>4. FlushOf(u)' BY <1>1, <1>2, <1>3 DEF FlushOf, FlushSteps
<1>5. DestroyInv'
  <2>1. pc'[Destructor] = "idle" /\ Destructor \notin inShutdown'
    BY <1>1, <1>2 DEF DestroyInv, TypeOK, StepsOK, Callers, Flushing
  <2>2. QED BY <2>1 DEF DestroyInv, ShutdownSteps, DrainSteps
<1>6. /\ "flush" \in FlusherSteps(u) /\ wakerLock' \in Callers \union {Nobody}
      /\ result' \in [Callers -> {"none", "ok", "fail"}]
      /\ waitCounter' \in [Flushing -> Nat] /\ before' \in [Flushing -> SUBSET Exports]
      /\ inShutdown' \subseteq Flushing
      /\ \A d \in Flushing : d # u => (d \in inShutdown' <=> d \in inShutdown)
  BY <1>1, <1>2 DEF FlusherSteps, TypeOK
<1>7. QED BY <1>1, <1>2, <1>4, <1>5, <1>6, LocalStep

LEMMA ShutdownReturnOInv ==
  ASSUME OInv, NEW c \in Flushing, ShutdownReturn(c)
  PROVE  OInv'
<1>1. PICK to \in {"drain", "done"} :
        /\ pc' = [pc EXCEPT ![c] = to] /\ pc[c] = "return"
        /\ to = "drain" <=> c = Destructor
        /\ inShutdown' = inShutdown \ {c}
        /\ UNCHANGED <<clientVars, lockVars, handlerVars, http, event, waitCounter, result, before>>
  BY DEF ShutdownReturn, Goto
<1>2. TypeOK /\ DestroyInv /\ c \in Callers BY DEF OInv, Callers
<1>3. pc'[c] = to /\ Counted' = Counted /\ Released' = Released /\ FlushOf(c)
  BY <1>1, FlusherMove
<1>4. FlushOf(c)' BY <1>1, <1>3 DEF FlushOf, FlushSteps
<1>5. DestroyInv'
  <2>1. \A d \in Callers : d # c => pc'[d] = pc[d] BY <1>1, <1>2 DEF TypeOK, StepsOK
  <2>2. CASE c = Destructor
    BY <1>1, <1>2, <1>3, <2>1, <2>2 DEF DestroyInv, ShutdownSteps
  <2>3. CASE c # Destructor
    <3>1. pc[Destructor] = "idle" /\ Destructor \notin inShutdown
      BY <1>1, <1>2, <2>3, NotDestroyed
    <3>2. pc'[Destructor] = "idle" /\ Destructor \notin inShutdown'
      BY <1>1, <2>1, <2>3, <3>1 DEF Callers, Flushing
    <3>3. QED BY <3>2 DEF DestroyInv, ShutdownSteps, DrainSteps
  <2>4. QED BY <2>2, <2>3
<1>6. /\ to \in FlusherSteps(c) /\ wakerLock' \in Callers \union {Nobody}
      /\ isShutdown' \in BOOLEAN /\ inShutdown' \subseteq Flushing
      /\ result' \in [Callers -> {"none", "ok", "fail"}]
      /\ waitCounter' \in [Flushing -> Nat] /\ before' \in [Flushing -> SUBSET Exports]
      /\ \A d \in Flushing : d # c => (d \in inShutdown' <=> d \in inShutdown)
  BY <1>1, <1>2 DEF FlusherSteps, DrainSteps, TypeOK
<1>7. QED BY <1>1, <1>4, <1>5, <1>6, LocalStep

\* The destructor begins when every call has returned.
LEMMA DestroyStartOInv ==
  ASSUME OInv, DestroyStart
  PROVE  OInv'
<1> DEFINE d == Destructor
<1>1. PICK to \in {"drain", "flush"} :
        /\ pc' = [pc EXCEPT ![d] = to] /\ pc[d] = "idle"
        /\ \A c \in Callers \ {d} : pc[c] \in {"idle", "done"}
        /\ isShutdown' \in BOOLEAN
        /\ to = "drain" => inShutdown' = inShutdown
        /\ to = "flush" => inShutdown' = inShutdown \union {d}
        /\ UNCHANGED <<running, gc, started, finished, lockVars, handlerVars, http, event,
                       waitCounter, result, before>>
  BY DEF DestroyStart, Goto
<1>2. TypeOK /\ DestroyInv /\ d \in Flushing /\ d \in Callers BY DEF OInv, Flushing, Callers
<1>3. pc'[d] = to /\ Counted' = Counted /\ Released' = Released /\ FlushOf(d)
  BY <1>1, <1>2, FlusherMove
<1>4. FlushOf(d)' BY <1>1, <1>3 DEF FlushOf, FlushSteps
<1>5. DestroyInv'
  <2>1. \A c \in Callers : c # d => pc'[c] = pc[c] BY <1>1, <1>2 DEF TypeOK, StepsOK
  <2>2. QED BY <1>1, <1>2, <1>3, <2>1 DEF DestroyInv, ShutdownSteps, DrainSteps
<1>6. /\ to \in FlusherSteps(d) /\ wakerLock' \in Callers \union {Nobody}
      /\ inShutdown' \subseteq Flushing
      /\ result' \in [Callers -> {"none", "ok", "fail"}]
      /\ waitCounter' \in [Flushing -> Nat] /\ before' \in [Flushing -> SUBSET Exports]
      /\ \A c \in Flushing : c # d => (c \in inShutdown' <=> c \in inShutdown)
  BY <1>1, <1>2 DEF FlusherSteps, DrainSteps, TypeOK
<1>7. QED BY <1>1, <1>2, <1>4, <1>5, <1>6, LocalStep

\* A cancelled session that was not handed over is forgotten, and stays in
\* running_sessions_; one that was still reports, or is left behind.
LEMMA CancelOInv ==
  ASSUME OInv, NEW c \in Flushing, CancelAllSessions(c)
  PROVE  OInv'
<1>1. /\ pc' = [pc EXCEPT ![c] = "sweep"] /\ pc[c] = "cancel" /\ managerLock = Nobody
      /\ UNCHANGED <<clientVars, lockVars, handlerVars, event, callVars>>
  BY DEF CancelAllSessions, Goto
<1>2. TypeOK /\ LockInv /\ DestroyInv /\ c \in Callers BY DEF OInv, Callers
<1>3. PICK known \in SUBSET Exports :
        http' = [s \in Exports |->
                   CASE s \in Exports /\ http[s] = "created" -> "dropped"
                     [] s \in Exports /\ http[s] = "sending" ->
                          IF s \in known THEN "aborting" ELSE "dropped"
                     [] s \in Exports /\ http[s] = "sent" ->
                          IF s \in known THEN "flagged" ELSE "left"
                     [] OTHER -> http[s]]
  BY DEF CancelAllSessions, Http!Cancel
<1>4. \A s \in Exports :
        \/ http'[s] = http[s]
        \/ http[s] = "created" /\ http'[s] = "dropped"
        \/ http[s] = "sending" /\ http'[s] \in {"aborting", "dropped"}
        \/ http[s] = "sent" /\ http'[s] \in {"flagged", "left"}
  BY <1>3
<1>5. StagesKept BY <1>4 DEF StagesKept, Over, Told, Early
<1>6. http' \in [Exports -> Http!Stages]
  <2>1. \A s \in Exports : http'[s] \in Http!Stages BY <1>2, <1>4 DEF TypeOK, Http!Stages
  <2>2. QED BY <1>3, <2>1
<1>7. Counted' = Counted /\ Released' = Released /\ FlushOf(c) /\ pc'[c] = "sweep"
      /\ \A d \in Callers : d # c => pc'[d] = pc[d]
  <2>1. pc'[c] = "sweep" /\ \A d \in Callers : d # c => pc'[d] = pc[d]
    BY <1>1, <1>2 DEF TypeOK, StepsOK
  <2>2. \A e \in Exports : pc'[e] = pc[e] BY <2>1 DEF Callers
  <2>3. FlushOf(c) BY FlushParts DEF OInv
  <2>4. QED BY <1>1, <1>5, <2>1, <2>2, <2>3 DEF Counted, Released, StagesKept
<1>8. FlushOf(c)' BY <1>1, <1>7 DEF FlushOf, FlushSteps
<1>9. DestroyInv'
  BY <1>1, <1>2, DestroyMoves DEF DestroyInv, ShutdownSteps, DrainSteps
<1>10. LockInv'
  <2>1. ASSUME NEW d \in Callers, pc'[d] \in {"finish", "cleaning", "lastFinish"}
        PROVE  pc'[d] = pc[d]
    BY <1>7, <2>1
  <2>2. QED BY <1>1, <1>2, <2>1, KeepLock
<1>11. /\ "sweep" \in FlusherSteps(c) /\ isShutdown' \in BOOLEAN
       /\ wakerLock' \in Callers \union {Nobody} /\ managerLock' \in Callers \union {Nobody}
       /\ result' \in [Callers -> {"none", "ok", "fail"}]
       /\ waitCounter' \in [Flushing -> Nat] /\ before' \in [Flushing -> SUBSET Exports]
       /\ inShutdown' \subseteq Flushing
  BY <1>1, <1>2 DEF TypeOK, FlusherSteps, ShutdownSteps
<1>12. QED BY <1>1, <1>5, <1>6, <1>8, <1>9, <1>10, <1>11, FlusherStep

\* Every step of ForceFlush and Shutdown, and of the destructor.
LEMMA ShutdownOInv ==
  ASSUME OInv, NEW c \in Flushing, Shutdown(c)
  PROVE  OInv'
BY FlushStartOInv, FlushCheckOInv, FlushWokenOInv, FlushResultOInv, FlusherWaits,
   FlusherBeginCleanup, FlusherEndCleanup, CancelOInv, ShutdownReturnOInv
   DEF Shutdown, ForceFlush

LEMMA DestroyOInv ==
  ASSUME OInv, Destroy
  PROVE  OInv'
<1>1. Destructor \in Flushing BY DEF Flushing
<1>2. QED BY <1>1, ShutdownOInv, DrainWaits, FlusherBeginCleanup, FlusherEndCleanup DEF Destroy

-----------------------------------------------------------------------------
(* The ResponseHandler and the background thread.                          *)

\* An event that is being delivered goes on to its next step.
LEMMA EventStep ==
  ASSUME TypeOK, NEW t \in Threads, event[t].step # "none",
         NEW x \in {"handle", "release", "over", "again", "last"},
         \/ event' = [event EXCEPT ![t].step = x, ![t].outcome = "fail"]
         \/ event' = [event EXCEPT ![t].step = x]
  PROVE  /\ event' \in [Threads -> Deliveries \union {NoEvent}]
         /\ event[t] # NoEvent /\ event[t].session \in Exports
         /\ event'[t].session = event[t].session /\ event'[t].step = x /\ event'[t] # NoEvent
         /\ \A u \in Threads : u # t => event'[u] = event[u]
<1>1. event \in [Threads -> Deliveries \union {NoEvent}] BY DEF TypeOK, Threads
<1>2. event[t] # NoEvent BY DEF NoEvent
<1>3. event[t] \in Deliveries BY <1>1, <1>2
<1>4. PICK r \in Deliveries : /\ event' = [event EXCEPT ![t] = r]
                              /\ r.session = event[t].session /\ r.step = x
  <2>1. event[t].session \in Exports /\ event[t].outcome \in {"ok", "fail"}
    BY <1>3 DEF Deliveries
  <2>2. CASE event' = [event EXCEPT ![t].step = x, ![t].outcome = "fail"]
    <3>1. [event[t] EXCEPT !.step = x, !.outcome = "fail"] \in Deliveries
      BY <1>3 DEF Deliveries
    <3>2. event' = [event EXCEPT ![t] = [event[t] EXCEPT !.step = x, !.outcome = "fail"]]
      BY <1>1, <2>2
    <3>3. QED BY <1>3, <3>1, <3>2 DEF Deliveries
  <2>3. CASE event' = [event EXCEPT ![t].step = x]
    <3>1. [event[t] EXCEPT !.step = x] \in Deliveries BY <1>3 DEF Deliveries
    <3>2. event' = [event EXCEPT ![t] = [event[t] EXCEPT !.step = x]]
      BY <1>1, <2>3
    <3>3. QED BY <1>3, <3>1, <3>2 DEF Deliveries
  <2>4. QED BY <2>2, <2>3
<1>5. event' \in [Threads -> Deliveries \union {NoEvent}]
      /\ event'[t] = r /\ \A u \in Threads : u # t => event'[u] = event[u]
  BY <1>1, <1>4
<1>6. r # NoEvent BY <1>4 DEF NoEvent
<1>7. QED BY <1>2, <1>3, <1>4, <1>5, <1>6 DEF Deliveries

\* A step of the HTTP client that no caller and no list is affected by.
LEMMA HttpStep ==
  ASSUME OInv, UNCHANGED <<clientVars, lockVars, handlerVars, pc, callVars>>,
         http' \in [Exports -> Http!Stages],
         \A e \in Exports : /\ http'[e] = "none" <=> http[e] = "none"
                            /\ http[e] \in Over => http'[e] \in Over
                            /\ http'[e] = "created" => http[e] = "created"
                            /\ http[e] \in Early => http'[e] \in Early,
         event' \in [Threads -> Deliveries \union {NoEvent}], EventInv'
  PROVE  OInv'
<1>1. /\ TypeOK /\ LockInv /\ SessionInv /\ CounterInv /\ FlushInv /\ SyncInv /\ DestroyInv
      /\ SyncExportHonest /\ FlushHonest
  BY DEF OInv
<1>2. TypeOK' BY <1>1 DEF TypeOK, StepsOK, Threads
<1>3. LockInv' BY <1>1 DEF LockInv
<1>4. /\ SessionInv' /\ CounterInv'
      /\ Added' = Added /\ Counted' = Counted /\ Released' = Released
  <2>1. \A e \in Exports : pc[e] \in EarlySteps => http[e] \in Early
    BY <1>1 DEF SessionInv, EarlySteps, Early
  <2>2. QED BY <1>1, <2>1, KeepSessions
<1>5. FlushInv' /\ FlushHonest' BY <1>1, <1>4, KeepFlushes DEF TypeOK
<1>6. SyncInv' /\ SyncExportHonest' BY <1>1, <1>4, KeepExports
<1>7. DestroyInv' BY <1>1 DEF DestroyInv
<1>8. QED BY <1>2, <1>3, <1>4, <1>5, <1>6, <1>7 DEF OInv

LEMMA SecondEventOInv ==
  ASSUME OInv, NEW t \in Threads, SecondEvent(t)
  PROVE  OInv'
<1>1. /\ event[t].step = "over" /\ event' = [event EXCEPT ![t].step = "again"]
      /\ UNCHANGED <<clientVars, lockVars, handlerVars, http, pc, callVars>>
  BY DEF SecondEvent, Delivering
<1>2. TypeOK /\ EventInv BY DEF OInv
<1>3. /\ event' \in [Threads -> Deliveries \union {NoEvent}]
      /\ event[t] # NoEvent /\ event[t].session \in Exports
      /\ event'[t].session = event[t].session /\ event'[t].step = "again" /\ event'[t] # NoEvent
      /\ \A u \in Threads : u # t => event'[u] = event[u]
  BY <1>1, <1>2, EventStep
<1>4. EventInv' BY <1>1, <1>2, <1>3 DEF EventInv, Threads
<1>5. http' \in [Exports -> Http!Stages] BY <1>1, <1>2 DEF TypeOK
<1>6. QED BY <1>1, <1>3, <1>4, <1>5, HttpStep

LEMMA NewEventIs ==
  ASSUME NEW s \in Exports, NEW outcome \in {"ok", "fail"}
  PROVE  /\ NewEvent(s, outcome) \in Deliveries /\ NewEvent(s, outcome) # NoEvent
         /\ NewEvent(s, outcome).session = s /\ NewEvent(s, outcome).step = "handle"
<1>1. NewEvent(s, outcome).step = "handle" BY DEF NewEvent
<1>2. QED BY <1>1 DEF NewEvent, Deliveries, NoEvent

\* The background thread reports the end of a request to the handler.
LEMMA EndRequestOInv ==
  ASSUME OInv, NEW s \in Exports, EndRequest(s)
  PROVE  OInv'
<1>1. PICK r : /\ event' = [event EXCEPT ![Background] = r] /\ r \in Deliveries
               /\ r.session = s /\ r.step = "handle"
  <2>1. PICK outcome \in {"ok", "fail"} :
          event' = [event EXCEPT ![Background] = NewEvent(s, outcome)]
    BY DEF EndRequest
  <2>2. /\ NewEvent(s, outcome) \in Deliveries
        /\ NewEvent(s, outcome).session = s /\ NewEvent(s, outcome).step = "handle"
    BY NewEventIs
  <2>3. WITNESS NewEvent(s, outcome)
  <2>4. QED BY <2>1, <2>2
<1>2. /\ event[Background] = NoEvent /\ http[s] \in {"sent", "flagged", "aborting"}
      /\ http' = [http EXCEPT ![s] = IF @ = "aborting" THEN "stray" ELSE "reported"]
      /\ UNCHANGED <<clientVars, lockVars, handlerVars, pc, callVars>>
  BY DEF EndRequest, Http!Report
<1>3. TypeOK /\ EventInv BY DEF OInv
<1>4. /\ event' \in [Threads -> Deliveries \union {NoEvent}] /\ event'[Background] = r
      /\ \A e \in Exports : event'[e] = event[e]
      /\ \A t \in Threads : t # Background => event'[t] = event[t]
  BY <1>1, <1>3 DEF TypeOK, Threads, Callers
<1>5. /\ http' \in [Exports -> Http!Stages] /\ http'[s] \in {"reported", "stray"}
      /\ \A e \in Exports : e # s => http'[e] = http[e]
  BY <1>2, <1>3 DEF TypeOK, Http!Stages
<1>6. EventInv'
  <2>1. ASSUME NEW e \in Exports, event'[e] # NoEvent
        PROVE  event'[e].session = e /\ pc'[e] = "refused" /\ http'[e] = "refused"
    BY <1>2, <1>3, <1>4, <1>5, <2>1 DEF EventInv
  <2>2. ASSUME NEW t \in Threads, event'[t] # NoEvent
        PROVE  http'[event'[t].session] \in {"reported", "stray", "refused"}
    <3>1. CASE t = Background BY <1>1, <1>4, <1>5, <3>1
    <3>2. CASE t # Background
      BY <1>4, <2>1, <2>2, <3>2 DEF Threads
    <3>3. QED BY <3>1, <3>2
  <2>3. ASSUME NEW t \in Threads, event'[t].step = "release"
        PROVE  t # Background /\ event'[t] = event[t]
    BY <1>1, <1>4, <2>3
  <2>4. QED BY <1>2, <1>3, <2>1, <2>2, <2>3 DEF EventInv
<1>7. QED BY <1>2, <1>4, <1>5, <1>6, HttpStep DEF Over, Early

\* The thread leaves: no handler is called, and no session is released.
LEMMA ThreadLeavesOInv ==
  ASSUME OInv, ThreadLeaves
  PROVE  OInv'
<1>1. /\ http' = [s \in Exports |-> IF http[s] = "flagged" THEN "left" ELSE http[s]]
      /\ UNCHANGED <<clientVars, lockVars, handlerVars, event, pc, callVars>>
  BY DEF ThreadLeaves, Http!ThreadLeaves
<1>2. TypeOK /\ EventInv BY DEF OInv
<1>3. http' \in [Exports -> Http!Stages]
      /\ \A s \in Exports : http'[s] = http[s] \/ OnlyFlagged(s)
  BY <1>1, <1>2 DEF TypeOK, Http!Stages, OnlyFlagged
<1>4. EventInv' BY <1>1, <1>2, <1>3, KeepEvents DEF Told, OnlyFlagged
<1>5. event' \in [Threads -> Deliveries \union {NoEvent}] BY <1>1, <1>2 DEF TypeOK, Threads
<1>6. QED BY <1>1, <1>3, <1>4, <1>5, HttpStep DEF OnlyFlagged, Over, Early

\* ... and lets go of the handler.
LEMMA LetGoOInv ==
  ASSUME OInv, LetGo
  PROVE  OInv'
<1> DEFINE s == event[Background].session
<1>1. /\ event' = [event EXCEPT ![Background] = NoEvent]
      /\ event[Background].step \in {"over", "last"}
      /\ UNCHANGED <<clientVars, lockVars, handlerVars, pc, callVars>>
  BY DEF LetGo
<1>2. TypeOK /\ EventInv /\ event[Background] \in Deliveries /\ s \in Exports
  BY <1>1 DEF OInv, TypeOK, NoEvent, Deliveries
<1>3. /\ http' \in [Exports -> Http!Stages]
      /\ http'[s] = http[s] \/ (http[s] \in {"reported", "stray"} /\ http'[s] = "done")
      /\ \A e \in Exports : e # s => http'[e] = http[e]
  BY <1>2 DEF LetGo, Http!Complete, Http!Move, TypeOK, Http!Stages
<1>4. /\ event' \in [Threads -> Deliveries \union {NoEvent}] /\ event'[Background] = NoEvent
      /\ \A t \in Threads : t # Background => event'[t] = event[t]
  BY <1>1, <1>2 DEF TypeOK, Threads
<1>5. EventInv'
  <2>1. ASSUME NEW t \in Threads, event'[t] # NoEvent
        PROVE  /\ t \in Exports /\ event'[t] = event[t] /\ event'[t].session = t
               /\ pc'[t] = "refused" /\ http'[t] = "refused"
    <3>1. t \in Exports /\ event'[t] = event[t] BY <1>4, <2>1 DEF Threads
    <3>2. event[t].session = t /\ pc[t] = "refused" /\ http[t] = "refused"
      BY <1>2, <2>1, <3>1 DEF EventInv
    <3>3. QED BY <1>1, <1>3, <3>1, <3>2
  <2>2. ASSUME NEW t \in Threads, event'[t].step = "release" PROVE event'[t] # NoEvent
    BY <2>2 DEF NoEvent
  <2>3. QED BY <1>1, <1>2, <2>1, <2>2 DEF EventInv, Threads
<1>6. QED BY <1>1, <1>3, <1>4, <1>5, HttpStep DEF Over, Early

\* What is known of a session whose handler is running.
LEMMA Reported ==
  ASSUME OInv, NEW t \in Threads, event[t].step # "none"
  PROVE  /\ event[t] # NoEvent /\ event[t].session \in Exports
         /\ http[event[t].session] \in Told
         /\ event[t].session \in Added /\ pc[event[t].session] \notin EarlySteps
<1>1. event[t] # NoEvent BY DEF NoEvent
<1>2. event[t].session \in Exports
  <2>1. event[t] \in Deliveries BY <1>1 DEF OInv, TypeOK, Threads
  <2>2. QED BY <2>1 DEF Deliveries
<1>3. http[event[t].session] \in Told BY <1>1 DEF OInv, EventInv, Told
<1>4. pc[event[t].session] \notin EarlySteps
  BY <1>2, <1>3 DEF OInv, SessionInv, EarlySteps, Told
<1>5. QED BY <1>1, <1>2, <1>3, <1>4 DEF Added, EarlySteps, Told

\* Whoever exchanges stopping_ first runs the callback, and that session is
\* still among the running ones.
LEMMA OnEventOInv ==
  ASSUME OInv, NEW t \in Threads, OnEvent(t)
  PROVE  OInv'
<1> DEFINE s == event[t].session
<1>1. event[t].step \in {"handle", "again"} /\ event[t].step # "none"
      /\ UNCHANGED <<clientVars, lockVars, http, pc, callVars>>
  BY DEF OnEvent
<1>2. /\ TypeOK /\ SessionInv /\ EventInv /\ SyncInv /\ SyncExportHonest
      /\ http' \in [Exports -> Http!Stages]
  BY <1>1 DEF OInv, TypeOK
<1>3. event[t] # NoEvent /\ s \in Exports /\ http[s] \in Told /\ s \in Added /\ pc[s] \notin EarlySteps
  BY <1>1, Reported
<1>4. CASE stopping[s]
  <2>1. PICK x \in {"over", "last"} :
          /\ event' = [event EXCEPT ![t].step = x, ![t].outcome = "fail"]
          /\ UNCHANGED handlerVars
    BY <1>1, <1>4 DEF OnEvent
  <2>2. /\ event' \in [Threads -> Deliveries \union {NoEvent}]
        /\ event'[t].session = s /\ event'[t].step = x /\ event'[t] # NoEvent
        /\ \A u \in Threads : u # t => event'[u] = event[u]
    BY <1>1, <1>2, <2>1, EventStep
  <2>3. EventInv' BY <1>1, <1>2, <1>3, <2>1, <2>2 DEF EventInv, Threads
  <2>4. QED BY <1>1, <1>2, <2>1, <2>2, <2>3, HttpStep
<1>5. CASE ~stopping[s]
  <2>1. /\ event' = [event EXCEPT ![t].step = "release", ![t].outcome = "fail"]
        /\ stopping' = [stopping EXCEPT ![s] = TRUE]
        /\ told' = [told EXCEPT ![s] = event[t].outcome]
        /\ calls' = [calls EXCEPT ![s] = @ + 1]
    BY <1>5 DEF OnEvent
  <2>2. /\ event' \in [Threads -> Deliveries \union {NoEvent}]
        /\ event'[t].session = s /\ event'[t].step = "release" /\ event'[t] # NoEvent
        /\ \A u \in Threads : u # t => event'[u] = event[u]
    BY <1>1, <1>2, <2>1, EventStep
  <2>3. s \in running /\ calls[s] = 0 /\ http[s] \notin {"none", "created"}
    BY <1>2, <1>3, <1>5 DEF SessionInv, Told
  <2>4. /\ stopping'[s] = TRUE /\ calls'[s] = 1
        /\ \A e \in Exports : e # s => /\ stopping'[e] = stopping[e] /\ calls'[e] = calls[e]
                                       /\ told'[e] = told[e]
        /\ stopping' \in [Exports -> BOOLEAN] /\ calls' \in [Exports -> Nat]
        /\ told' \in [Exports -> {"none", "ok", "fail"}]
    <3>1. event[t].outcome \in {"none", "ok", "fail"}
      BY <1>2, <1>3 DEF TypeOK, Threads, Deliveries
    <3>2. QED BY <1>2, <1>3, <2>1, <2>3, <3>1 DEF TypeOK
  <2>5. Added' = Added /\ Counted' = Counted /\ Released' = Released
    BY <1>1 DEF Added, Counted, Released
  <2>6. TypeOK' BY <1>1, <1>2, <2>2, <2>4 DEF TypeOK, StepsOK, Threads
  <2>7. SessionInv'
    <3>1. ASSUME NEW e \in Exports
          PROVE  (/\ pc[e] \in {"idle", "add", "count"} =>
                       http[e] \in {"none", "created", "dropped"} /\ ~stopping[e]
                  /\ pc[e] = "idle" => http[e] = "none" /\ calls[e] = 0
                  /\ pc[e] \in {"add", "count"} => http[e] # "none"
                  /\ pc[e] = "count" => e \in running
                  /\ http[e] \in {"none", "created"} => ~stopping[e]
                  /\ http[e] = "none" => pc[e] \in {"idle", "done"}
                  /\ http[e] # "none" => calls[e] = IF stopping[e] THEN 1 ELSE 0
                  /\ calls[e] <= 1)'
      <4>1. CASE e = s BY <1>1, <1>2, <1>3, <2>3, <2>4, <4>1 DEF SessionInv, EarlySteps
      <4>2. CASE e # s BY <1>1, <1>2, <2>4, <4>2 DEF SessionInv
      <4>3. QED BY <4>1, <4>2
    <3>2. ASSUME NEW e \in Exports
          PROVE  (/\ e \in Added \ running => stopping[e]
                  /\ e \in Added \ (running \union gc \union sweep) =>
                       http[e] \in {"done", "refused", "stray"})'
      BY <1>1, <1>2, <2>4, <2>5 DEF SessionInv
    <3>3. QED BY <1>1, <1>2, <2>5, <3>1, <3>2 DEF SessionInv
  <2>8. EventInv'
    <3>1. \A u \in Threads : event[u].step = "release" => event[u].session # s
      BY <1>2, <1>5 DEF EventInv
    <3>2. \A u \in Threads : event'[u].step = "release" =>
            stopping'[event'[u].session] /\ event'[u].session \in running'
      <4>1. SUFFICES ASSUME NEW u \in Threads, event'[u].step = "release"
                     PROVE  stopping'[event'[u].session] /\ event'[u].session \in running'
        OBVIOUS
      <4>2. CASE u = t BY <1>1, <2>2, <2>3, <2>4, <4>2
      <4>3. CASE u # t
        <5>1. event'[u] = event[u] /\ stopping[event[u].session] /\ event[u].session \in running
          BY <1>2, <2>2, <4>1, <4>3 DEF EventInv
        <5>2. event[u].session \in Exports BY <1>2, <5>1 DEF TypeOK
        <5>3. QED BY <1>1, <2>4, <5>1, <5>2
      <4>4. QED BY <4>2, <4>3
    <3>3. \A u, v \in Threads : event'[u].step = "release" /\ event'[v].step = "release"
                                /\ event'[u].session = event'[v].session => u = v
      BY <1>2, <2>2, <3>1 DEF EventInv
    <3>4. QED BY <1>1, <1>2, <1>3, <2>2, <3>2, <3>3 DEF EventInv, Threads
  <2>9. SyncInv' BY <1>1, <1>2, <2>5 DEF SyncInv
  <2>10. SyncExportHonest' BY <1>1, <1>2, <2>3, <2>4 DEF SyncExportHonest
  <2>11. LockInv' /\ CounterInv' /\ FlushInv' /\ FlushHonest' /\ DestroyInv'
    BY <1>1, <2>5 DEF OInv, LockInv, CounterInv, FlushInv, InFlush, FlushHonest, DestroyInv
  <2>12. QED BY <2>6, <2>7, <2>8, <2>9, <2>10, <2>11 DEF OInv
<1>6. QED BY <1>4, <1>5

\* One more session has finished, and every waiter wakes up.
LEMMA ReleaseSessionOInv ==
  ASSUME OInv, NEW t \in Threads, ReleaseSession(t)
  PROVE  OInv'
<1> DEFINE s == event[t].session
<1>1. /\ event[t].step = "release" /\ event[t].step # "none" /\ managerLock = Nobody
      /\ event' = [event EXCEPT ![t].step = "over"]
      /\ UNCHANGED <<isShutdown, started, lockVars, handlerVars, http, callVars>>
  BY DEF ReleaseSession, Delivering
<1>2. /\ TypeOK /\ LockInv /\ SessionInv /\ EventInv /\ CounterInv /\ SyncInv /\ FlushInv
      /\ DestroyInv /\ SyncExportHonest /\ FlushHonest
  BY DEF OInv
<1>3. s \in Exports /\ s \in Added /\ s \in running /\ stopping[s]
  BY <1>1, <1>2, Reported DEF EventInv
<1>4. /\ running' = running \ {s} /\ gc' = gc \union {s} /\ finished' = finished + 1
      /\ pc' = [c \in Callers |-> IF pc[c] = "waiting" THEN "relock" ELSE pc[c]]
  BY <1>3 DEF ReleaseSession
<1>5. /\ event' \in [Threads -> Deliveries \union {NoEvent}]
      /\ event'[t].session = s /\ event'[t].step = "over" /\ event'[t] # NoEvent
      /\ event[t] # NoEvent
      /\ \A u \in Threads : u # t => event'[u] = event[u]
  BY <1>1, <1>2, EventStep
<1>6. \A c \in Callers : pc'[c] = pc[c] \/ (pc[c] = "waiting" /\ pc'[c] = "relock")
  BY <1>4
<1>7. /\ \A e \in Exports : pc'[e] = pc[e] \/ (pc[e] = "waiting" /\ pc'[e] = "relock")
      /\ \A c \in Flushing : pc'[c] = pc[c] \/ (pc[c] = "waiting" /\ pc'[c] = "relock")
  BY <1>6 DEF Callers
<1>8. /\ Added' = Added /\ Counted' = Counted /\ Released' = Released \union {s}
      /\ s \notin Released
  <2>1. Added' = Added /\ Counted' = Counted BY <1>1, <1>7 DEF Added, Counted
  <2>2. Released = Added \ running /\ Released' = Added' \ running'
    BY DEF Released, Added
  <2>3. QED BY <1>3, <1>4, <2>1, <2>2
<1>9. finished' = Cardinality(Released') /\ finished' \in Nat /\ finished <= finished'
  <2>1. Released \in SUBSET Exports BY SessionSets
  <2>2. Cardinality(Released \union {s}) = Cardinality(Released) + 1
    BY <1>3, <1>8, <2>1, OneMore
  <2>3. finished = Cardinality(Released) /\ finished \in Nat BY <1>2 DEF CounterInv, TypeOK
  <2>4. QED BY <1>4, <1>8, <2>2, <2>3
<1>10. TypeOK'
  <2>1. StepsOK'
    <3>1. StepsOK BY <1>2 DEF TypeOK
    <3>2. "relock" \in ExportSteps /\ \A c \in Flushing : "relock" \in FlusherSteps(c)
      BY DEF ExportSteps, FlusherSteps, FlushSteps
    <3>3. \A e \in Exports : pc'[e] \in ExportSteps BY <1>7, <3>1, <3>2 DEF StepsOK
    <3>4. \A c \in Flushing : pc'[c] \in FlusherSteps(c) BY <1>7, <3>1, <3>2 DEF StepsOK
    <3>5. pc' \in [Callers -> ExportSteps \union FlusherSteps(Destructor)]
      BY <1>4, <3>1, <3>2 DEF StepsOK
    <3>6. QED BY <3>3, <3>4, <3>5 DEF StepsOK
  <2>2. QED BY <1>1, <1>2, <1>3, <1>4, <1>5, <1>9, <2>1 DEF TypeOK, Threads
<1>11. LockInv'
  <2>1. \A c \in Callers : pc'[c] \in {"finish", "cleaning", "lastFinish"} => pc[c] = pc'[c]
    BY <1>6
  <2>2. QED BY <1>1, <1>2, <2>1 DEF LockInv
<1>12. SessionInv'
  <2>1. ASSUME NEW e \in Exports
        PROVE  (/\ pc[e] \in {"idle", "add", "count"} =>
                     http[e] \in {"none", "created", "dropped"} /\ ~stopping[e]
                /\ pc[e] = "idle" => http[e] = "none" /\ calls[e] = 0
                /\ pc[e] \in {"add", "count"} => http[e] # "none"
                /\ pc[e] = "count" => e \in running
                /\ http[e] \in {"none", "created"} => ~stopping[e]
                /\ http[e] = "none" => pc[e] \in {"idle", "done"}
                /\ http[e] # "none" => calls[e] = IF stopping[e] THEN 1 ELSE 0
                /\ calls[e] <= 1)'
    <3>1. pc'[e] \in {"idle", "add", "count", "done"} => pc'[e] = pc[e] BY <1>7
    <3>2. pc[e] \in {"idle", "add", "count", "done"} => pc'[e] = pc[e] BY <1>7
    <3>3. QED BY <1>1, <1>2, <1>3, <1>4, <3>1, <3>2 DEF SessionInv
  <2>2. ASSUME NEW e \in Exports
        PROVE  (/\ e \in Added \ running => stopping[e]
                /\ e \in Added \ (running \union gc \union sweep) =>
                     http[e] \in {"done", "refused", "stray"})'
    BY <1>1, <1>2, <1>3, <1>4, <1>8 DEF SessionInv
  <2>3. /\ (running \subseteq Added /\ gc \subseteq Added /\ sweep \subseteq Added)'
        /\ (running \intersect gc = {} /\ running \intersect sweep = {})'
    BY <1>1, <1>2, <1>3, <1>4, <1>8 DEF SessionInv
  <2>4. QED BY <2>1, <2>2, <2>3 DEF SessionInv
<1>13. EventInv'
  <2>1. \A u \in Threads : event'[u].step = "release" =>
          u # t /\ event'[u] = event[u] /\ event[u].session # s
    BY <1>1, <1>2, <1>5 DEF EventInv
  <2>2. \A e \in Exports : pc[e] = "refused" => pc'[e] = "refused" BY <1>7
  <2>3. QED BY <1>1, <1>2, <1>4, <1>5, <2>1, <2>2 DEF EventInv, Threads
<1>14. CounterInv' BY <1>1, <1>2, <1>8, <1>9 DEF CounterInv
<1>15. FlushInv' /\ FlushHonest'
  BY <1>1, <1>2, <1>7, <1>8, <1>9, KeepFlushes
<1>16. SyncInv' /\ SyncExportHonest'
  BY <1>1, <1>2, <1>7, <1>8, KeepExports
<1>17. DestroyInv'
  BY <1>1, <1>2, <1>3, <1>4, <1>6, KeepDestroy DEF Callers, Flushing
<1>18. QED BY <1>10, <1>11, <1>12, <1>13, <1>14, <1>15, <1>16, <1>17 DEF OInv

LEMMA HandlerOInv ==
  ASSUME OInv, NEW t \in Threads, Handler(t)
  PROVE  OInv'
BY OnEventOInv, ReleaseSessionOInv, SecondEventOInv DEF Handler

-----------------------------------------------------------------------------
(* Export.                                                                 *)

\* An Export that is before SendRequest: what it has to show.
LEMMA EarlyStep ==
  ASSUME OInv, NEW e \in Exports, NEW to \in ExportSteps, pc' = [pc EXCEPT ![e] = to],
         pc[Destructor] = "idle", to \notin {"finish", "return", "sweep"},
         UNCHANGED <<isShutdown, gc, finished, lockVars, event, stopping,
                     waitCounter, inShutdown, before>>,
         running \subseteq running', running' \subseteq Exports, started' \in Nat,
         told' \in [Exports -> {"none", "ok", "fail"}], calls' \in [Exports -> Nat],
         http' \in [Exports -> Http!Stages], pc[e] # "refused", http[e] \notin Told,
         result' \in [Callers -> {"none", "ok", "fail"}],
         \A c \in Callers : c # e => result'[c] = result[c],
         \A s \in Exports : s # e => /\ http'[s] = http[s] /\ told'[s] = told[s]
                                     /\ calls'[s] = calls[s],
         Added \subseteq Added', Counted \subseteq Counted', Released' = Released,
         SessionInv', CounterInv',
         e \in Sync /\ to = "done" => result'[e] = "fail",
         to \notin {"check", "lastCheck", "block", "waiting", "relock", "expired"}
  PROVE  OInv'
<1>1. /\ TypeOK /\ LockInv /\ EventInv /\ SyncInv /\ FlushInv /\ DestroyInv
      /\ SyncExportHonest /\ FlushHonest
  BY DEF OInv
<1>2. /\ e \in Callers /\ e \notin Flushing /\ e # Destructor /\ Destructor \in Callers
      /\ Destructor \in Flushing
  BY DEF Callers, Flushing
<1>3. /\ StepsOK' /\ pc'[e] = to /\ \A d \in Callers : d # e => pc'[d] = pc[d]
      /\ \A d \in Exports : d # e => pc'[d] = pc[d]
      /\ \A d \in Flushing : d # e => pc'[d] = pc[d]
  BY <1>1, <1>2, MoveOn
<1>4. TypeOK' BY <1>1, <1>3 DEF TypeOK
<1>5. LockInv'
  <2>1. \A c \in Callers : pc'[c] \in {"finish", "cleaning", "lastFinish"} => pc'[c] = pc[c]
    BY <1>3 DEF ExportSteps
  <2>2. QED BY <1>1, <2>1, KeepLock
<1>6. EventInv'
  <2>1. event[e] = NoEvent BY <1>1 DEF EventInv
  <2>2. \A u \in Threads : event[u] # NoEvent => event[u].session # e BY <1>1 DEF EventInv, Told
  <2>3. \A u \in Threads : event[u] # NoEvent => event[u].session \in Exports
    <3>1. SUFFICES ASSUME NEW u \in Threads, event[u] # NoEvent PROVE event[u].session \in Exports
      OBVIOUS
    <3>2. event[u] \in Deliveries BY <1>1, <3>1 DEF TypeOK, Threads
    <3>3. QED BY <3>2 DEF Deliveries
  <2>4. \A s \in Exports : event[s] # NoEvent =>
          s # e /\ pc'[s] = pc[s] /\ http'[s] = http[s]
    BY <1>3, <2>1
  <2>5. \A u \in Threads : event[u] # NoEvent => http'[event[u].session] = http[event[u].session]
    BY <2>2, <2>3
  <2>6. QED BY <1>1, <2>4, <2>5 DEF EventInv
<1>7. FlushInv' /\ FlushHonest'
  <2>1. \A c \in Flushing : pc'[c] = pc[c] /\ result'[c] = result[c]
    BY <1>2, <1>3 DEF Callers
  <2>2. finished' \in Nat /\ finished <= finished' BY <1>1 DEF TypeOK
  <2>3. QED BY <1>1, <2>1, <2>2, KeepFlushes
<1>8. SyncInv' /\ SyncExportHonest'
  <2>1. \A s \in Exports : s # e => result'[s] = result[s] BY DEF Callers
  <2>2. SyncInv' BY <1>1, <1>3, <2>1 DEF SyncInv
  <2>3. SyncExportHonest' BY <1>1, <1>3, <2>1 DEF SyncExportHonest
  <2>4. QED BY <2>2, <2>3
<1>9. DestroyInv'
  <2>1. pc'[Destructor] = "idle" /\ Destructor \notin inShutdown'
    BY <1>1, <1>2, <1>3 DEF DestroyInv
  <2>2. QED BY <2>1 DEF DestroyInv, ShutdownSteps, DrainSteps
<1>10. QED BY <1>4, <1>5, <1>6, <1>7, <1>8, <1>9 DEF OInv

LEMMA CreateSessionOInv ==
  ASSUME OInv, NEW e \in Exports, CreateSession(e)
  PROVE  OInv'
<1>1. /\ pc' = [pc EXCEPT ![e] = "add"] /\ pc[e] = "idle" /\ pc[Destructor] = "idle"
      /\ http[e] = "none" /\ http' = [http EXCEPT ![e] = "created"]
      /\ UNCHANGED <<clientVars, lockVars, handlerVars, event, callVars>>
  BY DEF CreateSession, ExportCallable, Callable, Goto, Http!CreateSession, Http!Move
<1>2. TypeOK /\ SessionInv /\ CounterInv BY DEF OInv
<1>3. /\ pc'[e] = "add" /\ \A s \in Exports : s # e => pc'[s] = pc[s]
      /\ http'[e] = "created" /\ \A s \in Exports : s # e => http'[s] = http[s]
      /\ http' \in [Exports -> Http!Stages]
  BY <1>1, <1>2 DEF TypeOK, StepsOK, Callers, Http!Stages
<1>4. Added' = Added /\ Counted' = Counted /\ Released' = Released
  BY <1>1, <1>3 DEF Added, Counted, Released
<1>5. SessionInv'
  <2>1. e \notin Added /\ ~stopping[e] /\ calls[e] = 0 BY <1>1, <1>2 DEF Added, SessionInv
  <2>2. \A s \in Added : http'[s] = http[s] /\ s \in Exports BY <1>3, <2>1 DEF Added
  <2>3. ASSUME NEW s \in Exports
        PROVE  (/\ pc[s] \in {"idle", "add", "count"} =>
                     http[s] \in {"none", "created", "dropped"} /\ ~stopping[s]
                /\ pc[s] = "idle" => http[s] = "none" /\ calls[s] = 0
                /\ pc[s] \in {"add", "count"} => http[s] # "none"
                /\ pc[s] = "count" => s \in running
                /\ http[s] \in {"none", "created"} => ~stopping[s]
                /\ http[s] = "none" => pc[s] \in {"idle", "done"}
                /\ http[s] # "none" => calls[s] = IF stopping[s] THEN 1 ELSE 0
                /\ calls[s] <= 1)'
    <3>1. CASE s = e BY <1>1, <1>3, <2>1, <3>1
    <3>2. CASE s # e BY <1>1, <1>2, <1>3, <3>2 DEF SessionInv
    <3>3. QED BY <3>1, <3>2
  <2>4. ASSUME NEW s \in Exports
        PROVE  (/\ s \in Added \ running => stopping[s]
                /\ s \in Added \ (running \union gc \union sweep) =>
                     http[s] \in {"done", "refused", "stray"})'
    BY <1>1, <1>2, <1>4, <2>2 DEF SessionInv
  <2>5. QED BY <1>1, <1>2, <1>4, <2>3, <2>4 DEF SessionInv
<1>6. CounterInv' BY <1>1, <1>2, <1>4 DEF CounterInv
<1>7. "add" \in ExportSteps /\ http[e] \notin Told BY <1>1 DEF ExportSteps, Told
<1>8. /\ running' \subseteq Exports /\ started' \in Nat
      /\ told' \in [Exports -> {"none", "ok", "fail"}] /\ calls' \in [Exports -> Nat]
      /\ result' \in [Callers -> {"none", "ok", "fail"}]
  BY <1>1, <1>2 DEF TypeOK
<1>9. QED BY <1>1, <1>3, <1>4, <1>5, <1>6, <1>7, <1>8, EarlyStep

\* An Export that cannot start a session runs the callback itself.
LEMMA CreateFailsOInv ==
  ASSUME OInv, NEW e \in Exports, CreateFails(e)
  PROVE  OInv'
<1>1. /\ pc' = [pc EXCEPT ![e] = "done"] /\ pc[e] = "idle" /\ pc[Destructor] = "idle"
      /\ told' = [told EXCEPT ![e] = "fail"] /\ calls' = [calls EXCEPT ![e] = @ + 1]
      /\ result' = [result EXCEPT ![e] = "fail"]
      /\ UNCHANGED <<clientVars, lockVars, stopping, http, event, waitCounter, inShutdown, before>>
  BY DEF CreateFails, ExportCallable, Callable, Goto
<1>2. TypeOK /\ SessionInv /\ CounterInv /\ e \in Callers BY DEF OInv, Callers
<1>3. http[e] = "none" /\ calls[e] = 0 /\ ~stopping[e] BY <1>1, <1>2 DEF SessionInv
<1>4. /\ pc'[e] = "done" /\ \A s \in Exports : s # e => pc'[s] = pc[s]
      /\ calls'[e] = 1 /\ \A s \in Exports : s # e => calls'[s] = calls[s] /\ told'[s] = told[s]
      /\ result'[e] = "fail" /\ \A c \in Callers : c # e => result'[c] = result[c]
      /\ told' \in [Exports -> {"none", "ok", "fail"}] /\ calls' \in [Exports -> Nat]
      /\ result' \in [Callers -> {"none", "ok", "fail"}]
  BY <1>1, <1>2, <1>3 DEF TypeOK, StepsOK, Callers
<1>5. Added' = Added /\ Counted' = Counted /\ Released' = Released
  BY <1>1, <1>3, <1>4 DEF Added, Counted, Released
<1>6. SessionInv'
  <2>1. ASSUME NEW s \in Exports
        PROVE  (/\ pc[s] \in {"idle", "add", "count"} =>
                     http[s] \in {"none", "created", "dropped"} /\ ~stopping[s]
                /\ pc[s] = "idle" => http[s] = "none" /\ calls[s] = 0
                /\ pc[s] \in {"add", "count"} => http[s] # "none"
                /\ pc[s] = "count" => s \in running
                /\ http[s] \in {"none", "created"} => ~stopping[s]
                /\ http[s] = "none" => pc[s] \in {"idle", "done"}
                /\ http[s] # "none" => calls[s] = IF stopping[s] THEN 1 ELSE 0
                /\ calls[s] <= 1)'
    <3>1. CASE s = e BY <1>1, <1>3, <1>4, <3>1
    <3>2. CASE s # e BY <1>1, <1>2, <1>4, <3>2 DEF SessionInv
    <3>3. QED BY <3>1, <3>2
  <2>2. QED BY <1>1, <1>2, <1>5, <2>1 DEF SessionInv
<1>7. CounterInv' BY <1>1, <1>2, <1>5 DEF CounterInv
<1>8. "done" \in ExportSteps /\ http[e] \notin Told BY <1>3 DEF ExportSteps, Told
<1>9. running' \subseteq Exports /\ started' \in Nat /\ http' \in [Exports -> Http!Stages]
  BY <1>1, <1>2 DEF TypeOK
<1>10. QED BY <1>1, <1>4, <1>5, <1>6, <1>7, <1>8, <1>9, EarlyStep

LEMMA AddSessionOInv ==
  ASSUME OInv, NEW e \in Exports, AddSession(e)
  PROVE  OInv'
<1>1. /\ pc' = [pc EXCEPT ![e] = "count"] /\ pc[e] = "add" /\ running' = running \union {e}
      /\ UNCHANGED <<isShutdown, gc, started, finished, lockVars, handlerVars, http, event, callVars>>
  BY DEF AddSession, Goto
<1>2. TypeOK /\ SessionInv /\ CounterInv BY DEF OInv
<1>3. pc[Destructor] = "idle"
  <2>1. e \in Callers /\ e # Destructor BY DEF Callers, Flushing
  <2>2. QED BY <1>1, <2>1, NotDestroyed
<1>4. pc'[e] = "count" /\ \A s \in Exports : s # e => pc'[s] = pc[s]
  BY <1>1, <1>2 DEF TypeOK, StepsOK, Callers
<1>5. http[e] \in Early \ {"none"} /\ ~stopping[e] /\ e \notin Added
  BY <1>1, <1>2 DEF SessionInv, Added, Early
<1>6. Added' = Added \union {e} /\ Counted' = Counted /\ Released' = Released
  <2>1. Added' = Added \union {e} BY <1>1, <1>4, <1>5 DEF Added
  <2>2. Counted' = Counted BY <1>1, <1>4 DEF Counted
  <2>3. Released = Added \ running /\ Released' = Added' \ running' BY DEF Released, Added
  <2>4. QED BY <1>1, <1>5, <2>1, <2>2, <2>3
<1>7. SessionInv'
  <2>1. ASSUME NEW s \in Exports
        PROVE  (/\ pc[s] \in {"idle", "add", "count"} =>
                     http[s] \in {"none", "created", "dropped"} /\ ~stopping[s]
                /\ pc[s] = "idle" => http[s] = "none" /\ calls[s] = 0
                /\ pc[s] \in {"add", "count"} => http[s] # "none"
                /\ pc[s] = "count" => s \in running
                /\ http[s] \in {"none", "created"} => ~stopping[s]
                /\ http[s] = "none" => pc[s] \in {"idle", "done"}
                /\ http[s] # "none" => calls[s] = IF stopping[s] THEN 1 ELSE 0
                /\ calls[s] <= 1)'
    <3>1. CASE s = e BY <1>1, <1>2, <1>4, <1>5, <3>1 DEF SessionInv, Early
    <3>2. CASE s # e BY <1>1, <1>2, <1>4, <3>2 DEF SessionInv
    <3>3. QED BY <3>1, <3>2
  <2>2. ASSUME NEW s \in Exports
        PROVE  (/\ s \in Added \ running => stopping[s]
                /\ s \in Added \ (running \union gc \union sweep) =>
                     http[s] \in {"done", "refused", "stray"})'
    BY <1>1, <1>2, <1>6 DEF SessionInv
  <2>3. /\ (running \subseteq Added /\ gc \subseteq Added /\ sweep \subseteq Added)'
        /\ (running \intersect gc = {} /\ running \intersect sweep = {})'
    BY <1>1, <1>2, <1>5, <1>6 DEF SessionInv
  <2>4. QED BY <2>1, <2>2, <2>3 DEF SessionInv
<1>8. CounterInv' BY <1>1, <1>2, <1>6 DEF CounterInv
<1>9. "count" \in ExportSteps /\ http[e] \notin Told BY <1>5 DEF ExportSteps, Told, Early
<1>10. /\ running' \subseteq Exports /\ started' \in Nat /\ http' \in [Exports -> Http!Stages]
       /\ told' \in [Exports -> {"none", "ok", "fail"}] /\ calls' \in [Exports -> Nat]
       /\ result' \in [Callers -> {"none", "ok", "fail"}]
  BY <1>1, <1>2 DEF TypeOK
<1>11. QED BY <1>1, <1>3, <1>6, <1>7, <1>8, <1>9, <1>10, EarlyStep

LEMMA CountSessionOInv ==
  ASSUME OInv, NEW e \in Exports, CountSession(e)
  PROVE  OInv'
<1>1. /\ pc' = [pc EXCEPT ![e] = "send"] /\ pc[e] = "count" /\ started' = started + 1
      /\ http[e] \in {"created", "dropped"}
      /\ http' = [http EXCEPT ![e] = IF @ = "created" THEN "sending" ELSE @]
      /\ UNCHANGED <<isShutdown, running, gc, finished, lockVars, handlerVars, event, callVars>>
  BY DEF CountSession, Goto, Http!StartSend
<1>2. TypeOK /\ SessionInv /\ CounterInv BY DEF OInv
<1>3. pc[Destructor] = "idle"
  <2>1. e \in Callers /\ e # Destructor BY DEF Callers, Flushing
  <2>2. QED BY <1>1, <2>1, NotDestroyed
<1>4. /\ pc'[e] = "send" /\ \A s \in Exports : s # e => pc'[s] = pc[s]
      /\ http'[e] \in {"sending", "dropped"} /\ \A s \in Exports : s # e => http'[s] = http[s]
      /\ http' \in [Exports -> Http!Stages]
  BY <1>1, <1>2 DEF TypeOK, StepsOK, Callers, Http!Stages
<1>5. ~stopping[e] /\ e \in running /\ e \notin Counted
  BY <1>1, <1>2 DEF SessionInv, Counted
<1>6. Added' = Added /\ Counted' = Counted \union {e} /\ Released' = Released
  <2>1. Added' = Added BY <1>1, <1>4 DEF Added
  <2>2. Counted' = Counted \union {e} BY <1>1, <1>4 DEF Counted
  <2>3. Released = Added \ running /\ Released' = Added' \ running' BY DEF Released, Added
  <2>4. QED BY <1>1, <2>1, <2>2, <2>3
<1>7. SessionInv'
  <2>1. ASSUME NEW s \in Exports
        PROVE  (/\ pc[s] \in {"idle", "add", "count"} =>
                     http[s] \in {"none", "created", "dropped"} /\ ~stopping[s]
                /\ pc[s] = "idle" => http[s] = "none" /\ calls[s] = 0
                /\ pc[s] \in {"add", "count"} => http[s] # "none"
                /\ pc[s] = "count" => s \in running
                /\ http[s] \in {"none", "created"} => ~stopping[s]
                /\ http[s] = "none" => pc[s] \in {"idle", "done"}
                /\ http[s] # "none" => calls[s] = IF stopping[s] THEN 1 ELSE 0
                /\ calls[s] <= 1)'
    <3>1. CASE s = e BY <1>1, <1>2, <1>4, <1>5, <3>1 DEF SessionInv
    <3>2. CASE s # e BY <1>1, <1>2, <1>4, <3>2 DEF SessionInv
    <3>3. QED BY <3>1, <3>2
  <2>2. ASSUME NEW s \in Exports
        PROVE  (/\ s \in Added \ running => stopping[s]
                /\ s \in Added \ (running \union gc \union sweep) =>
                     http[s] \in {"done", "refused", "stray"})'
    BY <1>1, <1>2, <1>4, <1>5, <1>6 DEF SessionInv
  <2>3. /\ (running \subseteq Added /\ gc \subseteq Added /\ sweep \subseteq Added)'
        /\ (running \intersect gc = {} /\ running \intersect sweep = {})'
    BY <1>1, <1>2, <1>6 DEF SessionInv
  <2>4. QED BY <2>1, <2>2, <2>3 DEF SessionInv
<1>8. CounterInv' /\ started' \in Nat
  <2>1. Counted \in SUBSET Exports BY SessionSets
  <2>2. Cardinality(Counted \union {e}) = Cardinality(Counted) + 1 BY <1>5, <2>1, OneMore
  <2>3. started = Cardinality(Counted) /\ finished = Cardinality(Released) /\ started \in Nat
    BY <1>2 DEF CounterInv, TypeOK
  <2>4. started' = Cardinality(Counted') /\ finished' = Cardinality(Released') /\ started' \in Nat
    BY <1>1, <1>6, <2>2, <2>3
  <2>5. QED BY <2>4 DEF CounterInv
<1>9. "send" \in ExportSteps /\ http[e] \notin Told BY <1>1 DEF ExportSteps, Told
<1>10. /\ running' \subseteq Exports
       /\ told' \in [Exports -> {"none", "ok", "fail"}] /\ calls' \in [Exports -> Nat]
       /\ result' \in [Callers -> {"none", "ok", "fail"}]
  BY <1>1, <1>2 DEF TypeOK
<1>11. QED BY <1>1, <1>3, <1>4, <1>6, <1>7, <1>8, <1>9, <1>10, EarlyStep

\* SendRequest: an Export goes on to wait, or calls the handler itself.
LEMMA SendStep ==
  ASSUME OInv, NEW e \in Exports, NEW to \in {"lock", "refused"}, pc' = [pc EXCEPT ![e] = to],
         pc[e] \in {"send", "refused"},
         UNCHANGED <<clientVars, lockVars, handlerVars, callVars>>,
         http' \in [Exports -> Http!Stages],
         \A s \in Exports : s # e => http'[s] = http[s] \/ OnlyFlagged(s),
         http'[e] \notin {"none", "created"} \/ http'[e] = http[e],
         http[e] \in Over => http'[e] \in Over,
         event' \in [Threads -> Deliveries \union {NoEvent}], EventInv'
  PROVE  OInv'
<1>1. TypeOK /\ LockInv /\ SyncInv /\ SyncExportHonest /\ e \in Callers BY DEF OInv, Callers
<1>2. /\ StepsOK' /\ pc'[e] = to /\ \A d \in Callers : d # e => pc'[d] = pc[d]
      /\ \A d \in Exports : d # e => pc'[d] = pc[d]
  BY <1>1, MoveOn DEF ExportSteps
<1>3. TypeOK' BY <1>1, <1>2 DEF TypeOK, Threads
<1>4. /\ SessionInv' /\ CounterInv' /\ FlushInv' /\ FlushHonest' /\ DestroyInv'
      /\ Added' = Added /\ Counted' = Counted /\ Released' = Released
  BY ExportFrame DEF EarlySteps
<1>5. LockInv'
  <2>1. \A c \in Callers : pc'[c] \in {"finish", "cleaning", "lastFinish"} => pc'[c] = pc[c]
    BY <1>2
  <2>2. QED BY <1>1, <2>1, KeepLock
<1>6. SyncInv' BY <1>1, <1>2, <1>4 DEF SyncInv
<1>7. SyncExportHonest' BY <1>1, <1>2 DEF SyncExportHonest
<1>8. QED BY <1>3, <1>4, <1>5, <1>6, <1>7 DEF OInv

LEMMA SendRequestOInv ==
  ASSUME OInv, NEW e \in Exports, SendRequest(e)
  PROVE  OInv'
<1>1. /\ pc' = [pc EXCEPT ![e] = "lock"] /\ pc[e] = "send" /\ Http!HandOver(e)
      /\ UNCHANGED <<clientVars, lockVars, handlerVars, event, callVars>>
  BY DEF SendRequest, Goto
<1>2. TypeOK /\ EventInv BY DEF OInv
<1>3. /\ http' \in [Exports -> Http!Stages]
      /\ \A s \in Exports : s # e => http'[s] = http[s] \/ OnlyFlagged(s)
      /\ \/ http'[e] = http[e] \/ OnlyFlagged(e)
         \/ http[e] \in {"sending", "aborting"} /\ http'[e] \in {"sent", "flagged", "dropped"}
  <2>1. PICK abort \in {"dropped", "flagged"} :
          http' = [r \in Exports |-> CASE r = e /\ http[r] = "sending" -> "sent"
                                       [] r = e /\ http[r] = "aborting" -> abort
                                       [] http[r] = "left" -> "flagged"
                                       [] OTHER -> http[r]]
    BY <1>1 DEF Http!HandOver
  <2>2. ASSUME NEW s \in Exports
        PROVE  /\ http'[s] \in Http!Stages
               /\ http'[s] = http[s] \/ OnlyFlagged(s)
                  \/ (s = e /\ http[e] \in {"sending", "aborting"}
                            /\ http'[e] \in {"sent", "flagged", "dropped"})
    <3>1. http[s] \in Http!Stages BY <1>2 DEF TypeOK
    <3>2. http'[s] = CASE s = e /\ http[s] = "sending" -> "sent"
                       [] s = e /\ http[s] = "aborting" -> abort
                       [] http[s] = "left" -> "flagged"
                       [] OTHER -> http[s]
      BY <2>1
    <3>3. CASE s = e /\ http[s] = "sending" BY <3>2, <3>3 DEF Http!Stages
    <3>4. CASE s = e /\ http[s] = "aborting" BY <3>2, <3>4 DEF Http!Stages
    <3>5. CASE http[s] = "left" BY <3>2, <3>5 DEF Http!Stages, OnlyFlagged
    <3>6. CASE ~(s = e /\ http[s] \in {"sending", "aborting"}) /\ http[s] # "left"
      <4>1. http'[s] = http[s] BY <3>2, <3>6
      <4>2. QED BY <3>1, <4>1
    <3>7. QED BY <3>3, <3>4, <3>5, <3>6
  <2>3. http' \in [Exports -> Http!Stages] BY <2>1, <2>2
  <2>4. QED BY <2>2, <2>3
<1>5. EventInv'
  <2>1. \A s \in Exports : pc[s] = "refused" => pc'[s] = "refused"
    BY <1>1, <1>2 DEF TypeOK, StepsOK, Callers
  <2>2. \A s \in Exports : /\ http[s] \in Told => http'[s] \in Told
                           /\ http[s] = "refused" => http'[s] = "refused"
    BY <1>3 DEF Told, OnlyFlagged
  <2>3. QED BY <1>1, <1>2, <2>1, <2>2, KeepEvents
<1>6. event' \in [Threads -> Deliveries \union {NoEvent}] BY <1>1, <1>2 DEF TypeOK, Threads
<1>7. http[e] \in Over => http'[e] \in Over BY <1>3 DEF Over, OnlyFlagged
<1>8. http'[e] \notin {"none", "created"} \/ http'[e] = http[e] BY <1>3 DEF OnlyFlagged
<1>9. QED BY <1>1, <1>3, <1>5, <1>6, <1>7, <1>8, SendStep

LEMMA SendRefusedOInv ==
  ASSUME OInv, NEW e \in Exports, SendRefused(e)
  PROVE  OInv'
<1>1. /\ pc' = [pc EXCEPT ![e] = "refused"] /\ pc[e] = "send"
      /\ http' = [http EXCEPT ![e] = "refused"]
      /\ event' = [event EXCEPT ![e] = NewEvent(e, "fail")]
      /\ UNCHANGED <<clientVars, lockVars, handlerVars, callVars>>
  BY DEF SendRefused, Goto, Http!Refuse, Http!Move
<1>2. TypeOK /\ EventInv BY DEF OInv
<1>3. PICK r \in Deliveries : r = NewEvent(e, "fail") /\ r.session = e /\ r.step = "handle"
  BY NewEventIs
<1>4. /\ event' \in [Threads -> Deliveries \union {NoEvent}] /\ event'[e] = r
      /\ \A t \in Threads : t # e => event'[t] = event[t]
  BY <1>1, <1>2, <1>3 DEF TypeOK, Threads
<1>5. /\ http' \in [Exports -> Http!Stages] /\ http'[e] = "refused"
      /\ \A s \in Exports : s # e => http'[s] = http[s]
      /\ pc'[e] = "refused" /\ \A s \in Exports : s # e => pc'[s] = pc[s]
  BY <1>1, <1>2 DEF TypeOK, StepsOK, Callers, Http!Stages
<1>6. EventInv'
  <2>1. ASSUME NEW s \in Exports, event'[s] # NoEvent
        PROVE  event'[s].session = s /\ pc'[s] = "refused" /\ http'[s] = "refused"
    <3>1. CASE s = e BY <1>3, <1>4, <1>5, <3>1
    <3>2. CASE s # e
      <4>1. event'[s] = event[s] BY <1>4, <3>2 DEF Threads
      <4>2. QED BY <1>2, <1>5, <2>1, <3>2, <4>1 DEF EventInv
    <3>3. QED BY <3>1, <3>2
  <2>2. ASSUME NEW t \in Threads, event'[t] # NoEvent
        PROVE  http'[event'[t].session] \in {"reported", "stray", "refused"}
    <3>1. CASE t = e BY <1>3, <1>4, <1>5, <3>1
    <3>2. CASE t # e
      <4>1. event'[t] = event[t] /\ http[event[t].session] \in {"reported", "stray", "refused"}
        BY <1>2, <1>4, <2>2, <3>2 DEF EventInv
      <4>2. event[t].session \in Exports
        <5>1. event[t] \in Deliveries BY <1>2, <2>2, <4>1 DEF TypeOK, Threads
        <5>2. QED BY <5>1 DEF Deliveries
      <4>3. QED BY <1>5, <4>1, <4>2
    <3>3. QED BY <3>1, <3>2
  <2>3. ASSUME NEW t \in Threads, event'[t].step = "release"
        PROVE  event'[t] = event[t]
    BY <1>3, <1>4, <2>3
  <2>4. QED BY <1>1, <1>2, <2>1, <2>2, <2>3 DEF EventInv
<1>7. QED BY <1>1, <1>4, <1>5, <1>6, SendStep DEF Over

LEMMA SendReturnsOInv ==
  ASSUME OInv, NEW e \in Exports, SendReturns(e)
  PROVE  OInv'
<1>1. /\ pc' = [pc EXCEPT ![e] = "lock"] /\ pc[e] = "refused"
      /\ event' = [event EXCEPT ![e] = NoEvent]
      /\ UNCHANGED <<clientVars, lockVars, handlerVars, http, callVars>>
  BY DEF SendReturns, Goto
<1>2. TypeOK /\ EventInv BY DEF OInv
<1>3. /\ event' \in [Threads -> Deliveries \union {NoEvent}] /\ event'[e] = NoEvent
      /\ \A t \in Threads : t # e => event'[t] = event[t]
      /\ http' \in [Exports -> Http!Stages]
      /\ \A s \in Exports : s # e => pc'[s] = pc[s]
  BY <1>1, <1>2 DEF TypeOK, Threads, StepsOK, Callers
<1>4. NoEvent.step # "release" BY DEF NoEvent
<1>5. EventInv' BY <1>1, <1>2, <1>3, <1>4 DEF EventInv, Threads
<1>6. QED BY <1>1, <1>3, <1>5, SendStep

\* An Export that has tested how many sessions are running, or returns: what
\* it has to show of its result.
LEMMA ExportResult ==
  ASSUME OInv, NEW e \in Exports, NEW to \in {"sweep", "block", "done"},
         pc' = [pc EXCEPT ![e] = to], pc[e] \in {"check", "lastCheck", "return"},
         UNCHANGED <<clientVars, managerLock, sweep, handlerVars, http, event,
                     waitCounter, inShutdown, before>>,
         wakerLock' \in Callers \union {Nobody}, result' \in [Callers -> {"none", "ok", "fail"}],
         \A c \in Callers : c # e => result'[c] = result[c],
         e \in Sync /\ to = "sweep" /\ result'[e] = "ok" => e \in Released,
         e \in Sync /\ to = "done" /\ result'[e] = "ok" => calls[e] = 1 /\ told[e] = "ok"
  PROVE  OInv'
<1>1. TypeOK /\ LockInv /\ SessionInv /\ EventInv /\ SyncInv /\ SyncExportHonest /\ e \in Callers
  BY DEF OInv, Callers
<1>2. /\ StepsOK' /\ pc'[e] = to /\ \A d \in Callers : d # e => pc'[d] = pc[d]
      /\ \A d \in Exports : d # e => pc'[d] = pc[d]
  BY <1>1, MoveOn DEF ExportSteps
<1>3. TypeOK' BY <1>1, <1>2 DEF TypeOK
<1>4. /\ \A c \in Flushing : result'[c] = result[c]
      /\ \A s \in Exports : s # e => result'[s] = result[s]
  BY DEF Callers
<1>5. /\ SessionInv' /\ CounterInv' /\ FlushInv' /\ FlushHonest' /\ DestroyInv'
      /\ Added' = Added /\ Counted' = Counted /\ Released' = Released
  BY <1>4, ExportFrame DEF EarlySteps
<1>6. LockInv'
  <2>1. \A c \in Callers : pc'[c] \in {"finish", "cleaning", "lastFinish"} => pc'[c] = pc[c]
    BY <1>2
  <2>2. QED BY <1>1, <2>1, KeepLock
<1>7. EventInv' BY <1>1, <1>2, KeepEvents
<1>8. e \in Added BY <1>1 DEF Added, SessionInv
<1>9. SyncInv' BY <1>1, <1>2, <1>4, <1>5, <1>8 DEF SyncInv
<1>10. SyncExportHonest' BY <1>1, <1>2, <1>4 DEF SyncExportHonest
<1>11. QED BY <1>3, <1>5, <1>6, <1>7, <1>9, <1>10 DEF OInv

\* For a sync Export few enough means none, its own session included.
LEMMA ExportCheckOInv ==
  ASSUME OInv, NEW e \in Exports, ExportCheck(e)
  PROVE  OInv'
<1>1. TypeOK /\ SessionInv /\ e \in Callers BY DEF OInv, Callers
<1>2. UNCHANGED <<clientVars, lockVars, handlerVars, http, event, waitCounter, inShutdown, before>>
  BY DEF ExportCheck
<1>3. PICK to \in {"sweep", "block"} :
        /\ pc' = [pc EXCEPT ![e] = to] /\ pc[e] \in {"check", "lastCheck"}
        /\ \/ FewEnough(e) /\ result' = [result EXCEPT ![e] = "ok"]
           \/ to = "block" /\ result' = result
           \/ result' = [result EXCEPT ![e] = "fail"]
  BY DEF ExportCheck, Goto
<1>4. /\ result' \in [Callers -> {"none", "ok", "fail"}]
      /\ \A c \in Callers : c # e => result'[c] = result[c]
      /\ to = "sweep" /\ result'[e] = "ok" => FewEnough(e)
  BY <1>1, <1>3 DEF TypeOK
<1>5. e \in Sync /\ FewEnough(e) => e \in Released
  <2>1. SUFFICES ASSUME e \in Sync, FewEnough(e) PROVE e \in Released
    OBVIOUS
  <2>2. running \in SUBSET Exports BY <1>1 DEF TypeOK
  <2>3. IsFiniteSet(running) /\ Cardinality(running) \in Nat BY <2>2, FiniteSessions
  <2>4. Cardinality(running) = 0 BY <2>1, <2>3 DEF FewEnough
  <2>5. running = {} BY <2>3, <2>4, FS_EmptySet
  <2>6. e \in Added BY <1>1, <1>3 DEF Added, SessionInv
  <2>7. QED BY <2>5, <2>6, SessionSets
<1>6. wakerLock' \in Callers \union {Nobody} BY <1>1, <1>2 DEF TypeOK
<1>7. QED BY <1>2, <1>3, <1>4, <1>5, <1>6, ExportResult

LEMMA ExportReturnOInv ==
  ASSUME OInv, NEW e \in Exports, ExportReturn(e)
  PROVE  OInv'
<1>1. /\ pc' = [pc EXCEPT ![e] = "done"] /\ pc[e] = "return" /\ wakerLock' = Nobody
      /\ result' = [result EXCEPT ![e] = IF @ = "ok" /\ e \in Sync THEN told[e] ELSE @]
      /\ UNCHANGED <<clientVars, managerLock, sweep, handlerVars, http, event,
                     waitCounter, inShutdown, before>>
  BY DEF ExportReturn, Unlock
<1>2. TypeOK /\ SessionInv /\ SyncInv /\ e \in Callers BY DEF OInv, Callers
<1>3. /\ result' \in [Callers -> {"none", "ok", "fail"}]
      /\ \A c \in Callers : c # e => result'[c] = result[c]
      /\ result'[e] = IF result[e] = "ok" /\ e \in Sync THEN told[e] ELSE result[e]
  BY <1>1, <1>2 DEF TypeOK
<1>4. ASSUME e \in Sync, result'[e] = "ok" PROVE calls[e] = 1 /\ told[e] = "ok"
  <2>1. result[e] = "ok" /\ told[e] = "ok" BY <1>3, <1>4
  <2>2. e \in Added \ running BY <1>1, <1>2, <1>4, <2>1, SessionSets DEF SyncInv
  <2>3. stopping[e] /\ http[e] # "none" BY <1>2, <2>2 DEF SessionInv, Added
  <2>4. QED BY <1>2, <2>1, <2>3 DEF SessionInv
<1>5. QED BY <1>1, <1>3, <1>4, ExportResult

\* Every step of an Export.
LEMMA ExportOInv ==
  ASSUME OInv, NEW e \in Exports, Export(e)
  PROVE  OInv'
<1>1. e \in Threads BY DEF Threads
<1>2. QED BY <1>1, AddSessionOInv, CountSessionOInv, SendRequestOInv, SendRefusedOInv,
             HandlerOInv, SendReturnsOInv, ExportWaits, ExportCheckOInv, ExportBeginCleanup,
             ExportEndCleanup, ExportReturnOInv DEF Export

-----------------------------------------------------------------------------
(* The invariant, and what follows from it.                                *)

LEMMA InitOInv == Init => OInv
<1>1. SUFFICES ASSUME Init PROVE OInv
  OBVIOUS
<1>2. /\ \A c \in Callers : pc[c] = "idle" /\ result[c] = "none"
      /\ \A e \in Exports : pc[e] = "idle" /\ http[e] = "none"
      /\ \A c \in Flushing : pc[c] = "idle" /\ result[c] = "none"
  BY <1>1 DEF Init, Http!NoSessions, Callers
<1>3. TypeOK
  <2>1. StepsOK
    <3>1. "idle" \in ExportSteps /\ \A c \in Flushing : "idle" \in FlusherSteps(c)
      BY DEF ExportSteps, FlusherSteps
    <3>2. pc \in [Callers -> ExportSteps \union FlusherSteps(Destructor)]
      BY <1>1, <3>1 DEF Init
    <3>3. QED BY <1>2, <3>1, <3>2 DEF StepsOK
  <2>2. QED BY <1>1, <2>1 DEF Init, TypeOK, Http!NoSessions, Http!Stages
<1>4. Added = {} /\ Counted = {} /\ Released = {}
  BY <1>2 DEF Added, Counted, Released
<1>5. LockInv /\ SessionInv /\ SyncInv /\ SyncExportHonest
  BY <1>1, <1>2, <1>4 DEF Init, LockInv, SessionInv, SyncInv, SyncExportHonest
<1>6. EventInv
  <2>1. \A t \in Threads : event[t] = NoEvent /\ event[t].step # "release"
    BY <1>1 DEF Init, Threads, NoEvent
  <2>2. QED BY <2>1 DEF EventInv, Threads
<1>7. CounterInv BY <1>1, <1>4, FS_EmptySet DEF Init, CounterInv
<1>8. FlushInv /\ FlushHonest BY <1>2 DEF FlushInv, FlushSteps, FlushHonest
<1>9. DestroyInv
  <2>1. pc[Destructor] = "idle" /\ Destructor \notin inShutdown BY <1>1, <1>2 DEF Init, Flushing
  <2>2. QED BY <2>1 DEF DestroyInv, ShutdownSteps, DrainSteps
<1>10. QED BY <1>3, <1>5, <1>6, <1>7, <1>8, <1>9 DEF OInv

LEMMA NextOInv == OInv /\ [Next]_vars => OInv'
<1>1. SUFFICES ASSUME OInv, [Next]_vars PROVE OInv'
  OBVIOUS
<1>2. CASE HttpClient
  BY <1>1, <1>2, HandlerOInv, LetGoOInv, ThreadLeavesOInv, EndRequestOInv
     DEF HttpClient, Threads
<1>3. CASE \E e \in Exports : CreateSession(e) \/ CreateFails(e) \/ Export(e)
  BY <1>1, <1>3, CreateSessionOInv, CreateFailsOInv, ExportOInv
<1>4. CASE \E u \in Users : CallForceFlush(u) \/ CallShutdown(u) \/ Shutdown(u)
  BY <1>1, <1>4, CallOInv, ShutdownOInv DEF Flushing
<1>5. CASE DestroyStart \/ Destroy BY <1>1, <1>5, DestroyStartOInv, DestroyOInv
<1>6. CASE \E c \in Callers : WaitTimeout(c)
  BY <1>1, <1>6, ExportWaits, FlusherWaits DEF Callers
<1>7. CASE UNCHANGED vars
  <2>1. http' \in [Exports -> Http!Stages] /\ event' \in [Threads -> Deliveries \union {NoEvent}]
    BY <1>1, <1>7 DEF OInv, TypeOK, Threads, vars
  <2>2. EventInv' BY <1>1, <1>7 DEF OInv, EventInv, vars
  <2>3. QED BY <1>1, <1>7, <2>1, <2>2, HttpStep DEF vars
<1>8. QED BY <1>1, <1>2, <1>3, <1>4, <1>5, <1>6, <1>7 DEF Next

\* The inductive invariant: the two counters count what they say, sessions are
\* where their Export and the HTTP client have left them, a session is released
\* by one thread, and nobody is in the client while the destructor runs.
THEOREM Consistent == Spec => []OInv
BY InitOInv, NextOInv, PTL DEF Spec

\* Types: members and locals stay in their types.
THEOREM TypeCorrect == Spec => []TypeOK
<1>1. OInv => TypeOK BY DEF OInv
<1>2. QED BY <1>1, Consistent, PTL

\* The result callback of a request runs once, and before ReleaseSession has
\* moved its session, whatever events the HTTP client reports and on whichever
\* threads.
THEOREM OneCallback == Spec => []CallbackOnce
<1>1. OInv => CallbackOnce
  <2>1. SUFFICES ASSUME OInv, NEW e \in Exports
                 PROVE  calls[e] <= 1 /\ (e \in Released => calls[e] = 1)
    BY DEF CallbackOnce
  <2>2. calls[e] <= 1 BY <2>1 DEF OInv, SessionInv
  <2>3. e \in Released => stopping[e] /\ http[e] # "none"
    BY <2>1, SessionSets DEF OInv, SessionInv, Added
  <2>4. QED BY <2>1, <2>2, <2>3 DEF OInv, SessionInv
<1>2. QED BY <1>1, Consistent, PTL

\* A sync Export that returns kSuccess has had its own request answered.
THEOREM HonestExport == Spec => []SyncExportHonest
<1>1. OInv => SyncExportHonest BY DEF OInv
<1>2. QED BY <1>1, Consistent, PTL

\* ForceFlush returns true only when as many sessions have finished as were
\* counted before it, and false only to a caller that has set a timeout.
THEOREM HonestFlush == Spec => []FlushHonest
<1>1. OInv => FlushHonest BY DEF OInv
<1>2. QED BY <1>1, Consistent, PTL

\* The destructor returns to a client that nothing refers to any more.
THEOREM DestructorIsBarrier == Spec => []DestructorBarrier
<1>1. OInv => DestructorBarrier
  <2>1. SUFFICES ASSUME OInv, pc[Destructor] = "done"
                 PROVE  /\ running = {} /\ gc = {}
                        /\ \A t \in Exports \union {Background} : event[t].step # "release"
                        /\ \A e \in Exports : http[e] # "none" =>
                             calls[e] = 1 /\ http[e] \in {"done", "refused", "stray"}
    BY DEF DestructorBarrier
  <2>2. running = {} /\ gc = {} /\ sweep = {} BY <2>1 DEF OInv, DestroyInv
  <2>3. \A t \in Exports \union {Background} : event[t].step # "release"
    BY <2>1, <2>2 DEF OInv, EventInv, Threads
  <2>4. ASSUME NEW e \in Exports, http[e] # "none"
        PROVE  calls[e] = 1 /\ http[e] \in {"done", "refused", "stray"}
    <3>1. pc[e] \in {"idle", "done"}
      <4>1. e \in Callers \ {Destructor} BY DEF Callers, Flushing
      <4>2. QED BY <2>1, <4>1 DEF OInv, DestroyInv
    <3>2. e \in Added BY <2>4, <3>1 DEF Added
    <3>3. stopping[e] /\ http[e] \in {"done", "refused", "stray"}
      BY <2>1, <2>2, <3>2 DEF OInv, SessionInv
    <3>4. QED BY <2>1, <2>4, <3>3 DEF OInv, SessionInv
  <2>5. QED BY <2>2, <2>3, <2>4
<1>2. QED BY <1>1, Consistent, PTL
=============================================================================
