--------------------------- MODULE OtlpHttpClient ---------------------------
(***************************************************************************)
(* exporters/otlp/src/otlp_http_client.cc: Export, which starts a session  *)
(* per request and waits until few enough are running, ForceFlush,         *)
(* Shutdown and the destructor, and the ResponseHandler that the HTTP      *)
(* client's background thread calls.                                       *)
(*                                                                         *)
(* What makes it hard: a session is created, added, counted and sent in    *)
(* four steps, with Shutdown able to come between any two; ReleaseSession  *)
(* notifies without the mutex of the waiters, so a notification can be     *)
(* lost; ForceFlush goes by two counters; and cleanupGCSessions waits for  *)
(* the background thread with both mutexes held.                           *)
(*                                                                         *)
(* The HTTP client is the one of HttpSessions: one background thread, that *)
(* ends one request after the other.  Sections under session_manager_lock_ *)
(* are single actions except cleanupGCSessions.  A spurious wakeup leads   *)
(* where one for another session leads, and is left out.  A local that has *)
(* gone out of scope is set back to its initial value.                     *)
(***************************************************************************)
EXTENDS Integers, FiniteSets

CONSTANTS Exports,    \* calls of Export, each with the session it starts
          Sync,       \* those made with max_running_requests = 0
          MaxRunning, \* max_running_requests of the others
          Users,      \* threads that call ForceFlush or Shutdown, once each
          Patient,    \* those of them that set no timeout
          Destructor, \* the thread that destroys the client
          Background, \* the HTTP client's background thread
          Nobody      \* the holder of a free mutex

Flushing == Users \union {Destructor}  \* who runs ForceFlush
Callers == Exports \union Flushing

ASSUME OtlpAssumption ==
  /\ MaxRunning \in Nat \ {0} /\ IsFiniteSet(Exports)
  /\ Sync \subseteq Exports /\ Patient \subseteq Users
  /\ Exports \intersect Flushing = {} /\ Destructor \notin Users
  /\ Background \notin Callers /\ Nobody \notin Callers

VARIABLES isShutdown,                    \* is_shutdown_
          running, gc,                   \* running_sessions_, gc_sessions_
          started, finished,             \* the two session counters
          wakerLock, managerLock, sweep, \* who holds each mutex, cleanup's local list
          stopping, told,                \* handler: stopping_, result given to the callback
          http,                          \* stage of each session in the HTTP client
          event,                         \* events being delivered, by the delivering thread
          pc, waitCounter, result,       \* callers: step, local, returned value
          inShutdown,                    \* callers that are in Shutdown
          calls, before                  \* history: callback runs, sessions before a flush

clientVars == <<isShutdown, running, gc, started, finished>>
lockVars == <<wakerLock, managerLock, sweep>>
handlerVars == <<stopping, told, calls>>
callVars == <<waitCounter, result, inShutdown, before>>
vars == <<clientVars, lockVars, handlerVars, http, event, pc, callVars>>

Http == INSTANCE HttpSessions WITH Sessions <- Exports, http <- http

\* A terminal event that a thread is delivering: for which session, with which
\* outcome, and what the handler does next.
Deliveries == [session : Exports, outcome : {"ok", "fail"},
               step : {"handle", "release", "over", "again", "last"}]
NoEvent == [step |-> "none"]

Init ==
  /\ isShutdown = FALSE /\ running = {} /\ gc = {} /\ started = 0 /\ finished = 0
  /\ wakerLock = Nobody /\ managerLock = Nobody /\ sweep = {}
  /\ stopping = [e \in Exports |-> FALSE] /\ told = [e \in Exports |-> "none"]
  /\ calls = [e \in Exports |-> 0]
  /\ Http!NoSessions
  /\ event = [t \in Exports \union {Background} |-> NoEvent]
  /\ pc = [c \in Callers |-> "idle"]
  /\ waitCounter = [c \in Flushing |-> 0] /\ before = [c \in Flushing |-> {}]
  /\ result = [c \in Callers |-> "none"] /\ inShutdown = {}

Goto(c, from, to) == pc[c] = from /\ pc' = [pc EXCEPT ![c] = to]

\* Nobody calls a client that is being destroyed.
Callable == pc[Destructor] = "idle"

-----------------------------------------------------------------------------
(* The ResponseHandler, on whichever thread the HTTP client calls it.      *)

Delivering(t, step) == event[t].step = step

\* Mutant: the handler does not test whether it has been called before.
OnEvent_NoExchange(t) ==
  /\ event[t].step \in {"handle", "again"}
  /\ LET s == event[t].session IN
     /\ event' = [event EXCEPT ![t].step = "release", ![t].outcome = "fail"]
     /\ stopping' = [stopping EXCEPT ![s] = TRUE]
     /\ told' = [told EXCEPT ![s] = event[t].outcome]
     /\ calls' = [calls EXCEPT ![s] = @ + 1]
  /\ UNCHANGED <<clientVars, lockVars, http, pc, callVars>>

\* OnResponse and OnEvent: the first to exchange stopping_ runs the callback,
\* and goes on to release the session.  A later one does nothing.
OnEvent(t) ==
  /\ event[t].step \in {"handle", "again"}
  /\ LET s == event[t].session
         over == IF event[t].step = "handle" THEN "over" ELSE "last" IN
     IF stopping[s]
     THEN /\ event' = [event EXCEPT ![t].step = over, ![t].outcome = "fail"]
          /\ UNCHANGED handlerVars
     ELSE /\ event' = [event EXCEPT ![t].step = "release", ![t].outcome = "fail"]
          /\ stopping' = [stopping EXCEPT ![s] = TRUE]
          /\ told' = [told EXCEPT ![s] = event[t].outcome]
          /\ calls' = [calls EXCEPT ![s] = @ + 1]
  /\ UNCHANGED <<clientVars, lockVars, http, pc, callVars>>

\* Mutant: a session that leaves running_sessions_ is not counted as finished.
ReleaseSession_Uncounted(t) ==
  /\ Delivering(t, "release") /\ managerLock = Nobody
  /\ running' = running \ {event[t].session} /\ gc' = gc \union {event[t].session}
  /\ pc' = [c \in Callers |-> IF pc[c] = "waiting" THEN "relock" ELSE pc[c]]
  /\ event' = [event EXCEPT ![t].step = "over"]
  /\ UNCHANGED <<isShutdown, started, finished, lockVars, handlerVars, http, callVars>>

\* ReleaseSession, the end of Unbind.  Every waiter is notified.
ReleaseSession(t) ==
  /\ Delivering(t, "release") /\ managerLock = Nobody
  /\ LET s == event[t].session IN
     IF s \in running
     THEN /\ running' = running \ {s} /\ gc' = gc \union {s} /\ finished' = finished + 1
          /\ pc' = [c \in Callers |-> IF pc[c] = "waiting" THEN "relock" ELSE pc[c]]
     ELSE UNCHANGED <<running, gc, finished, pc>>
  /\ event' = [event EXCEPT ![t].step = "over"]
  /\ UNCHANGED <<isShutdown, started, lockVars, handlerVars, http, callVars>>

\* A client may report a second terminal state: Cancelled after a failure,
\* CreateFailed after ConnectFailed, or any after a response.
SecondEvent(t) ==
  /\ Delivering(t, "over")
  /\ event' = [event EXCEPT ![t].step = "again"]
  /\ UNCHANGED <<clientVars, lockVars, handlerVars, http, pc, callVars>>

Handler(t) == OnEvent(t) \/ ReleaseSession(t) \/ SecondEvent(t)

NewEvent(s, outcome) == [session |-> s, outcome |-> outcome, step |-> "handle"]

-----------------------------------------------------------------------------
(* The background thread of the HTTP client ends one request at a time.    *)

EndRequest(s) ==
  /\ event[Background] = NoEvent
  /\ Http!Report(s)
  /\ \E outcome \in IF http[s] \in {"sent", "flagged"} THEN {"ok", "fail"} ELSE {"fail"} :
       event' = [event EXCEPT ![Background] = NewEvent(s, outcome)]
  /\ UNCHANGED <<clientVars, lockVars, handlerVars, pc, callVars>>

\* The promise that FinishSession waits for is set, if SendRequest has made it.
LetGo ==
  /\ event[Background].step \in {"over", "last"}
  /\ LET s == event[Background].session IN
     Http!Complete(s) \/ (http[s] # "reported" /\ UNCHANGED http)
  /\ event' = [event EXCEPT ![Background] = NoEvent]
  /\ UNCHANGED <<clientVars, lockVars, handlerVars, pc, callVars>>

\* The thread has looked at everything, and leaves.  A session that is
\* cancelled after that look is not ended until another request starts a thread.
ThreadLeaves ==
  /\ event[Background] = NoEvent
  /\ Http!ThreadLeaves
  /\ UNCHANGED <<clientVars, lockVars, handlerVars, event, pc, callVars>>

HttpClient ==
  Handler(Background) \/ LetGo \/ ThreadLeaves \/ \E s \in Exports : EndRequest(s)

-----------------------------------------------------------------------------
(* Waiting on session_waker_, and cleanupGCSessions.                       *)

\* Between testing and blocking a notification is lost.
Block(c) ==
  /\ Goto(c, "block", "waiting")
  /\ wakerLock' = Nobody
  /\ UNCHANGED <<clientVars, managerLock, sweep, handlerVars, http, event, callVars>>

\* Mutant: Export waits without a timeout.
WaitTimeout_NotInExport(c) ==
  /\ c \notin Exports /\ Goto(c, "waiting", "expired")
  /\ UNCHANGED <<clientVars, lockVars, handlerVars, http, event, callVars>>

\* wait_for expires: after options_.timeout, or the rest of the caller's own.
WaitTimeout(c) ==
  /\ Goto(c, "waiting", "expired")
  /\ UNCHANGED <<clientVars, lockVars, handlerVars, http, event, callVars>>

Relock(c, from, to) ==
  /\ Goto(c, from, to)
  /\ wakerLock = Nobody /\ wakerLock' = c
  /\ UNCHANGED <<clientVars, managerLock, sweep, handlerVars, http, event, callVars>>

\* The list is swapped out, and FinishSession is called for each entry, all
\* with session_manager_lock_ held.
BeginCleanup(c, from, to) ==
  /\ Goto(c, from, to)
  /\ managerLock = Nobody /\ managerLock' = c
  /\ sweep' = gc /\ gc' = {}
  /\ UNCHANGED <<isShutdown, running, started, finished, wakerLock, handlerVars, http, event,
                 callVars>>

\* FinishSession waits for the promise of the request, if there is one yet.
FinishReturns(s) == http[s] \in {"done", "refused"} \/ (http[s] = "stray" /\ pc[s] = "send")

EndCleanup(c, from, to) ==
  /\ Goto(c, from, to)
  /\ \A s \in sweep : FinishReturns(s)
  /\ sweep' = {} /\ managerLock' = Nobody
  /\ UNCHANGED <<clientVars, wakerLock, handlerVars, http, event, callVars>>

Unlock(c, to) ==
  /\ pc' = [pc EXCEPT ![c] = to]
  /\ wakerLock' = Nobody
  /\ UNCHANGED <<clientVars, managerLock, sweep, handlerVars, http, event>>

-----------------------------------------------------------------------------
(* Export.                                                                 *)

\* Exporters are not called concurrently: one Export at a time.
ExportCallable == Callable /\ \A e \in Exports : pc[e] \in {"idle", "done"}

\* createSession, under session_manager_lock_ from its test of IsShutdown on.
CreateSession(e) ==
  /\ ExportCallable /\ Goto(e, "idle", "add")
  /\ managerLock = Nobody /\ ~isShutdown
  /\ Http!CreateSession(e)
  /\ UNCHANGED <<clientVars, lockVars, handlerVars, event, callVars>>

\* createSession after Shutdown, or with a URL that does not parse or a
\* message that cannot be serialised: the callback is run on the spot.
CreateFails(e) ==
  /\ ExportCallable /\ Goto(e, "idle", "done")
  /\ told' = [told EXCEPT ![e] = "fail"] /\ calls' = [calls EXCEPT ![e] = @ + 1]
  /\ result' = [result EXCEPT ![e] = "fail"]
  /\ UNCHANGED <<clientVars, lockVars, stopping, http, event, waitCounter, inShutdown, before>>

\* addSession, in its three steps.
AddSession(e) ==
  /\ Goto(e, "add", "count")
  /\ managerLock = Nobody
  /\ running' = running \union {e}
  /\ UNCHANGED <<isShutdown, gc, started, finished, lockVars, handlerVars, http, event, callVars>>

\* Mutant: the session is counted only if it is still running.
CountSession_IfRunning(e) ==
  /\ Goto(e, "count", "send")
  /\ started' = IF http[e] = "dropped" THEN started ELSE started + 1
  /\ Http!StartSend(e)
  /\ UNCHANGED <<isShutdown, running, gc, finished, lockVars, handlerVars, event, callVars>>

CountSession(e) ==
  /\ Goto(e, "count", "send")
  /\ started' = started + 1
  /\ Http!StartSend(e)
  /\ UNCHANGED <<isShutdown, running, gc, finished, lockVars, handlerVars, event, callVars>>

SendRequest(e) ==
  /\ Goto(e, "send", "lock")
  /\ Http!HandOver(e)
  /\ UNCHANGED <<clientVars, lockVars, handlerVars, event, callVars>>

\* SendRequest cannot set the request up, and calls the handler itself.
SendRefused(e) ==
  /\ Goto(e, "send", "refused")
  /\ Http!Refuse(e)
  /\ event' = [event EXCEPT ![e] = NewEvent(e, "fail")]
  /\ UNCHANGED <<clientVars, lockVars, handlerVars, callVars>>

SendReturns(e) ==
  /\ Goto(e, "refused", "lock")
  /\ event[e].step \in {"over", "last"}
  /\ event' = [event EXCEPT ![e] = NoEvent]
  /\ UNCHANGED <<clientVars, lockVars, handlerVars, http, callVars>>

FewEnough(e) == Cardinality(running) <= IF e \in Sync THEN 0 ELSE MaxRunning

\* The predicate of wait_for; result holds wait_successful until Export returns.
ExportCheck(e) ==
  /\ managerLock = Nobody
  /\ \/ /\ FewEnough(e) /\ (Goto(e, "check", "sweep") \/ Goto(e, "lastCheck", "sweep"))
        /\ result' = [result EXCEPT ![e] = "ok"]
     \/ /\ ~FewEnough(e) /\ Goto(e, "check", "block")
        /\ UNCHANGED result
     \/ /\ ~FewEnough(e) /\ Goto(e, "lastCheck", "sweep")
        /\ result' = [result EXCEPT ![e] = "fail"]
  /\ UNCHANGED <<clientVars, lockVars, handlerVars, http, event, waitCounter, inShutdown, before>>

\* Mutant: session_result is returned whether or not the wait succeeded.
ExportReturn_Default(e) ==
  /\ pc[e] = "return" /\ Unlock(e, "done")
  /\ result' = [result EXCEPT ![e] = IF told[e] = "none" THEN "ok" ELSE told[e]]
  /\ UNCHANGED <<waitCounter, inShutdown, before>>

\* Only a sync Export has the outcome of its own request to return.
ExportReturn(e) ==
  /\ pc[e] = "return" /\ Unlock(e, "done")
  /\ result' = [result EXCEPT ![e] = IF @ = "ok" /\ e \in Sync THEN told[e] ELSE @]
  /\ UNCHANGED <<waitCounter, inShutdown, before>>

Export(e) ==
  \/ AddSession(e) \/ CountSession(e) \/ SendRequest(e) \/ SendRefused(e)
  \/ Handler(e) \/ SendReturns(e)
  \/ Relock(e, "lock", "check") \/ ExportCheck(e) \/ Block(e)
  \/ Relock(e, "relock", "check") \/ Relock(e, "expired", "lastCheck")
  \/ BeginCleanup(e, "sweep", "finish") \/ EndCleanup(e, "finish", "return")
  \/ ExportReturn(e)

-----------------------------------------------------------------------------
(* ForceFlush, on its own or from Shutdown.                                *)

\* Sessions that start_session_counter_ has counted.
Counted == {e \in Exports : http[e] # "none" /\ pc[e] \notin {"add", "count"}}

\* Sessions that ReleaseSession has moved out of running_sessions_.
Released == {e \in Exports : http[e] # "none" /\ pc[e] # "add"} \ running

CallForceFlush(u) ==
  /\ Callable /\ Goto(u, "idle", "flush")
  /\ UNCHANGED <<clientVars, lockVars, handlerVars, http, event, callVars>>

FlushStart(c) ==
  /\ Goto(c, "flush", "flushCheck")
  /\ wakerLock = Nobody /\ wakerLock' = c
  /\ waitCounter' = [waitCounter EXCEPT ![c] = started]
  /\ before' = [before EXCEPT ![c] = Counted]
  /\ UNCHANGED <<clientVars, managerLock, sweep, handlerVars, http, event, result, inShutdown>>

FlushCheck(c) ==
  /\ managerLock = Nobody
  /\ Goto(c, "flushCheck", IF running = {} THEN "flushResult" ELSE "block")
  /\ UNCHANGED <<clientVars, lockVars, handlerVars, http, event, callVars>>

\* The head of the loop: a caller with a timeout may find it used up.
LoopHeads(c) == {"flushCheck"} \union IF c \in Patient \union {Destructor} THEN {} ELSE {"flushResult"}

FlushWoken(c) ==
  /\ \E head \in IF finished >= waitCounter[c] THEN {"flushResult"} ELSE LoopHeads(c) :
       Goto(c, "woken", head)
  /\ UNCHANGED <<clientVars, lockVars, handlerVars, http, event, callVars>>

\* Mutant: the counters are not compared once the wait is over.
FlushResult_Unchecked(c) ==
  /\ pc[c] = "flushResult" /\ Unlock(c, IF c \in inShutdown THEN "cancel" ELSE "done")
  /\ result' = [result EXCEPT ![c] = "ok"]
  /\ waitCounter' = [waitCounter EXCEPT ![c] = 0]
  /\ UNCHANGED <<inShutdown, before>>

FlushResult(c) ==
  /\ pc[c] = "flushResult" /\ Unlock(c, IF c \in inShutdown THEN "cancel" ELSE "done")
  /\ result' = [result EXCEPT ![c] = IF finished >= waitCounter[c] THEN "ok" ELSE "fail"]
  /\ waitCounter' = [waitCounter EXCEPT ![c] = 0]
  /\ UNCHANGED <<inShutdown, before>>

\* The destructor has a loop of its own, after Shutdown.
InFlush(c) == c # Destructor \/ c \in inShutdown

ForceFlush(c) ==
  \/ FlushStart(c) \/ FlushCheck(c) \/ FlushWoken(c) \/ FlushResult(c)
  \/ pc[c] = "block" /\ Block(c)
  \/ InFlush(c) /\ Relock(c, "relock", "woken")
  \/ Relock(c, "expired", "clean")
  \/ BeginCleanup(c, "clean", "cleaning")
  \/ InFlush(c) /\ \E head \in LoopHeads(c) : EndCleanup(c, "cleaning", head)

-----------------------------------------------------------------------------
(* Shutdown and the destructor.                                            *)

CallShutdown(u) ==
  /\ Callable /\ Goto(u, "idle", "flush")
  /\ isShutdown' = TRUE /\ inShutdown' = inShutdown \union {u}
  /\ UNCHANGED <<running, gc, started, finished, lockVars, handlerVars, http, event,
                 waitCounter, result, before>>

\* CancelAllSessions leaves nothing registered for FinishAllSessions to wait
\* for, since creating a session takes the lock that is held here.
CancelAllSessions(c) ==
  /\ Goto(c, "cancel", "sweep")
  /\ managerLock = Nobody
  /\ Http!Cancel(Exports)
  /\ UNCHANGED <<clientVars, lockVars, handlerVars, event, callVars>>

ShutdownReturn(c) ==
  /\ Goto(c, "return", IF c = Destructor THEN "drain" ELSE "done")
  /\ inShutdown' = inShutdown \ {c}
  /\ UNCHANGED <<clientVars, lockVars, handlerVars, http, event, waitCounter, result, before>>

\* The loop flushes again while cleanupGCSessions leaves something behind.
Shutdown(c) ==
  \/ ForceFlush(c) \/ CancelAllSessions(c)
  \/ BeginCleanup(c, "sweep", "finish")
  \/ EndCleanup(c, "finish", IF gc # {} THEN "flush" ELSE "return")
  \/ ShutdownReturn(c)

\* The client is destroyed when every call of it has returned.
DestroyStart ==
  /\ \A c \in Callers \ {Destructor} : pc[c] \in {"idle", "done"}
  /\ Goto(Destructor, "idle", IF isShutdown THEN "drain" ELSE "flush")
  /\ isShutdown' = TRUE
  /\ inShutdown' = IF isShutdown THEN inShutdown ELSE inShutdown \union {Destructor}
  /\ UNCHANGED <<running, gc, started, finished, lockVars, handlerVars, http, event,
                 waitCounter, result, before>>

\* Mutant: the destructor does not wait for the sessions that are running.
DrainCheck_NoWait ==
  /\ managerLock = Nobody /\ Goto(Destructor, "drainCheck", "last")
  /\ UNCHANGED <<clientVars, lockVars, handlerVars, http, event, callVars>>

DrainCheck ==
  /\ managerLock = Nobody
  /\ Goto(Destructor, "drainCheck", IF running = {} THEN "last" ELSE "block")
  /\ UNCHANGED <<clientVars, lockVars, handlerVars, http, event, callVars>>

DestroyReturn ==
  /\ pc[Destructor] = "destroyed" /\ Unlock(Destructor, "done") /\ UNCHANGED callVars

Destroy ==
  LET d == Destructor IN
  \/ Shutdown(d)
  \/ Relock(d, "drain", "drainCheck") \/ DrainCheck
  \/ ~InFlush(d) /\ (Relock(d, "relock", "drainCheck") \/ EndCleanup(d, "cleaning", "drainCheck"))
  \/ BeginCleanup(d, "last", "lastFinish")
  \/ EndCleanup(d, "lastFinish", IF gc # {} THEN "last" ELSE "destroyed")
  \/ DestroyReturn

-----------------------------------------------------------------------------
Next ==
  \/ HttpClient
  \/ \E e \in Exports : CreateSession(e) \/ CreateFails(e) \/ Export(e)
  \/ \E u \in Users : CallForceFlush(u) \/ CallShutdown(u) \/ Shutdown(u)
  \/ DestroyStart \/ Destroy
  \/ \E c \in Callers : WaitTimeout(c)

Spec == Init /\ [][Next]_vars

(***************************************************************************)
(* Threads are scheduled, a mutex that is free is acquired in the end, a   *)
(* wait_for ends at its deadline, and the HTTP client ends every request   *)
(* its thread has, at the request's own timeout at the latest; nothing is  *)
(* assumed of one that was left behind.  No call has to be made; the       *)
(* client is destroyed once it is not used.                                *)
(***************************************************************************)
Fairness ==
  /\ WF_vars(OnEvent(Background) \/ LetGo)
  /\ \A s \in Exports : WF_vars(http[s] \in {"sent", "flagged"} /\ EndRequest(s))
  /\ \A t \in Exports \union {Background} : SF_vars(ReleaseSession(t))
  /\ \A e \in Exports : WF_vars(Export(e))
  /\ \A u \in Users : WF_vars(Shutdown(u))
  /\ WF_vars(Destroy)
  /\ \A c \in Callers : WF_vars(WaitTimeout(c))

FairSpec == Spec /\ Fairness

-----------------------------------------------------------------------------
ExportSteps == {"idle", "add", "count", "send", "refused", "lock", "check", "lastCheck", "sweep",
                "finish", "return", "block", "waiting", "relock", "expired", "done"}
FlushSteps == {"flushCheck", "block", "waiting", "relock", "woken", "expired", "clean",
               "cleaning", "flushResult"}
ShutdownSteps == {"cancel", "sweep", "finish", "return"}
DrainSteps == {"drain", "drainCheck", "last", "lastFinish", "destroyed"}

FlusherSteps(c) == FlushSteps \union ShutdownSteps \union {"idle", "flush", "done"}
                     \union IF c = Destructor THEN DrainSteps ELSE {}

\* Every caller is at a step of an operation it may call.
StepsOK ==
  /\ pc \in [Callers -> ExportSteps \union FlusherSteps(Destructor)]
  /\ \A e \in Exports : pc[e] \in ExportSteps
  /\ \A c \in Flushing : pc[c] \in FlusherSteps(c)

\* Types: what the members of the client and the locals can hold.
TypeOK ==
  /\ isShutdown \in BOOLEAN /\ running \subseteq Exports /\ gc \subseteq Exports
  /\ started \in Nat /\ finished \in Nat
  /\ wakerLock \in Callers \union {Nobody} /\ managerLock \in Callers \union {Nobody}
  /\ sweep \subseteq Exports
  /\ stopping \in [Exports -> BOOLEAN] /\ told \in [Exports -> {"none", "ok", "fail"}]
  /\ calls \in [Exports -> Nat]
  /\ http \in [Exports -> Http!Stages]
  /\ event \in [Exports \union {Background} -> Deliveries \union {NoEvent}]
  /\ StepsOK
  /\ waitCounter \in [Flushing -> Nat] /\ before \in [Flushing -> SUBSET Exports]
  /\ result \in [Callers -> {"none", "ok", "fail"}] /\ inShutdown \subseteq Flushing

\* However many terminal states the HTTP client reports for a session, and on
\* whichever threads, the result callback runs once, before the session is
\* released, so that the response it is given is still there.
CallbackOnce ==
  \A e \in Exports : calls[e] <= 1 /\ (e \in Released => calls[e] = 1)

\* A sync Export that returns kSuccess has had its own request answered, not
\* the default of session_result or the answer to somebody else's.
SyncExportHonest ==
  \A e \in Sync : pc[e] = "done" /\ result[e] = "ok" => calls[e] = 1 /\ told[e] = "ok"

\* What the result of ForceFlush says.  Success: every session that was started
\* before it has finished, unless one that was started later finished instead.
\* Failure: the caller had set a timeout, since running_sessions_ being empty
\* means that all that were counted have finished.
FlushHonest ==
  \A c \in Flushing :
    /\ result[c] = "ok" => before[c] \subseteq Released \/ \E e \in Released : e \notin before[c]
    /\ c \in Patient \union {Destructor} => result[c] # "fail"

\* When the destructor has returned no session is running, no thread is on
\* its way into the client, every callback has run, and the HTTP client has
\* let go of every handler.
DestructorBarrier ==
  pc[Destructor] = "done" =>
    /\ running = {} /\ gc = {}
    /\ \A t \in Exports \union {Background} : event[t].step # "release"
    /\ \A e \in Exports : http[e] # "none" =>
         calls[e] = 1 /\ http[e] \in {"done", "refused", "stray"}

(***************************************************************************)
(* The inductive invariant behind these.                                   *)
(***************************************************************************)

Threads == Exports \union {Background}

\* Sessions that addSession has put into running_sessions_, at some time.
Added == {e \in Exports : http[e] # "none" /\ pc[e] # "add"}

\* session_manager_lock_ is held in cleanupGCSessions, and what that holds in
\* its list nobody else adds to.
LockInv ==
  /\ \A c \in Callers : pc[c] \in {"finish", "cleaning", "lastFinish"} => managerLock = c
  /\ managerLock # Nobody => gc = {}
  /\ managerLock = Nobody => sweep = {}

\* Where a session can be, by how far its Export has come and its stage.
SessionInv ==
  /\ running \subseteq Added /\ gc \subseteq Added /\ sweep \subseteq Added
  /\ running \intersect gc = {} /\ running \intersect sweep = {}
  /\ \A e \in Exports :
       /\ pc[e] \in {"idle", "add", "count"} => http[e] \in {"none", "created", "dropped"} /\ ~stopping[e]
       /\ pc[e] = "idle" => http[e] = "none" /\ calls[e] = 0
       /\ pc[e] \in {"add", "count"} => http[e] # "none"
       /\ pc[e] = "count" => e \in running
       /\ http[e] \in {"none", "created"} => ~stopping[e]
       /\ http[e] = "none" => pc[e] \in {"idle", "done"}
       /\ http[e] # "none" => calls[e] = IF stopping[e] THEN 1 ELSE 0
       /\ calls[e] <= 1
       /\ e \in Added \ running => stopping[e]
       /\ e \in Added \ (running \union gc \union sweep) =>
            http[e] \in {"done", "refused", "stray"}

\* Who may be calling a handler, and that one thread releases a session.
EventInv ==
  /\ \A e \in Exports : event[e] # NoEvent =>
       event[e].session = e /\ pc[e] = "refused" /\ http[e] = "refused"
  /\ \A t \in Threads : event[t] # NoEvent =>
       http[event[t].session] \in {"reported", "stray", "refused"}
  /\ \A t \in Threads : event[t].step = "release" =>
       stopping[event[t].session] /\ event[t].session \in running
  /\ \A t, u \in Threads : event[t].step = "release" /\ event[u].step = "release"
                            /\ event[t].session = event[u].session => t = u

\* The two counters.
CounterInv ==
  /\ started = Cardinality(Counted) /\ finished = Cardinality(Released)

\* A flush waits for as many sessions as had been counted when it began.
FlushInv ==
  \A c \in Flushing :
    /\ pc[c] = "idle" \/ (pc[c] \in {"flush"} \union FlushSteps /\ InFlush(c)) => result[c] = "none"
    /\ pc[c] \in FlushSteps /\ InFlush(c) =>
         before[c] \subseteq Counted /\ waitCounter[c] = Cardinality(before[c])
    /\ pc[c] = "flushResult" /\ c \in Patient \union {Destructor} => finished >= waitCounter[c]

\* A sync Export whose wait succeeded has its own outcome to return.
SyncInv ==
  \A e \in Sync :
    /\ pc[e] \in {"sweep", "finish", "return"} /\ result[e] = "ok" => e \in Released
    /\ pc[e] \in {"check", "lastCheck", "block", "waiting", "relock", "expired"} => e \in Added
    /\ pc[e] = "done" => e \in Added \/ result[e] = "fail"

\* The destructor runs alone, and its last steps have nothing left to do.
DestroyInv ==
  /\ pc[Destructor] # "idle" => \A c \in Callers \ {Destructor} : pc[c] \in {"idle", "done"}
  /\ pc[Destructor] \in {"flush", "flushCheck", "woken", "flushResult"} \union ShutdownSteps
       => Destructor \in inShutdown
  /\ pc[Destructor] \in DrainSteps \union {"idle", "done"} => Destructor \notin inShutdown
  /\ pc[Destructor] \in {"last", "lastFinish", "destroyed", "done"} => running = {}
  /\ pc[Destructor] \in {"destroyed", "done"} => gc = {} /\ sweep = {}

OInv ==
  /\ TypeOK /\ LockInv /\ SessionInv /\ EventInv /\ CounterInv /\ FlushInv /\ SyncInv
  /\ DestroyInv /\ SyncExportHonest /\ FlushHonest

(* Liveness.                                                               *)

\* A session that a cancel has made the HTTP client lose track of: before it
\* was handed over, or when the client's thread was about to leave.
Forgotten == \E e \in Exports : http[e] \in {"dropped", "aborting", "stray", "left"}

\* Every call returns, the destructor's wait for the last session included:
\* notifications can be lost, but all waits are bounded by options_.timeout,
\* and the HTTP client ends what its thread has.  The exceptions are a session
\* that was cancelled before it was handed over, and one that was cancelled
\* after the thread's last look: the destructor may wait for either for ever.
CallsReturn == []<>(Forgotten \/ \A c \in Callers : pc[c] \in {"idle", "done"})

\* What the comment in the destructor's loop says: it does not wait forever.
\* A thread that left without a session is another matter, and set aside here.
NeverWaitsForever ==
  pc[Destructor] # "idle" ~> pc[Destructor] = "done" \/ \E e \in Exports : http[e] = "left"
=============================================================================
