--------------------------- MODULE HttpClientCurl ---------------------------
(***************************************************************************)
(* ext/src/http/client/curl: http_client_curl.cc and the asynchronous side *)
(* of http_operation_curl.cc.  A session is registered, sent by its owner, *)
(* driven by a background thread that is spawned on demand and leaves when *)
(* it finds nothing to do, and finished or cancelled from any thread.      *)
(*                                                                         *)
(* What makes it hard: SendRequest, CancelSession, the cleanup of an       *)
(* operation and the decision to leave all touch the same five containers, *)
(* under two mutexes that are taken one after the other, so that a session *)
(* can be in none of them while some thread holds it; and the flags of an  *)
(* operation are reset by SendAsync after a cancel may have raised them.   *)
(*                                                                         *)
(* A section under sessions_m_ or session_ids_m_ is one action.  What the  *)
(* handler of the user is told first is `told', since an operation may     *)
(* tell it more than once (Cancelled, from Cleanup and from the callback); *)
(* it does not call back into the client.  curl_multi_poll ends by itself and wakeups only shorten it, so *)
(* both are left out, and so is is_aborted_, which only ends a transfer    *)
(* sooner and repeats a Cancelled.  CancelSession alone is one round of    *)
(* the loop of CancelAllSessions.                                          *)
(***************************************************************************)
EXTENDS Integers, FiniteSets

CONSTANTS Sessions,    \* sessions, each with the thread that owns it
          Cancellers,  \* threads that call CancelAllSessions, once each
          Destructor,  \* the thread that destroys the client
          Worker,      \* the background thread, while there is one
          MaxAttempts, \* retry_policy_.max_attempts
          Nothing      \* the session of a thread that has none

Callers == Sessions \union Cancellers \union {Destructor}

ASSUME CurlAssumption ==
  /\ MaxAttempts \in Nat
  /\ Sessions \intersect Cancellers = {} /\ Destructor \notin Sessions \union Cancellers
  /\ Worker \notin Callers /\ Nothing \notin Sessions

VARIABLES sessions,                      \* sessions_
          toAdd, toAbort,                \* pending_to_add_session_ids_, pending_to_abort_sessions_
          toRemove, dropping,            \* pending_to_remove_session_handles_, ..._sessions_
          toRetry,                       \* pending_to_retry_sessions_
          state, cleaned, active,        \* operation: session_state_, is_cleaned_; is_session_active_
          bound, promise,                \* async_data_: session set, result_promise
          handle, multi, live, attempts, \* easy handles, those in the multi handle, transfers running
          thread, busy, isShutdown,      \* background_thread_, its mutex held, is_shutdown_
          taken,                         \* the destructor's background_thread
          pc, todo, target,              \* step, locals: sessions still to do, session at hand
          phase, stillRunning,           \* locals of the background thread
          told                           \* what the handler has been told first

containers == <<sessions, toAdd, toAbort, toRemove, dropping, toRetry>>
operation == <<state, cleaned, active, bound, promise>>
curl == <<handle, multi, live, attempts>>
client == <<thread, busy, isShutdown, taken>>
locals == <<todo, target>>
workerVars == <<phase, stillRunning>>
vars == <<containers, operation, curl, client, pc, locals, workerVars, told>>

Init ==
  /\ sessions = {} /\ toAdd = {} /\ toAbort = {} /\ toRemove = {} /\ dropping = {} /\ toRetry = {}
  /\ state = [s \in Sessions |-> "none"] /\ cleaned = {} /\ active = {}
  /\ bound = {} /\ promise = [s \in Sessions |-> "none"]
  /\ handle = [s \in Sessions |-> "none"] /\ multi = {} /\ live = {}
  /\ attempts = [s \in Sessions |-> 0]
  /\ thread = FALSE /\ busy = FALSE /\ isShutdown = FALSE /\ taken = FALSE
  /\ pc = [p \in Callers \union {Worker} |-> "idle"]
  /\ todo = [p \in Callers \union {Worker} |-> {}]
  /\ target = [p \in Callers \union {Worker} |-> IF p \in Sessions THEN p ELSE Nothing]
  /\ phase = "read" /\ stillRunning = FALSE
  /\ told = [s \in Sessions |-> "none"]

Goto(p, from, to) == pc[p] = from /\ pc' = [pc EXCEPT ![p] = to]

\* Nobody calls a client that is being destroyed.
Callable == pc[Destructor] = "idle"

-----------------------------------------------------------------------------
(* SendRequest, on the thread of the owner.                                *)

BeforeHandOver == {"created", "setup", "publish", "schedule"}

CreateSession(s) ==
  /\ Callable /\ Goto(s, "idle", "created")
  /\ sessions' = sessions \union {s}
  /\ UNCHANGED <<toAdd, toAbort, toRemove, dropping, toRetry, operation, curl, client, locals,
                 workerVars, told>>

\* The session is active and has an operation, with an easy handle.
NewOperation(s) ==
  /\ Callable /\ Goto(s, "created", "setup")
  /\ active' = active \union {s}
  /\ state' = [state EXCEPT ![s] = "Created"] /\ handle' = [handle EXCEPT ![s] = "own"]
  /\ UNCHANGED <<containers, cleaned, bound, promise, multi, live, attempts, client, locals,
                 workerVars, told>>

\* Compression fails, and there is no operation.
CompressionFails(s) ==
  /\ Callable /\ Goto(s, "created", "sent")
  /\ told' = [told EXCEPT ![s] = "refused"]
  /\ UNCHANGED <<containers, operation, curl, client, locals, workerVars>>

\* Setup fails if a Cleanup has freed the handle already.
SetupOk(s) ==
  /\ handle[s] = "own" /\ Goto(s, "setup", "publish")
  /\ promise' = [promise EXCEPT ![s] = "made"]
  /\ UNCHANGED <<containers, state, cleaned, active, bound, curl, client, locals, workerVars, told>>

\* No handle, or a bad option or header: ConnectFailed, then CreateFailed.
SetupFails(s) ==
  /\ Goto(s, "setup", "sent")
  /\ state' = [state EXCEPT ![s] = "Failed"] /\ active' = active \ {s}
  /\ told' = [told EXCEPT ![s] = "refused"]
  /\ UNCHANGED <<containers, cleaned, bound, promise, curl, client, locals, workerVars>>

\* SendAsync from its Connecting event to the callback, as one step.  A cancel may
\* have come before, so that the background thread can be in Cleanup meanwhile.
\* What is left out: its exchanges of session and of is_promise_running both falling
\* between the two stores here, after which the promise is running and nobody sets
\* it; and its swap of the callback racing the assignment.
Publish(s) ==
  /\ Goto(s, "publish", "schedule")
  /\ state' = [state EXCEPT ![s] = "Connecting"] /\ cleaned' = cleaned \ {s}
  /\ bound' = bound \union {s} /\ promise' = [promise EXCEPT ![s] = "running"]
  /\ UNCHANGED <<containers, active, curl, client, locals, workerVars, told>>

\* A handle that was waiting to be freed is forgotten, and so is an abort.
ScheduleAddSession(s) ==
  /\ Goto(s, "schedule", "spawn")
  /\ toAdd' = toAdd \union {s} /\ toRemove' = toRemove \ {s} /\ toAbort' = toAbort \ {s}
  /\ handle' = [handle EXCEPT ![s] = IF s \in toRemove THEN "leaked" ELSE @]
  /\ UNCHANGED <<sessions, dropping, toRetry, operation, multi, live, attempts, client, locals,
                 workerVars, told>>

MaybeSpawnBackgroundThread(s) ==
  /\ pc[s] = "spawn" /\ ~busy
  /\ pc' = IF thread THEN [pc EXCEPT ![s] = "sent"]
                     ELSE [pc EXCEPT ![s] = "sent", ![Worker] = "perform"]
  /\ thread' = TRUE /\ stillRunning' = IF thread THEN stillRunning ELSE TRUE
  /\ UNCHANGED <<containers, operation, curl, busy, isShutdown, taken, locals, phase, told>>

SendRequest(s) ==
  \/ SetupOk(s) \/ SetupFails(s) \/ Publish(s) \/ ScheduleAddSession(s)
  \/ MaybeSpawnBackgroundThread(s)

-----------------------------------------------------------------------------
(* CancelSession and FinishSession, on any thread; the session is target.  *)

ScheduleAbortSession(p) ==
  /\ Goto(p, "abort", "erase")
  /\ toAbort' = toAbort \union ({target[p]} \intersect sessions)
  /\ sessions' = sessions \ {target[p]} /\ toAdd' = toAdd \ {target[p]}
  /\ UNCHANGED <<toRemove, dropping, toRetry, operation, curl, client, locals, workerVars, told>>

\* CleanupSession: out of sessions_ first, and to the background thread later.
EraseSession(p) ==
  /\ Goto(p, "erase", IF target[p] \in sessions THEN "settle" ELSE "gone")
  /\ sessions' = sessions \ {target[p]}
  /\ UNCHANGED <<toAdd, toAbort, toRemove, dropping, toRetry, operation, curl, client, locals,
                 workerVars, told>>

SettleSession(p, next) ==
  /\ pc[p] \in {"settle", "gone"} /\ pc' = [pc EXCEPT ![p] = next]
  /\ toAdd' = toAdd \ {target[p]}
  /\ LET held == IF pc[p] = "settle" THEN {target[p]} ELSE {} IN
     /\ dropping' = dropping \union (held \intersect toRemove)
     /\ toAbort' = toAbort \union {s \in (held \intersect active) \ toRemove : state[s] # "none"}
  /\ UNCHANGED <<sessions, toRemove, toRetry, operation, curl, client, locals, workerVars, told>>

\* FinishSession returns from its wait when the promise is set, or at once if
\* there is none.
FinishOfPromise(s) ==
  /\ Callable /\ promise[s] # "running" /\ Goto(s, "sent", "erase")
  /\ UNCHANGED <<containers, operation, curl, client, locals, workerVars, told>>

FinishSession(s) == FinishOfPromise(s) \/ EraseSession(s) \/ SettleSession(s, "done")

\* A thread has taken the session out of sessions_, and not yet settled it.
Held(s) == \E p \in Callers : pc[p] = "settle" /\ target[p] = s

\* InternalCancelAllSessions works on a copy of sessions_, until it is empty.
CallCancelAllSessions(k) ==
  /\ Callable /\ Goto(k, "idle", "scan")
  /\ UNCHANGED <<containers, operation, curl, client, locals, workerVars, told>>

Scan(p, next) ==
  /\ Goto(p, "scan", IF sessions = {} THEN next ELSE "next")
  /\ todo' = [todo EXCEPT ![p] = sessions]
  /\ UNCHANGED <<containers, operation, curl, client, target, workerVars, told>>

\* CancelSession: Abort does more only if the operation is bound to a session.
Abort(p) ==
  \/ /\ todo[p] = {} /\ Goto(p, "next", "scan")
     /\ target' = [target EXCEPT ![p] = Nothing]
     /\ UNCHANGED <<containers, operation, curl, client, todo, workerVars, told>>
  \/ \E s \in todo[p] :
       /\ Goto(p, "next", IF s \in bound THEN "abort" ELSE "erase")
       /\ todo' = [todo EXCEPT ![p] = @ \ {s}] /\ target' = [target EXCEPT ![p] = s]
       /\ UNCHANGED <<containers, operation, curl, client, workerVars, told>>

CancelAllSessions(p, next) ==
  Scan(p, next) \/ Abort(p) \/ ScheduleAbortSession(p) \/ EraseSession(p) \/ SettleSession(p, "next")

-----------------------------------------------------------------------------
(* Cleanup of an operation by the background thread; phase is where the    *)
(* thread goes on afterwards.  ~HttpOperation, on the thread that drops    *)
(* the last reference to a session, waits for the promise of a request     *)
(* under way and calls Cleanup as well: references are not modelled, and   *)
(* so that call is left out.                                               *)

\* The handler is told; what counts is the first time, and that it may come before
\* SendRequest has handed the session over.
Tell(s, what) ==
  told' = [told EXCEPT ![s] = IF @ # "none" THEN @
                              ELSE IF pc[s] \in BeforeHandOver THEN "early" ELSE what]

\* Mutant: a request that has not ended is cancelled without an event.
Cleanup_Silent ==
  /\ pc[Worker] = "clean"
  /\ LET s == target[Worker] IN
     IF s \in cleaned
     THEN pc' = [pc EXCEPT ![Worker] = phase] /\ UNCHANGED <<state, cleaned>>
     ELSE /\ pc' = [pc EXCEPT ![Worker] = "unbind"]
          /\ cleaned' = cleaned \union {s}
          /\ state' = [state EXCEPT ![s] = IF @ \in {"Created", "Connecting"} THEN "Cancelled" ELSE @]
  /\ UNCHANGED <<active, bound, promise, containers, curl, client, locals, workerVars, told>>

\* The first to exchange is_cleaned_ cancels a request that has not ended.
Cleanup ==
  /\ pc[Worker] = "clean"
  /\ LET s == target[Worker] IN
     IF s \in cleaned
     THEN pc' = [pc EXCEPT ![Worker] = phase] /\ UNCHANGED <<operation, told>>
     ELSE /\ pc' = [pc EXCEPT ![Worker] = "unbind"]
          /\ cleaned' = cleaned \union {s}
          /\ IF state[s] \in {"Created", "Connecting"}
             THEN state' = [state EXCEPT ![s] = "Cancelled"] /\ Tell(s, "fail")
             ELSE UNCHANGED <<state, told>>
          /\ UNCHANGED <<active, bound, promise>>
  /\ UNCHANGED <<containers, curl, client, locals, workerVars>>

\* An operation that SendAsync has not got to keeps and frees its own handle.
\* Otherwise the handle goes to ScheduleRemoveSession, and the callback tells
\* of an answer.
Unbind ==
  /\ pc[Worker] = "unbind"
  /\ LET s == target[Worker] IN
     \/ /\ promise[s] = "none"
        /\ handle' = [handle EXCEPT ![s] = "freed"]
        /\ pc' = [pc EXCEPT ![Worker] = phase]
        /\ UNCHANGED <<toAdd, toRemove, bound, active, told>>
     \/ /\ s \in bound
        /\ bound' = bound \ {s} /\ active' = active \ {s}
        /\ toAdd' = toAdd \ {s} /\ toRemove' = toRemove \union {s}
        /\ handle' = [handle EXCEPT ![s] = "moved"]
        /\ IF state[s] = "Response" THEN Tell(s, "ok") ELSE UNCHANGED told
        /\ pc' = [pc EXCEPT ![Worker] = "settlePromise"]
     \/ /\ promise[s] # "none" /\ s \notin bound
        /\ pc' = [pc EXCEPT ![Worker] = "settlePromise"]
        /\ UNCHANGED <<toAdd, toRemove, handle, bound, active, told>>
  /\ UNCHANGED <<sessions, toAbort, dropping, toRetry, state, cleaned, promise, multi, live,
                 attempts, client, locals, workerVars>>

SetPromise ==
  /\ Goto(Worker, "settlePromise", phase)
  /\ promise' = [promise EXCEPT ![target[Worker]] = IF @ = "running" THEN "set" ELSE @]
  /\ UNCHANGED <<containers, state, cleaned, active, bound, curl, client, locals, workerVars, told>>

FinishOperation == Cleanup \/ Unbind \/ SetPromise

-----------------------------------------------------------------------------
(* The background thread.                                                  *)

\* curl_multi_perform: some transfers end, their messages are to be read.
Perform(ended) ==
  /\ Goto(Worker, "perform", "read") /\ phase' = "read"
  /\ live' = live \ ended /\ stillRunning' = (live' # {})
  /\ todo' = [todo EXCEPT ![Worker] = ended]
  /\ UNCHANGED <<containers, operation, handle, multi, attempts, client, target, told>>

\* The end of a list of sessions.
EndOf(list, next) ==
  /\ todo[Worker] = {} /\ Goto(Worker, list, next)
  /\ target' = [target EXCEPT ![Worker] = Nothing]
  /\ UNCHANGED <<containers, operation, curl, client, todo, workerVars, told>>

\* Mutant: the attempt that was just made is not counted.
IsRetryable_Uncounted(s) == attempts[s] < MaxAttempts

\* Counted with the attempt that was just made.
IsRetryable(s) == attempts[s] + 1 < MaxAttempts

\* PerformCurlMessage: a failure is told at once, an answer by the callback.
\* An answer that says so is retried, unless it asks for too long a delay.
PerformCurlMessage(s) ==
  /\ s \in todo[Worker]
  /\ todo' = [todo EXCEPT ![Worker] = @ \ {s}] /\ target' = [target EXCEPT ![Worker] = s]
  /\ \/ /\ IsRetryable(s) /\ Goto(Worker, "read", "read")
        /\ attempts' = [attempts EXCEPT ![s] = @ + 1]
        /\ toRetry' = toRetry \union {s}
        /\ UNCHANGED <<state, told>>
     \/ /\ Goto(Worker, "read", "clean")
        /\ attempts' = [attempts EXCEPT ![s] = 0]
        /\ \/ state' = [state EXCEPT ![s] = "Response"] /\ UNCHANGED told
           \/ state' = [state EXCEPT ![s] = "Failed"] /\ Tell(s, "fail")
        /\ UNCHANGED toRetry
  /\ UNCHANGED <<sessions, toAdd, toAbort, toRemove, dropping, cleaned, active, bound, promise,
                 handle, multi, live, client, workerVars>>

\* FinishOperation for each session of a list.
FinishOperations(list) ==
  \E s \in todo[Worker] :
    /\ Goto(Worker, list, "clean")
    /\ todo' = [todo EXCEPT ![Worker] = @ \ {s}] /\ target' = [target EXCEPT ![Worker] = s]
    /\ UNCHANGED <<containers, operation, curl, client, workerVars, told>>

TakeAborts ==
  /\ Goto(Worker, "doAbort", "aborting") /\ phase' = "aborting"
  /\ todo' = [todo EXCEPT ![Worker] = toAbort] /\ toAbort' = {}
  /\ stillRunning' = (stillRunning \/ toAbort # {})
  /\ UNCHANGED <<sessions, toAdd, toRemove, dropping, toRetry, operation, curl, client, target, told>>

DoAbortSessions == TakeAborts \/ FinishOperations("aborting") \/ EndOf("aborting", "remove")

\* Mutant: a handle is freed while it is still in the multi handle.
RemoveHandles_InMulti ==
  LET some == toRemove # {} \/ dropping # {} IN
  /\ Goto(Worker, "remove", IF some THEN "removing" ELSE "add") /\ phase' = "removing"
  /\ todo' = [todo EXCEPT ![Worker] = dropping \union (toRemove \intersect sessions)]
  /\ sessions' = sessions \ toRemove
  /\ handle' = [s \in Sessions |-> IF s \in toRemove THEN "freed" ELSE handle[s]]
  /\ toRemove' = {} /\ dropping' = {}
  /\ stillRunning' = (stillRunning \/ some)
  /\ UNCHANGED <<toAdd, toAbort, toRetry, operation, multi, live, attempts, client, target, told>>

\* The handles that wait are freed, with their sessions out of sessions_, and
\* those sessions finished, until there are none.  The code takes the two lists
\* under session_ids_m_ and then the sessions out of sessions_ under sessions_m_;
\* what a cancel does in between gives the same as before or after, and so this
\* is one step.
RemoveHandles ==
  LET some == toRemove # {} \/ dropping # {} IN
  /\ Goto(Worker, "remove", IF some THEN "removing" ELSE "add") /\ phase' = "removing"
  /\ todo' = [todo EXCEPT ![Worker] = dropping \union (toRemove \intersect sessions)]
  /\ sessions' = sessions \ toRemove /\ multi' = multi \ toRemove /\ live' = live \ toRemove
  /\ handle' = [s \in Sessions |-> IF s \in toRemove THEN "freed" ELSE handle[s]]
  /\ toRemove' = {} /\ dropping' = {}
  /\ stillRunning' = (stillRunning \/ some)
  /\ UNCHANGED <<toAdd, toAbort, toRetry, operation, attempts, client, target, told>>

DoRemoveSessions ==
  RemoveHandles \/ FinishOperations("removing") \/ EndOf("removing", "remove")

\* The ids are taken, and only sessions that are registered then are added.
TakeIds ==
  /\ Goto(Worker, "add", "adding")
  /\ todo' = [todo EXCEPT ![Worker] = toAdd] /\ toAdd' = {}
  /\ UNCHANGED <<sessions, toAbort, toRemove, dropping, toRetry, operation, curl, client, target,
                 workerVars, told>>

AddHandles ==
  LET adding == {s \in todo[Worker] \intersect sessions : handle[s] = "own"} IN
  /\ Goto(Worker, "adding", "retry")
  /\ multi' = multi \union adding /\ live' = live \union adding
  /\ todo' = [todo EXCEPT ![Worker] = {}]
  /\ stillRunning' = (stillRunning \/ adding # {})
  /\ UNCHANGED <<containers, operation, handle, attempts, client, target, phase, told>>

DoAddSessions == TakeIds \/ AddHandles

\* Mutant: the last look does not count the sessions that are not due yet.
DoRetrySessions_DueOnly(due) ==
  /\ Goto(Worker, "retry", "decide")
  /\ toRetry' = toRetry \ due
  /\ live' = live \union {s \in due : handle[s] = "own"}
  /\ stillRunning' = (stillRunning \/ due # {})
  /\ UNCHANGED <<sessions, toAdd, toAbort, toRemove, dropping, operation, handle, multi, attempts,
                 client, locals, phase, told>>

\* Those that are due are added again, unless the operation has been cleaned
\* up.  The last look, with the mutex held, counts the others as well.
DoRetrySessions(due) ==
  /\ Goto(Worker, "retry", "decide")
  /\ toRetry' = toRetry \ due
  /\ live' = live \union {s \in due : handle[s] = "own"}
  /\ stillRunning' = (stillRunning \/ due # {} \/ (busy /\ toRetry' # {}))
  /\ UNCHANGED <<sessions, toAdd, toAbort, toRemove, dropping, operation, handle, multi, attempts,
                 client, locals, phase, told>>

\* Mutant: the thread leaves without a last look under its mutex.
Decide_NoLastLook ==
  /\ \/ (stillRunning \/ ~isShutdown) /\ Goto(Worker, "decide", "perform") /\ UNCHANGED thread
     \/ ~stillRunning /\ Goto(Worker, "decide", "idle") /\ thread' = FALSE
  /\ UNCHANGED <<containers, operation, curl, busy, isShutdown, taken, locals, workerVars, told>>

\* With nothing to do the thread looks again, or takes its mutex for a last
\* look, at once during shutdown and otherwise when it has idled long enough.
Decide ==
  /\ ~busy
  /\ \/ (stillRunning \/ ~isShutdown) /\ Goto(Worker, "decide", "perform") /\ UNCHANGED busy
     \/ ~stillRunning /\ Goto(Worker, "decide", "doAbort") /\ busy' = TRUE
  /\ UNCHANGED <<containers, operation, curl, thread, isShutdown, taken, locals, workerVars, told>>

DecideLocked ==
  /\ busy /\ busy' = FALSE
  /\ \/ stillRunning /\ Goto(Worker, "decide", "perform") /\ UNCHANGED thread
     \/ ~stillRunning /\ Goto(Worker, "decide", "idle") /\ thread' = FALSE
  /\ UNCHANGED <<containers, operation, curl, isShutdown, taken, locals, workerVars, told>>

BackgroundThread ==
  \/ \E ended \in SUBSET live : Perform(ended)
  \/ \E s \in Sessions : PerformCurlMessage(s)
  \/ EndOf("read", "doAbort")
  \/ DoAbortSessions \/ DoRemoveSessions \/ DoAddSessions
  \/ \E due \in SUBSET toRetry : DoRetrySessions(due)
  \/ FinishOperation \/ Decide \/ DecideLocked

-----------------------------------------------------------------------------
(* The destructor, when no call is under way.                              *)

DestroyStart ==
  /\ \A p \in Callers \ {Destructor} : pc[p] \in {"idle", "created", "sent", "done"}
  /\ Goto(Destructor, "idle", "swap")
  /\ isShutdown' = TRUE
  /\ UNCHANGED <<containers, operation, curl, thread, busy, taken, locals, workerVars, told>>

\* The thread is taken, all sessions are cancelled, and the thread is waited
\* for, until there is none.
TakeThread ==
  /\ ~busy /\ Goto(Destructor, "swap", "scan")
  /\ taken' = thread /\ thread' = FALSE
  /\ UNCHANGED <<containers, operation, curl, busy, isShutdown, locals, workerVars, told>>

\* Mutant: the thread is detached instead of joined.
Join_Detached ==
  /\ Goto(Destructor, "join", "swap")
  /\ UNCHANGED <<containers, operation, curl, client, locals, workerVars, told>>

Join ==
  /\ pc[Worker] = "idle" /\ Goto(Destructor, "join", "swap")
  /\ UNCHANGED <<containers, operation, curl, client, locals, workerVars, told>>

Destroy == TakeThread \/ CancelAllSessions(Destructor, IF taken THEN "join" ELSE "done") \/ Join

-----------------------------------------------------------------------------
Next ==
  \/ \E s \in Sessions : CreateSession(s) \/ NewOperation(s) \/ CompressionFails(s)
                         \/ SendRequest(s) \/ FinishSession(s)
  \/ \E k \in Cancellers : CallCancelAllSessions(k) \/ CancelAllSessions(k, "done")
  \/ BackgroundThread
  \/ DestroyStart \/ Destroy

Spec == Init /\ [][Next]_vars

-----------------------------------------------------------------------------
(* The stage of a session, as its owner sees it.                           *)

\* There is no background thread, and nobody is about to spawn one.
NoThread == pc[Worker] = "idle" /\ \A r \in Sessions : pc[r] # "spawn"

\* The session is where the background thread looks for it, or has it.
WithWorker(s) ==
  \/ s \in toAbort \union multi
  \/ phase = "aborting" /\ (s = target[Worker] \/ s \in todo[Worker])

Stage(s) ==
  IF pc[s] = "idle" THEN "none"
  ELSE IF told[s] = "refused" THEN "refused"
  ELSE IF promise[s] = "set" THEN "done"
  ELSE IF told[s] = "early" THEN "stray"
  ELSE IF told[s] \in {"ok", "fail"} THEN "reported"
  ELSE IF s \in sessions \/ Held(s)
       THEN CASE pc[s] = "created" -> "created"
              [] pc[s] \in BeforeHandOver \ {"created"} -> "sending"
              [] OTHER -> "sent"
  ELSE IF ~WithWorker(s) THEN "dropped"
  ELSE IF pc[s] \in BeforeHandOver THEN "aborting"
  ELSE IF NoThread THEN "left" ELSE "flagged"

Owned == INSTANCE HttpSessions WITH http <- [s \in Sessions |-> Stage(s)]

\* The client does what HttpSessions says: the handler is told, once or more
\* often, before the promise that FinishSession waits for is set, a session that
\* was handed over is never dropped, and left without a thread only if it was
\* cancelled, and one that was dropped does not come back.
ImplementsSessions == Owned!Spec

Steps == {"idle", "created", "setup", "publish", "schedule", "spawn", "sent", "abort", "erase",
          "settle", "gone", "scan", "next", "swap", "join", "done", "perform", "read", "doAbort",
          "aborting", "remove", "removing", "add", "adding", "retry", "decide", "clean", "unbind",
          "settlePromise"}

\* Types, and that a request is tried max_attempts times at most.
TypeOK ==
  /\ sessions \subseteq Sessions /\ toAdd \subseteq Sessions /\ toAbort \subseteq Sessions
  /\ toRemove \subseteq Sessions /\ dropping \subseteq Sessions /\ toRetry \subseteq Sessions
  /\ cleaned \subseteq Sessions /\ active \subseteq Sessions /\ bound \subseteq Sessions
  /\ multi \subseteq Sessions /\ live \subseteq Sessions
  /\ state \in [Sessions -> {"none", "Created", "Connecting", "Response", "Failed", "Cancelled"}]
  /\ promise \in [Sessions -> {"none", "made", "running", "set"}]
  /\ handle \in [Sessions -> {"none", "own", "moved", "freed", "leaked"}]
  /\ attempts \in [Sessions -> 0 .. IF MaxAttempts > 1 THEN MaxAttempts - 1 ELSE 0]
  /\ thread \in BOOLEAN /\ busy \in BOOLEAN /\ isShutdown \in BOOLEAN /\ taken \in BOOLEAN
  /\ stillRunning \in BOOLEAN
  /\ pc \in [Callers \union {Worker} -> Steps]
  /\ todo \in [Callers \union {Worker} -> SUBSET Sessions]
  /\ target \in [Callers \union {Worker} -> Sessions \union {Nothing}]
  /\ phase \in Steps
  /\ told \in [Sessions -> {"none", "early", "ok", "fail", "refused"}]

\* The multi handle never holds an easy handle that has been freed, nor does
\* curl_multi_perform run one that its operation has given away, a handle is
\* freed by one thread only, and it leaks only where a cancel overtook SendAsync.
HandleOwned ==
  /\ \A s \in multi : handle[s] \in {"own", "moved"}
  /\ pc[Worker] = "perform" => \A s \in multi : handle[s] = "own"
  /\ \A s \in toRemove : handle[s] = "moved"
  /\ \A s \in Sessions : handle[s] = "leaked" => told[s] = "early"

\* A background thread that decides to leave does not leave a session of
\* sessions_ behind that was handed over, whoever hands one over meanwhile.
WorkHasThread == NoThread => \A s \in sessions : Stage(s) \notin {"sent", "reported"}

\* What the comment on the thread's last look says: no pending session is left
\* behind, those included that a cancel has moved out of sessions_.
NothingPending == \A s \in Sessions : Stage(s) # "left"

\* When the destructor has returned the background thread has gone, and nothing
\* is left that another thread would have to drive, free or try again: no
\* session is registered, in the multi handle or waiting for a retry, and no
\* handle is waiting to be freed.  (Handlers may not have been told: the
\* destructor's own cancel can come during the thread's last look, which leaves
\* the session in pending_to_abort_sessions_.)
DestructorBarrier ==
  pc[Destructor] = "done" =>
    /\ pc[Worker] = "idle" /\ sessions = {} /\ multi = {} /\ toRetry = {}
    /\ toRemove = {} /\ dropping = {}

(***************************************************************************)
(* The inductive invariant behind these.                                   *)
(***************************************************************************)

Cleaning == {"clean", "unbind", "settlePromise"}
OwnerSteps == {"idle", "created", "setup", "publish", "schedule", "spawn", "sent", "erase", "settle",
               "gone", "done"}
CancelSteps == {"idle", "scan", "next", "abort", "erase", "settle", "gone", "done"}
\* Steps at which the background thread has no list, or no session at hand.
NoList == {"idle", "perform", "doAbort", "remove", "add", "retry", "decide"}
\* Steps after the last handle has been freed.
Freed == {"idle", "perform", "add", "adding", "retry", "decide"}

\* Where the background thread has a session: to be added, with its message
\* being read, or taken away from its owner; and which it has at hand.
Adding(s) == s \in toAdd \/ (pc[Worker] = "adding" /\ s \in todo[Worker])
Reading(s) ==
  /\ phase = "read"
  /\ \/ pc[Worker] \in {"read"} \union Cleaning /\ s \in todo[Worker]
     \/ pc[Worker] \in Cleaning /\ s = target[Worker]
TakenAway(s) ==
  \/ s \in toAbort \union dropping
  \/ /\ phase \in {"aborting", "removing"}
     /\ \/ pc[Worker] \in {"aborting", "removing"} \union Cleaning /\ s \in todo[Worker]
        \/ pc[Worker] \in Cleaning /\ s = target[Worker]
At(s, steps) == s = target[Worker] /\ pc[Worker] \in steps

\* A caller, its step and the session it has at hand.
CallerOK(p) ==
  /\ p \in Sessions => pc[p] \in OwnerSteps /\ target[p] = p
  /\ p \in Cancellers => pc[p] \in CancelSteps
  /\ pc[p] \in {"abort", "erase", "settle", "gone"} =>
       target[p] \in Sessions /\ pc[target[p]] # "idle"
  /\ pc[p] = "abort" => state[target[p]] # "none"
  /\ pc[p] \in {"settle", "gone"} => target[p] \notin sessions
  /\ pc[p] = "settle" =>
       ~TakenAway(target[p]) /\ \A q \in Callers \ {p} : pc[q] = "settle" => target[q] # target[p]
  /\ \A s \in todo[p] : pc[s] # "idle"

\* Who can be at which step, and with which session.
StepInv ==
  /\ \A p \in Callers : CallerOK(p)
  /\ pc[Destructor] \in CancelSteps \union {"swap", "join"}
  /\ pc[Worker] \in NoList \union Cleaning \union {"read", "aborting", "removing", "adding"}
  /\ pc[Worker] \in Cleaning => phase \in {"read", "aborting", "removing"} /\ target[Worker] \in Sessions
  /\ pc[Worker] \in {"read", "aborting", "removing"} => phase = pc[Worker]
  /\ pc[Worker] \in NoList => todo[Worker] = {}
  /\ pc[Worker] \in NoList \union {"adding"} => target[Worker] = Nothing

\* An operation, by how far SendRequest has come.
OperationOK(s) ==
  /\ pc[s] = "idle" => s \notin sessions
  /\ pc[s] \in {"idle", "created"} => state[s] = "none" /\ told[s] = "none"
  /\ state[s] = "none" =>
       promise[s] = "none" /\ handle[s] = "none" /\ s \notin active \union cleaned
  /\ pc[s] \in {"setup", "publish", "schedule"} =>
       /\ state[s] \in {"Created", "Connecting", "Cancelled"} /\ told[s] \in {"none", "early"}
       /\ state[s] = "Cancelled" => told[s] = "early"
  /\ pc[s] = "setup" => promise[s] = "none" /\ handle[s] \in {"own", "freed"}
  /\ pc[s] = "publish" => handle[s] = "own"
  /\ pc[s] = "publish" <=> promise[s] = "made"
  /\ pc[s] \in {"schedule", "spawn"} => promise[s] \in {"running", "set"}
  /\ pc[s] \in {"spawn", "sent", "erase", "settle", "gone", "done"} =>
       (told[s] = "refused" <=> promise[s] = "none")
  /\ s \in bound => handle[s] = "own" /\ promise[s] \in {"running", "set"}
  /\ promise[s] = "running" => s \in bound \/ At(s, {"settlePromise"})
  /\ Adding(s) \/ s \in multi \/ s \in toRetry \/ Reading(s) =>
       promise[s] \in {"running", "set"} /\ pc[s] # "schedule"
  /\ ~(s \in toAdd /\ pc[Worker] = "adding" /\ s \in todo[Worker])
  /\ s \in toRemove => promise[s] \in {"running", "set"}
  /\ TakenAway(s) \/ At(s, Cleaning) => state[s] # "none"

OperationInv == \A s \in Sessions : OperationOK(s)

\* The easy handle of an operation, and what the multi handle holds.
HandleOK(s) ==
  /\ s \in toRemove => handle[s] = "moved"
  /\ handle[s] = "leaked" => told[s] = "early" /\ pc[s] \notin BeforeHandOver
  /\ (s \in toRemove \/ At(s, {"unbind", "settlePromise"})) /\ pc[s] \in BeforeHandOver =>
       told[s] = "early"
  /\ s \in multi =>
       /\ s \in bound \union toRemove
       /\ s \in live \union toRetry \union toRemove \/ Reading(s) \/ At(s, {"clean", "unbind"})
       /\ s \in cleaned => s \in toRemove \/ At(s, {"unbind"})
       /\ At(s, {"unbind", "settlePromise"}) => s \in cleaned
  /\ Reading(s) => s \in multi
  /\ s \in toRetry /\ handle[s] = "own" => s \in multi
  /\ s \in live => s \in multi

HandleInv ==
  /\ \A s \in Sessions : HandleOK(s)
  /\ pc[Worker] \in Freed => toRemove = {} /\ dropping = {}

\* A session that has been handed over and is not finished.
Unfinished(s) ==
  pc[s] \in {"spawn", "sent", "erase"} /\ told[s] # "refused" /\ promise[s] # "set"

\* A session of sessions_ has not been cancelled, and once handed over it is
\* with the background thread.
RegisteredOK(s) ==
  s \in sessions =>
    /\ pc[s] \in {"created", "setup", "publish", "schedule", "spawn", "sent", "erase"}
    /\ ~TakenAway(s) /\ told[s] # "early"
    /\ state[s] # "none" => handle[s] = "own" \/ promise[s] = "set" \/ At(s, {"settlePromise"})
    /\ s \in cleaned => promise[s] = "set" \/ At(s, {"unbind", "settlePromise"})
    /\ pc[s] = "schedule" \/ Adding(s) => s \in bound \ (cleaned \union multi)
    /\ Unfinished(s) => Adding(s) \/ s \in live \union toRetry \/ Reading(s) \/ At(s, Cleaning)

RegisteredInv == \A s \in Sessions : RegisteredOK(s)

\* What has been told: an operation is cleaned up, unbound, given up or finished
\* only if its handler has been told, or is just about to be told of an answer.
ReportOK(s) ==
  /\ s \in cleaned => told[s] # "none" \/ At(s, {"unbind"})
  /\ At(s, {"unbind"}) => told[s] # "none" \/ state[s] = "Response"
  /\ At(s, {"settlePromise"}) \/ (phase = "aborting" /\ At(s, {"aborting"})) => told[s] # "none"
  /\ \/ promise[s] = "set" \/ (promise[s] = "running" /\ s \notin bound)
     \/ state[s] \in {"Failed", "Cancelled"} \/ (state[s] # "none" /\ s \notin active)
     \/ s \in toRemove \union dropping
     \/ phase = "removing" /\ pc[Worker] = "removing" /\ s \in todo[Worker]
     \/ phase = "removing" /\ pc[Worker] \in Cleaning /\ (s \in todo[Worker] \/ s = target[Worker])
     => told[s] # "none"
  /\ state[s] = "Response" => promise[s] \in {"running", "set"}

ReportInv == \A s \in Sessions : ReportOK(s)

\* When the background thread may leave, and when the destructor may return.
ThreadInv ==
  /\ ~stillRunning => live = {}
  /\ pc[Worker] = "idle" => toRetry = {} /\ ~busy /\ ~stillRunning
  /\ busy => pc[Worker] \notin {"idle", "perform", "read"} /\ phase # "read"
  /\ pc[Worker] = "remove" => phase # "read"
  /\ pc[Worker] \in {"add", "adding", "retry", "decide"} => phase = "removing"
  /\ busy /\ pc[Worker] = "decide" /\ ~stillRunning => toRetry = {}
  /\ pc[Worker] = "idle" \/ (busy /\ pc[Worker] \in {"adding", "retry", "decide"}) =>
       \A s \in toAdd \intersect sessions : pc[s] = "spawn"
  /\ thread <=> pc[Destructor] \in {"idle", "swap"} /\ pc[Worker] # "idle"
  /\ pc[Destructor] \in {"scan", "next", "abort", "erase", "settle", "gone", "done"} /\ ~taken =>
       pc[Worker] = "idle"
  /\ pc[Destructor] # "idle" =>
       \A p \in Callers \ {Destructor} : pc[p] \in {"idle", "created", "sent", "done"}
  /\ pc[Destructor] = "done" => ~taken /\ sessions = {}

\* The containers, the operations, the multi handle and the background thread
\* agree about every session, between any two sections.
CInv ==
  /\ TypeOK /\ StepInv /\ OperationInv /\ HandleInv /\ RegisteredInv /\ ReportInv /\ ThreadInv
=============================================================================
