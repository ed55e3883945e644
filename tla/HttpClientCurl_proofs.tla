------------------------ MODULE HttpClientCurl_proofs ------------------------
(***************************************************************************)
(* CInv is an invariant of HttpClientCurl for any number of sessions and   *)
(* of threads that cancel them, and any max_attempts.  With it a handle is *)
(* freed once and out of the multi handle, a background thread that leaves *)
(* overlooks no registered session, the destructor leaves nothing behind   *)
(* that it may not, and the client implements HttpSessions.                *)
(*                                                                         *)
(* There is one lemma per operation, each with one step per conjunct of    *)
(* CInv, for one caller q or one session r at a time; and for the          *)
(* refinement one lemma per operation on what it does to the stages.       *)
(***************************************************************************)
EXTENDS HttpClientCurl, TLAPS

USE CurlAssumption
USE DEF containers, operation, curl, client, locals, workerVars, Callers, Cleaning, OwnerSteps,
        CancelSteps, NoList, Freed, BeforeHandOver

-----------------------------------------------------------------------------
(* SendRequest, on the thread of the owner.                                *)

\* A session nobody had begins: it is in no container and has no operation.
LEMMA CreateSessionStep ==
  ASSUME CInv, NEW s \in Sessions, CreateSession(s)
  PROVE  CInv'
<1> USE DEF CreateSession, Goto, Callable
<1>a. /\ TypeOK /\ StepInv /\ OperationInv /\ HandleInv /\ RegisteredInv /\ ReportInv
      /\ ThreadInv
  BY DEF CInv
<1>1. TypeOK' BY <1>a DEF TypeOK, Steps
<1>2. StepInv'
  <2>1. ASSUME NEW q \in Callers PROVE CallerOK(q)' BY <1>a DEF CallerOK, StepInv, TakenAway
  <2>2. QED BY <1>a, <2>1 DEF StepInv
<1>3. OperationInv'
  <2>1. ASSUME NEW r \in Sessions PROVE OperationOK(r)'
    BY <1>a DEF OperationInv, OperationOK, TypeOK, Adding, Reading, TakenAway, At
  <2>2. QED BY <2>1 DEF OperationInv
<1>4. HandleInv'
  <2>1. ASSUME NEW r \in Sessions PROVE HandleOK(r)'
    BY <1>a DEF HandleInv, HandleOK, OperationInv, OperationOK, Reading, At
  <2>2. QED BY <1>a, <2>1 DEF HandleInv
<1>5. RegisteredInv'
  <2>1. ASSUME NEW r \in Sessions PROVE RegisteredOK(r)'
    BY <1>a DEF RegisteredInv, RegisteredOK, TypeOK, OperationInv, OperationOK, Adding, Reading,
       TakenAway, At, Unfinished
  <2>2. QED BY <2>1 DEF RegisteredInv
<1>6. ReportInv'
  <2>1. ASSUME NEW r \in Sessions PROVE ReportOK(r)' BY <1>a DEF ReportInv, ReportOK, At
  <2>2. QED BY <2>1 DEF ReportInv
<1>7. ThreadInv' BY <1>a DEF ThreadInv, OperationInv, OperationOK, Adding
<1>8. QED BY <1>1, <1>2, <1>3, <1>4, <1>5, <1>6, <1>7 DEF CInv

\* The operation is new, and its handle is its own.
LEMMA NewOperationStep ==
  ASSUME CInv, NEW s \in Sessions, NewOperation(s)
  PROVE  CInv'
<1> USE DEF NewOperation, Goto, Callable
<1>a. /\ TypeOK /\ StepInv /\ OperationInv /\ HandleInv /\ RegisteredInv /\ ReportInv
      /\ ThreadInv
  BY DEF CInv
<1>1. TypeOK' BY <1>a DEF TypeOK, Steps
<1>2. StepInv'
  <2>1. ASSUME NEW q \in Callers PROVE CallerOK(q)' BY <1>a DEF CallerOK, StepInv, TakenAway
  <2>2. QED BY <1>a, <2>1 DEF StepInv
<1>3. OperationInv'
  <2>1. ASSUME NEW r \in Sessions PROVE OperationOK(r)'
    BY <1>a DEF OperationInv, OperationOK, TypeOK, Adding, Reading, TakenAway, At
  <2>2. QED BY <2>1 DEF OperationInv
<1>4. HandleInv'
  <2>1. ASSUME NEW r \in Sessions PROVE HandleOK(r)'
    BY <1>a DEF HandleInv, HandleOK, OperationInv, OperationOK, Reading, At
  <2>2. QED BY <1>a, <2>1 DEF HandleInv
<1>5. RegisteredInv'
  <2>1. ASSUME NEW r \in Sessions PROVE RegisteredOK(r)'
    BY <1>a DEF RegisteredInv, RegisteredOK, TypeOK, Adding, Reading, TakenAway, At, Unfinished
  <2>2. QED BY <2>1 DEF RegisteredInv
<1>6. ReportInv'
  <2>1. ASSUME NEW r \in Sessions PROVE ReportOK(r)'
    BY <1>a DEF ReportInv, ReportOK, OperationInv, OperationOK, At
  <2>2. QED BY <2>1 DEF ReportInv
<1>7. ThreadInv' BY <1>a DEF ThreadInv
<1>8. QED BY <1>1, <1>2, <1>3, <1>4, <1>5, <1>6, <1>7 DEF CInv

\* Refused without an operation.
LEMMA CompressionFailsStep ==
  ASSUME CInv, NEW s \in Sessions, CompressionFails(s)
  PROVE  CInv'
<1> USE DEF CompressionFails, Goto, Callable
<1>a. /\ TypeOK /\ StepInv /\ OperationInv /\ HandleInv /\ RegisteredInv /\ ReportInv
      /\ ThreadInv
  BY DEF CInv
<1>1. TypeOK' BY <1>a DEF TypeOK, Steps
<1>2. StepInv'
  <2>1. ASSUME NEW q \in Callers PROVE CallerOK(q)' BY <1>a DEF CallerOK, StepInv, TakenAway
  <2>2. QED BY <1>a, <2>1 DEF StepInv
<1>3. OperationInv'
  <2>1. ASSUME NEW r \in Sessions PROVE OperationOK(r)'
    BY <1>a DEF OperationInv, OperationOK, TypeOK, Adding, Reading, TakenAway, At
  <2>2. QED BY <2>1 DEF OperationInv
<1>4. HandleInv'
  <2>1. ASSUME NEW r \in Sessions PROVE HandleOK(r)'
    BY <1>a DEF HandleInv, HandleOK, TypeOK, Reading, At
  <2>2. QED BY <1>a, <2>1 DEF HandleInv
<1>5. RegisteredInv'
  <2>1. ASSUME NEW r \in Sessions PROVE RegisteredOK(r)'
    BY <1>a DEF RegisteredInv, RegisteredOK, TypeOK, Adding, Reading, TakenAway, At, Unfinished
  <2>2. QED BY <2>1 DEF RegisteredInv
<1>6. ReportInv'
  <2>1. ASSUME NEW r \in Sessions PROVE ReportOK(r)' BY <1>a DEF ReportInv, ReportOK, At
  <2>2. QED BY <2>1 DEF ReportInv
<1>7. ThreadInv' BY <1>a DEF ThreadInv
<1>8. QED BY <1>1, <1>2, <1>3, <1>4, <1>5, <1>6, <1>7 DEF CInv

\* The operation gets its promise.
LEMMA SetupOkStep ==
  ASSUME CInv, NEW s \in Sessions, SetupOk(s)
  PROVE  CInv'
<1> USE DEF SetupOk, Goto
<1>a. /\ TypeOK /\ StepInv /\ OperationInv /\ HandleInv /\ RegisteredInv /\ ReportInv
      /\ ThreadInv
  BY DEF CInv
<1>1. TypeOK' BY <1>a DEF TypeOK, Steps
<1>2. StepInv'
  <2>1. ASSUME NEW q \in Callers PROVE CallerOK(q)' BY <1>a DEF CallerOK, StepInv, TakenAway
  <2>2. QED BY <1>a, <2>1 DEF StepInv
<1>3. OperationInv'
  <2>1. ASSUME NEW r \in Sessions PROVE OperationOK(r)'
    BY <1>a DEF OperationInv, OperationOK, TypeOK, Adding, Reading, TakenAway, At
  <2>2. QED BY <2>1 DEF OperationInv
<1>4. HandleInv'
  <2>1. ASSUME NEW r \in Sessions PROVE HandleOK(r)' BY <1>a DEF HandleInv, HandleOK, Reading, At
  <2>2. QED BY <1>a, <2>1 DEF HandleInv
<1>5. RegisteredInv'
  <2>1. ASSUME NEW r \in Sessions PROVE RegisteredOK(r)'
    BY <1>a DEF RegisteredInv, RegisteredOK, OperationInv, OperationOK, Adding, Reading,
       TakenAway, At, Unfinished
  <2>2. QED BY <2>1 DEF RegisteredInv
<1>6. ReportInv'
  <2>1. ASSUME NEW r \in Sessions PROVE ReportOK(r)'
    BY <1>a DEF ReportInv, ReportOK, OperationInv, OperationOK, At
  <2>2. QED BY <2>1 DEF ReportInv
<1>7. ThreadInv' BY <1>a DEF ThreadInv
<1>8. QED BY <1>1, <1>2, <1>3, <1>4, <1>5, <1>6, <1>7 DEF CInv

\* Refused with an operation that never gets a promise.
LEMMA SetupFailsStep ==
  ASSUME CInv, NEW s \in Sessions, SetupFails(s)
  PROVE  CInv'
<1> USE DEF SetupFails, Goto
<1>a. /\ TypeOK /\ StepInv /\ OperationInv /\ HandleInv /\ RegisteredInv /\ ReportInv
      /\ ThreadInv
  BY DEF CInv
<1>1. TypeOK' BY <1>a DEF TypeOK, Steps
<1>2. StepInv'
  <2>1. ASSUME NEW q \in Callers PROVE CallerOK(q)' BY <1>a DEF CallerOK, StepInv, TakenAway
  <2>2. QED BY <1>a, <2>1 DEF StepInv
<1>3. OperationInv'
  <2>1. ASSUME NEW r \in Sessions PROVE OperationOK(r)'
    BY <1>a DEF OperationInv, OperationOK, TypeOK, Adding, Reading, TakenAway, At
  <2>2. QED BY <2>1 DEF OperationInv
<1>4. HandleInv'
  <2>1. ASSUME NEW r \in Sessions PROVE HandleOK(r)'
    BY <1>a DEF HandleInv, HandleOK, TypeOK, Reading, At
  <2>2. QED BY <1>a, <2>1 DEF HandleInv
<1>5. RegisteredInv'
  <2>1. ASSUME NEW r \in Sessions PROVE RegisteredOK(r)'
    BY <1>a DEF RegisteredInv, RegisteredOK, TypeOK, OperationInv, OperationOK, Adding, Reading,
       TakenAway, At, Unfinished
  <2>2. QED BY <2>1 DEF RegisteredInv
<1>6. ReportInv'
  <2>1. ASSUME NEW r \in Sessions PROVE ReportOK(r)' BY <1>a DEF ReportInv, ReportOK, TypeOK, At
  <2>2. QED BY <2>1 DEF ReportInv
<1>7. ThreadInv' BY <1>a DEF ThreadInv
<1>8. QED BY <1>1, <1>2, <1>3, <1>4, <1>5, <1>6, <1>7 DEF CInv

\* The operation is bound, and the background thread may clean it up from here on.
LEMMA PublishStep ==
  ASSUME CInv, NEW s \in Sessions, Publish(s)
  PROVE  CInv'
<1> USE DEF Publish, Goto
<1>a. /\ TypeOK /\ StepInv /\ OperationInv /\ HandleInv /\ RegisteredInv /\ ReportInv
      /\ ThreadInv
  BY DEF CInv
<1>1. TypeOK' BY <1>a DEF TypeOK, Steps
<1>2. StepInv'
  <2>1. ASSUME NEW q \in Callers PROVE CallerOK(q)' BY <1>a DEF CallerOK, StepInv, TakenAway
  <2>2. QED BY <1>a, <2>1 DEF StepInv
<1>3. OperationInv'
  <2>1. ASSUME NEW r \in Sessions PROVE OperationOK(r)'
    BY <1>a DEF OperationInv, OperationOK, TypeOK, Adding, Reading, TakenAway, At
  <2>2. QED BY <2>1 DEF OperationInv
<1>4. HandleInv'
  <2>1. ASSUME NEW r \in Sessions PROVE HandleOK(r)'
    BY <1>a DEF HandleInv, HandleOK, OperationInv, OperationOK, Reading, At
  <2>2. QED BY <1>a, <2>1 DEF HandleInv
<1>5. RegisteredInv'
  <2>1. ASSUME NEW r \in Sessions PROVE RegisteredOK(r)'
    BY <1>a DEF RegisteredInv, RegisteredOK, OperationInv, OperationOK, Adding, Reading,
       TakenAway, At, Unfinished
  <2>2. QED BY <2>1 DEF RegisteredInv
<1>6. ReportInv'
  <2>1. ASSUME NEW r \in Sessions PROVE ReportOK(r)'
    BY <1>a DEF ReportInv, ReportOK, OperationInv, OperationOK, At
  <2>2. QED BY <2>1 DEF ReportInv
<1>7. ThreadInv' BY <1>a DEF ThreadInv
<1>8. QED BY <1>1, <1>2, <1>3, <1>4, <1>5, <1>6, <1>7 DEF CInv

\* The session joins the ids to be added; one that was cancelled meanwhile is not in
\* sessions_ any more, and its handler has been told.
LEMMA ScheduleAddStep ==
  ASSUME CInv, NEW s \in Sessions, ScheduleAddSession(s)
  PROVE  CInv'
<1> USE DEF ScheduleAddSession, Goto
<1>a. /\ TypeOK /\ StepInv /\ OperationInv /\ HandleInv /\ RegisteredInv /\ ReportInv
      /\ ThreadInv
  BY DEF CInv
<1>1. TypeOK' BY <1>a DEF TypeOK, Steps
<1>2. StepInv'
  <2>1. ASSUME NEW q \in Callers PROVE CallerOK(q)' BY <1>a DEF CallerOK, StepInv, TakenAway
  <2>2. QED BY <1>a, <2>1 DEF StepInv
<1>3. OperationInv'
  <2>1. ASSUME NEW r \in Sessions PROVE OperationOK(r)'
    BY <1>a DEF OperationInv, OperationOK, TypeOK, HandleInv, HandleOK, Adding, Reading,
       TakenAway, At
  <2>2. QED BY <2>1 DEF OperationInv
<1>4. HandleInv'
  <2>1. ASSUME NEW r \in Sessions PROVE HandleOK(r)'
    BY <1>a DEF HandleInv, HandleOK, TypeOK, OperationInv, OperationOK, Reading, At
  <2>2. QED BY <1>a, <2>1 DEF HandleInv
<1>5. RegisteredInv'
  <2>1. ASSUME NEW r \in Sessions PROVE RegisteredOK(r)'
    BY <1>a DEF RegisteredInv, RegisteredOK, HandleInv, HandleOK, Adding, Reading, TakenAway,
       At, Unfinished
  <2>2. QED BY <2>1 DEF RegisteredInv
<1>6. ReportInv'
  <2>1. ASSUME NEW r \in Sessions PROVE ReportOK(r)' BY <1>a DEF ReportInv, ReportOK, At
  <2>2. QED BY <2>1 DEF ReportInv
<1>7. ThreadInv' BY <1>a DEF ThreadInv, TypeOK
<1>8. QED BY <1>1, <1>2, <1>3, <1>4, <1>5, <1>6, <1>7 DEF CInv

\* Nobody can have begun to destroy the client, so without a thread there is none running.
LEMMA SpawnStep ==
  ASSUME CInv, NEW s \in Sessions, MaybeSpawnBackgroundThread(s)
  PROVE  CInv'
<1> USE DEF MaybeSpawnBackgroundThread
<1>a. /\ TypeOK /\ StepInv /\ OperationInv /\ HandleInv /\ RegisteredInv /\ ReportInv
      /\ ThreadInv
  BY DEF CInv
<1>b. ~thread => pc[Worker] = "idle" BY <1>a DEF ThreadInv, StepInv, CallerOK
<1>c. /\ pc[s] = "spawn" /\ pc'[s] = "sent"
      /\ \A q \in Callers : q # s => pc'[q] = pc[q]
      /\ thread => pc'[Worker] = pc[Worker]
      /\ ~thread => pc[Worker] = "idle" /\ pc'[Worker] = "perform"
  BY <1>a, <1>b DEF TypeOK
<1>1. TypeOK'
  <2>1. thread' \in BOOLEAN /\ taken' \in BOOLEAN /\ stillRunning' \in BOOLEAN
    BY <1>a DEF TypeOK
  <2>2. pc' \in [Callers \union {Worker} -> Steps] BY <1>a DEF TypeOK, Steps
  <2>3. QED BY <1>a, <2>1, <2>2 DEF TypeOK
<1>2. StepInv'
  <2>1. ASSUME NEW q \in Callers PROVE CallerOK(q)'
    BY <1>a, <1>c DEF CallerOK, TypeOK, StepInv, TakenAway
  <2>2. QED BY <1>a, <1>c, <2>1 DEF StepInv
<1>3. OperationInv'
  <2>1. ASSUME NEW r \in Sessions PROVE OperationOK(r)'
    BY <1>a, <1>c DEF OperationInv, OperationOK, TypeOK, Adding, Reading, TakenAway, At
  <2>2. QED BY <2>1 DEF OperationInv
<1>4. HandleInv'
  <2>1. ASSUME NEW r \in Sessions PROVE HandleOK(r)'
    BY <1>a, <1>c DEF HandleInv, HandleOK, Reading, At
  <2>2. QED BY <1>a, <1>c, <2>1 DEF HandleInv
<1>5. RegisteredInv'
  <2>1. ASSUME NEW r \in Sessions PROVE RegisteredOK(r)'
    BY <1>a, <1>c DEF RegisteredInv, RegisteredOK, Adding, Reading, TakenAway, At, Unfinished
  <2>2. QED BY <2>1 DEF RegisteredInv
<1>6. ReportInv'
  <2>1. ASSUME NEW r \in Sessions PROVE ReportOK(r)' BY <1>a, <1>c DEF ReportInv, ReportOK, At
  <2>2. QED BY <2>1 DEF ReportInv
<1>7. ThreadInv' BY <1>a, <1>b, <1>c DEF ThreadInv
<1>8. QED BY <1>1, <1>2, <1>3, <1>4, <1>5, <1>6, <1>7 DEF CInv

-----------------------------------------------------------------------------
(* FinishSession and CancelSession, on any thread.                         *)

\* FinishSession goes on once there is nothing to wait for.
LEMMA FinishOfPromiseStep ==
  ASSUME CInv, NEW s \in Sessions, FinishOfPromise(s)
  PROVE  CInv'
<1> USE DEF FinishOfPromise, Goto, Callable
<1>a. /\ TypeOK /\ StepInv /\ OperationInv /\ HandleInv /\ RegisteredInv /\ ReportInv
      /\ ThreadInv
  BY DEF CInv
<1>1. TypeOK' BY <1>a DEF TypeOK, Steps
<1>2. StepInv'
  <2>1. ASSUME NEW q \in Callers PROVE CallerOK(q)' BY <1>a DEF CallerOK, StepInv, TakenAway
  <2>2. QED BY <1>a, <2>1 DEF StepInv
<1>3. OperationInv'
  <2>1. ASSUME NEW r \in Sessions PROVE OperationOK(r)'
    BY <1>a DEF OperationInv, OperationOK, Adding, Reading, TakenAway, At
  <2>2. QED BY <2>1 DEF OperationInv
<1>4. HandleInv'
  <2>1. ASSUME NEW r \in Sessions PROVE HandleOK(r)' BY <1>a DEF HandleInv, HandleOK, Reading, At
  <2>2. QED BY <1>a, <2>1 DEF HandleInv
<1>5. RegisteredInv'
  <2>1. ASSUME NEW r \in Sessions PROVE RegisteredOK(r)'
    BY <1>a DEF RegisteredInv, RegisteredOK, Adding, Reading, TakenAway, At, Unfinished
  <2>2. QED BY <2>1 DEF RegisteredInv
<1>6. ReportInv'
  <2>1. ASSUME NEW r \in Sessions PROVE ReportOK(r)' BY <1>a DEF ReportInv, ReportOK, At
  <2>2. QED BY <2>1 DEF ReportInv
<1>7. ThreadInv' BY <1>a DEF ThreadInv
<1>8. QED BY <1>1, <1>2, <1>3, <1>4, <1>5, <1>6, <1>7 DEF CInv

\* The session leaves sessions_; what holds of the sessions there is easier to satisfy.
LEMMA EraseStep ==
  ASSUME CInv, NEW p \in Callers, EraseSession(p)
  PROVE  CInv'
<1> USE DEF EraseSession, Goto
<1>a. /\ TypeOK /\ StepInv /\ OperationInv /\ HandleInv /\ RegisteredInv /\ ReportInv
      /\ ThreadInv
  BY DEF CInv
<1>1. TypeOK' BY <1>a DEF TypeOK, Steps
<1>2. StepInv'
  <2>1. ASSUME NEW q \in Callers PROVE CallerOK(q)'
    BY <1>a DEF CallerOK, StepInv, RegisteredInv, RegisteredOK, TakenAway
  <2>2. QED BY <1>a, <2>1 DEF StepInv
<1>3. OperationInv'
  <2>1. ASSUME NEW r \in Sessions PROVE OperationOK(r)'
    BY <1>a DEF OperationInv, OperationOK, Adding, Reading, TakenAway, At
  <2>2. QED BY <2>1 DEF OperationInv
<1>4. HandleInv'
  <2>1. ASSUME NEW r \in Sessions PROVE HandleOK(r)' BY <1>a DEF HandleInv, HandleOK, Reading, At
  <2>2. QED BY <1>a, <2>1 DEF HandleInv
<1>5. RegisteredInv'
  <2>1. ASSUME NEW r \in Sessions PROVE RegisteredOK(r)'
    BY <1>a DEF RegisteredInv, RegisteredOK, StepInv, CallerOK, Adding, Reading, TakenAway, At,
       Unfinished
  <2>2. QED BY <2>1 DEF RegisteredInv
<1>6. ReportInv'
  <2>1. ASSUME NEW r \in Sessions PROVE ReportOK(r)' BY <1>a DEF ReportInv, ReportOK, At
  <2>2. QED BY <2>1 DEF ReportInv
<1>7. ThreadInv' BY <1>a DEF ThreadInv
<1>8. QED BY <1>1, <1>2, <1>3, <1>4, <1>5, <1>6, <1>7 DEF CInv

\* Only a session that is out of sessions_ is settled.
LEMMA SettleStep ==
  ASSUME CInv, NEW p \in Callers, NEW next, p \in Sessions => next = "done",
         p \notin Sessions => next = "next",
         SettleSession(p, next)
  PROVE  CInv'
<1> USE DEF SettleSession
<1>a. /\ TypeOK /\ StepInv /\ OperationInv /\ HandleInv /\ RegisteredInv /\ ReportInv
      /\ ThreadInv
  BY DEF CInv
<1>1. TypeOK' BY <1>a DEF TypeOK, Steps
<1>2. StepInv'
  <2>1. ASSUME NEW q \in Callers PROVE CallerOK(q)'
    BY <1>a DEF CallerOK, TypeOK, StepInv, TakenAway
  <2>2. QED BY <1>a, <2>1 DEF StepInv
<1>3. OperationInv'
  <2>1. ASSUME NEW r \in Sessions PROVE OperationOK(r)'
    BY <1>a DEF OperationInv, OperationOK, Adding, Reading, TakenAway, At
  <2>2. QED BY <2>1 DEF OperationInv
<1>4. HandleInv'
  <2>1. ASSUME NEW r \in Sessions PROVE HandleOK(r)' BY <1>a DEF HandleInv, HandleOK, Reading, At
  <2>2. QED BY <1>a, <2>1 DEF HandleInv
<1>5. RegisteredInv'
  <2>1. ASSUME NEW r \in Sessions PROVE RegisteredOK(r)'
    BY <1>a DEF RegisteredInv, RegisteredOK, StepInv, CallerOK, Adding, Reading, TakenAway, At,
       Unfinished
  <2>2. QED BY <2>1 DEF RegisteredInv
<1>6. ReportInv'
  <2>1. ASSUME NEW r \in Sessions PROVE ReportOK(r)' BY <1>a DEF ReportInv, ReportOK, At
  <2>2. QED BY <2>1 DEF ReportInv
<1>7. ThreadInv' BY <1>a DEF ThreadInv
<1>8. QED BY <1>1, <1>2, <1>3, <1>4, <1>5, <1>6, <1>7 DEF CInv

\* A call of CancelAllSessions begins.
LEMMA CallCancelAllStep ==
  ASSUME CInv, NEW k \in Cancellers, CallCancelAllSessions(k)
  PROVE  CInv'
<1> USE DEF CallCancelAllSessions, Goto, Callable
<1>a. /\ TypeOK /\ StepInv /\ OperationInv /\ HandleInv /\ RegisteredInv /\ ReportInv
      /\ ThreadInv
  BY DEF CInv
<1>1. TypeOK' BY <1>a DEF TypeOK, Steps
<1>2. StepInv'
  <2>1. ASSUME NEW q \in Callers PROVE CallerOK(q)' BY <1>a DEF CallerOK, StepInv, TakenAway
  <2>2. QED BY <1>a, <2>1 DEF StepInv
<1>3. OperationInv'
  <2>1. ASSUME NEW r \in Sessions PROVE OperationOK(r)'
    BY <1>a DEF OperationInv, OperationOK, Adding, Reading, TakenAway, At
  <2>2. QED BY <2>1 DEF OperationInv
<1>4. HandleInv'
  <2>1. ASSUME NEW r \in Sessions PROVE HandleOK(r)' BY <1>a DEF HandleInv, HandleOK, Reading, At
  <2>2. QED BY <1>a, <2>1 DEF HandleInv
<1>5. RegisteredInv'
  <2>1. ASSUME NEW r \in Sessions PROVE RegisteredOK(r)'
    BY <1>a DEF RegisteredInv, RegisteredOK, Adding, Reading, TakenAway, At, Unfinished
  <2>2. QED BY <2>1 DEF RegisteredInv
<1>6. ReportInv'
  <2>1. ASSUME NEW r \in Sessions PROVE ReportOK(r)' BY <1>a DEF ReportInv, ReportOK, At
  <2>2. QED BY <2>1 DEF ReportInv
<1>7. ThreadInv' BY <1>a DEF ThreadInv
<1>8. QED BY <1>1, <1>2, <1>3, <1>4, <1>5, <1>6, <1>7 DEF CInv

\* Every session of the copy has an owner that has begun.
LEMMA ScanStep ==
  ASSUME CInv, NEW p \in Callers \ Sessions, NEW next, p \in Cancellers => next = "done",
         p = Destructor => next = IF taken THEN "join" ELSE "done",
         Scan(p, next)
  PROVE  CInv'
<1> USE DEF Scan, Goto
<1>a. /\ TypeOK /\ StepInv /\ OperationInv /\ HandleInv /\ RegisteredInv /\ ReportInv
      /\ ThreadInv
  BY DEF CInv
<1>1. TypeOK' BY <1>a DEF TypeOK, Steps
<1>2. StepInv'
  <2>1. ASSUME NEW q \in Callers PROVE CallerOK(q)'
    BY <1>a DEF CallerOK, TypeOK, StepInv, OperationInv, OperationOK, TakenAway
  <2>2. QED BY <1>a, <2>1 DEF StepInv
<1>3. OperationInv'
  <2>1. ASSUME NEW r \in Sessions PROVE OperationOK(r)'
    BY <1>a DEF OperationInv, OperationOK, Adding, Reading, TakenAway, At
  <2>2. QED BY <2>1 DEF OperationInv
<1>4. HandleInv'
  <2>1. ASSUME NEW r \in Sessions PROVE HandleOK(r)' BY <1>a DEF HandleInv, HandleOK, Reading, At
  <2>2. QED BY <1>a, <2>1 DEF HandleInv
<1>5. RegisteredInv'
  <2>1. ASSUME NEW r \in Sessions PROVE RegisteredOK(r)'
    BY <1>a DEF RegisteredInv, RegisteredOK, Adding, Reading, TakenAway, At, Unfinished
  <2>2. QED BY <2>1 DEF RegisteredInv
<1>6. ReportInv'
  <2>1. ASSUME NEW r \in Sessions PROVE ReportOK(r)' BY <1>a DEF ReportInv, ReportOK, At
  <2>2. QED BY <2>1 DEF ReportInv
<1>7. ThreadInv' BY <1>a DEF ThreadInv
<1>8. QED BY <1>1, <1>2, <1>3, <1>4, <1>5, <1>6, <1>7 DEF CInv

\* A bound operation is past its creation, and stays so.
LEMMA AbortStep ==
  ASSUME CInv, NEW p \in Callers \ Sessions, Abort(p)
  PROVE  CInv'
<1> USE DEF Abort, Goto
<1>a. /\ TypeOK /\ StepInv /\ OperationInv /\ HandleInv /\ RegisteredInv /\ ReportInv
      /\ ThreadInv
  BY DEF CInv
<1>1. TypeOK' BY <1>a DEF TypeOK, Steps
<1>2. StepInv'
  <2>1. ASSUME NEW q \in Callers PROVE CallerOK(q)'
    BY <1>a DEF CallerOK, TypeOK, StepInv, OperationInv, OperationOK, TakenAway
  <2>2. QED BY <1>a, <2>1 DEF StepInv, TypeOK
<1>3. OperationInv'
  <2>1. ASSUME NEW r \in Sessions PROVE OperationOK(r)'
    BY <1>a DEF OperationInv, OperationOK, TypeOK, Adding, Reading, TakenAway, At
  <2>2. QED BY <2>1 DEF OperationInv
<1>4. HandleInv'
  <2>1. ASSUME NEW r \in Sessions PROVE HandleOK(r)'
    BY <1>a DEF HandleInv, HandleOK, TypeOK, Reading, At
  <2>2. QED BY <1>a, <2>1 DEF HandleInv, TypeOK
<1>5. RegisteredInv'
  <2>1. ASSUME NEW r \in Sessions PROVE RegisteredOK(r)'
    BY <1>a DEF RegisteredInv, RegisteredOK, TypeOK, Adding, Reading, TakenAway, At, Unfinished
  <2>2. QED BY <2>1 DEF RegisteredInv
<1>6. ReportInv'
  <2>1. ASSUME NEW r \in Sessions PROVE ReportOK(r)' BY <1>a DEF ReportInv, ReportOK, TypeOK, At
  <2>2. QED BY <2>1 DEF ReportInv
<1>7. ThreadInv' BY <1>a DEF ThreadInv, TypeOK
<1>8. QED BY <1>1, <1>2, <1>3, <1>4, <1>5, <1>6, <1>7 DEF CInv

\* The session leaves sessions_ as it is handed to the background thread.
LEMMA ScheduleAbortStep ==
  ASSUME CInv, NEW p \in Callers \ Sessions, ScheduleAbortSession(p)
  PROVE  CInv'
<1> USE DEF ScheduleAbortSession, Goto
<1>a. /\ TypeOK /\ StepInv /\ OperationInv /\ HandleInv /\ RegisteredInv /\ ReportInv
      /\ ThreadInv
  BY DEF CInv
<1>1. TypeOK' BY <1>a DEF TypeOK, Steps
<1>2. StepInv'
  <2>1. ASSUME NEW q \in Callers PROVE CallerOK(q)' BY <1>a DEF CallerOK, StepInv, TakenAway
  <2>2. QED BY <1>a, <2>1 DEF StepInv
<1>3. OperationInv'
  <2>1. ASSUME NEW r \in Sessions PROVE OperationOK(r)'
    BY <1>a DEF OperationInv, OperationOK, StepInv, CallerOK, Adding, Reading, TakenAway, At
  <2>2. QED BY <2>1 DEF OperationInv
<1>4. HandleInv'
  <2>1. ASSUME NEW r \in Sessions PROVE HandleOK(r)' BY <1>a DEF HandleInv, HandleOK, Reading, At
  <2>2. QED BY <1>a, <2>1 DEF HandleInv
<1>5. RegisteredInv'
  <2>1. ASSUME NEW r \in Sessions PROVE RegisteredOK(r)'
    BY <1>a DEF RegisteredInv, RegisteredOK, Adding, Reading, TakenAway, At, Unfinished
  <2>2. QED BY <2>1 DEF RegisteredInv
<1>6. ReportInv'
  <2>1. ASSUME NEW r \in Sessions PROVE ReportOK(r)' BY <1>a DEF ReportInv, ReportOK, At
  <2>2. QED BY <2>1 DEF ReportInv
<1>7. ThreadInv' BY <1>a DEF ThreadInv
<1>8. QED BY <1>1, <1>2, <1>3, <1>4, <1>5, <1>6, <1>7 DEF CInv

-----------------------------------------------------------------------------
(* Cleanup of an operation.                                                *)

\* The session at hand is cleaned up, unless it has been, and if it is still in
\* sessions_ it waits for its promise.
LEMMA CleanupStep ==
  ASSUME CInv, Cleanup
  PROVE  CInv'
<1> USE DEF Cleanup, Tell
<1>a. /\ TypeOK /\ StepInv /\ OperationInv /\ HandleInv /\ RegisteredInv /\ ReportInv
      /\ ThreadInv
  BY DEF CInv
<1>1. TypeOK' BY <1>a DEF TypeOK, Steps, StepInv
<1>2. StepInv'
  <2>1. ASSUME NEW q \in Callers PROVE CallerOK(q)'
    BY <1>a DEF CallerOK, TypeOK, StepInv, TakenAway
  <2>2. QED BY <1>a, <2>1 DEF StepInv, TypeOK
<1>3. OperationInv'
  <2>1. ASSUME NEW r \in Sessions PROVE OperationOK(r)'
    BY <1>a DEF OperationInv, OperationOK, TypeOK, StepInv, Adding, Reading, TakenAway, At
  <2>2. QED BY <2>1 DEF OperationInv
<1>4. HandleInv'
  <2>1. ASSUME NEW r \in Sessions PROVE HandleOK(r)'
    BY <1>a DEF HandleInv, HandleOK, TypeOK, StepInv, OperationInv, OperationOK, Reading, At
  <2>2. QED BY <1>a, <2>1 DEF HandleInv, TypeOK, StepInv
<1>5. RegisteredInv'
  <2>1. ASSUME NEW r \in Sessions PROVE RegisteredOK(r)'
    BY <1>a DEF RegisteredInv, RegisteredOK, TypeOK, StepInv, OperationInv, OperationOK,
       HandleInv, HandleOK, Adding, Reading, TakenAway, At, Unfinished
  <2>2. QED BY <2>1 DEF RegisteredInv
<1>6. ReportInv'
  <2>1. ASSUME NEW r \in Sessions PROVE ReportOK(r)'
    BY <1>a DEF ReportInv, ReportOK, TypeOK, OperationInv, OperationOK, At
  <2>2. QED BY <2>1 DEF ReportInv
<1>7. ThreadInv' BY <1>a DEF ThreadInv, TypeOK, StepInv
<1>8. QED BY <1>1, <1>2, <1>3, <1>4, <1>5, <1>6, <1>7 DEF CInv

\* The handle moves to the handles to be freed as the operation is unbound.
LEMMA UnbindStep ==
  ASSUME CInv, Unbind
  PROVE  CInv'
<1> USE DEF Unbind, Tell
<1>a. /\ TypeOK /\ StepInv /\ OperationInv /\ HandleInv /\ RegisteredInv /\ ReportInv
      /\ ThreadInv
  BY DEF CInv
<1>1. TypeOK' BY <1>a DEF TypeOK, Steps
<1>2. StepInv'
  <2>1. ASSUME NEW q \in Callers PROVE CallerOK(q)'
    BY <1>a DEF CallerOK, TypeOK, StepInv, TakenAway
  <2>2. QED BY <1>a, <2>1 DEF StepInv, TypeOK
<1>3. OperationInv'
  <2>1. ASSUME NEW r \in Sessions PROVE OperationOK(r)'
    BY <1>a DEF OperationInv, OperationOK, TypeOK, StepInv, Adding, Reading, TakenAway, At
  <2>2. QED BY <2>1 DEF OperationInv
<1>4. HandleInv'
  <2>1. ASSUME NEW r \in Sessions PROVE HandleOK(r)'
    BY <1>a DEF HandleInv, HandleOK, TypeOK, OperationInv, OperationOK, Reading, At
  <2>2. QED BY <1>a, <2>1 DEF HandleInv, TypeOK, StepInv
<1>5. RegisteredInv'
  <2>1. ASSUME NEW r \in Sessions PROVE RegisteredOK(r)'
    BY <1>a DEF RegisteredInv, RegisteredOK, TypeOK, StepInv, OperationInv, OperationOK, Adding,
       Reading, TakenAway, At, Unfinished
  <2>2. QED BY <2>1 DEF RegisteredInv
<1>6. ReportInv'
  <2>1. ASSUME NEW r \in Sessions PROVE ReportOK(r)' BY <1>a DEF ReportInv, ReportOK, TypeOK, At
  <2>2. QED BY <2>1 DEF ReportInv
<1>7. ThreadInv' BY <1>a DEF ThreadInv, TypeOK, StepInv
<1>8. QED BY <1>1, <1>2, <1>3, <1>4, <1>5, <1>6, <1>7 DEF CInv

\* A session with its promise set may be in any container.
LEMMA SetPromiseStep ==
  ASSUME CInv, SetPromise
  PROVE  CInv'
<1> USE DEF SetPromise, Goto
<1>a. /\ TypeOK /\ StepInv /\ OperationInv /\ HandleInv /\ RegisteredInv /\ ReportInv
      /\ ThreadInv
  BY DEF CInv
<1>1. TypeOK' BY <1>a DEF TypeOK, StepInv
<1>2. StepInv'
  <2>1. ASSUME NEW q \in Callers PROVE CallerOK(q)' BY <1>a DEF CallerOK, StepInv, TakenAway
  <2>2. QED BY <1>a, <2>1 DEF StepInv
<1>3. OperationInv'
  <2>1. ASSUME NEW r \in Sessions PROVE OperationOK(r)'
    BY <1>a DEF OperationInv, OperationOK, TypeOK, StepInv, Adding, Reading, TakenAway, At
  <2>2. QED BY <2>1 DEF OperationInv
<1>4. HandleInv'
  <2>1. ASSUME NEW r \in Sessions PROVE HandleOK(r)' BY <1>a DEF HandleInv, HandleOK, Reading, At
  <2>2. QED BY <1>a, <2>1 DEF HandleInv, StepInv
<1>5. RegisteredInv'
  <2>1. ASSUME NEW r \in Sessions PROVE RegisteredOK(r)'
    BY <1>a DEF RegisteredInv, RegisteredOK, TypeOK, StepInv, OperationInv, OperationOK, Adding,
       Reading, TakenAway, At, Unfinished
  <2>2. QED BY <2>1 DEF RegisteredInv
<1>6. ReportInv'
  <2>1. ASSUME NEW r \in Sessions PROVE ReportOK(r)' BY <1>a DEF ReportInv, ReportOK, At
  <2>2. QED BY <2>1 DEF ReportInv
<1>7. ThreadInv' BY <1>a DEF ThreadInv, StepInv
<1>8. QED BY <1>1, <1>2, <1>3, <1>4, <1>5, <1>6, <1>7 DEF CInv

-----------------------------------------------------------------------------
(* The background thread.                                                  *)

\* The transfers that end are the ones whose messages are read.
LEMMA PerformStep ==
  ASSUME CInv, NEW ended \in SUBSET live, Perform(ended)
  PROVE  CInv'
<1> USE DEF Perform, Goto
<1>a. /\ TypeOK /\ StepInv /\ OperationInv /\ HandleInv /\ RegisteredInv /\ ReportInv
      /\ ThreadInv
  BY DEF CInv
<1>1. TypeOK' BY <1>a DEF TypeOK, Steps
<1>2. StepInv'
  <2>1. ASSUME NEW q \in Callers PROVE CallerOK(q)' BY <1>a DEF CallerOK, StepInv, TakenAway
  <2>2. QED BY <1>a, <2>1 DEF StepInv, TypeOK
<1>3. OperationInv'
  <2>1. ASSUME NEW r \in Sessions PROVE OperationOK(r)'
    BY <1>a DEF OperationInv, OperationOK, TypeOK, HandleInv, HandleOK, Adding, Reading,
       TakenAway, At
  <2>2. QED BY <2>1 DEF OperationInv
<1>4. HandleInv'
  <2>1. ASSUME NEW r \in Sessions PROVE HandleOK(r)'
    BY <1>a DEF HandleInv, HandleOK, TypeOK, Reading, At
  <2>2. QED BY <1>a, <2>1 DEF HandleInv
<1>5. RegisteredInv'
  <2>1. ASSUME NEW r \in Sessions PROVE RegisteredOK(r)'
    BY <1>a DEF RegisteredInv, RegisteredOK, TypeOK, Adding, Reading, TakenAway, At, Unfinished
  <2>2. QED BY <2>1 DEF RegisteredInv
<1>6. ReportInv'
  <2>1. ASSUME NEW r \in Sessions PROVE ReportOK(r)' BY <1>a DEF ReportInv, ReportOK, At
  <2>2. QED BY <2>1 DEF ReportInv
<1>7. ThreadInv' BY <1>a DEF ThreadInv, TypeOK
<1>8. QED BY <1>1, <1>2, <1>3, <1>4, <1>5, <1>6, <1>7 DEF CInv

\* A session whose message is read waits for its retry or is cleaned up.
LEMMA MessageStep ==
  ASSUME CInv, NEW s \in Sessions, PerformCurlMessage(s)
  PROVE  CInv'
<1> USE DEF PerformCurlMessage, IsRetryable, Tell, Goto
<1>a. /\ TypeOK /\ StepInv /\ OperationInv /\ HandleInv /\ RegisteredInv /\ ReportInv
      /\ ThreadInv
  BY DEF CInv
<1>1. TypeOK' BY <1>a DEF TypeOK, Steps
<1>2. StepInv'
  <2>1. ASSUME NEW q \in Callers PROVE CallerOK(q)'
    BY <1>a DEF CallerOK, TypeOK, StepInv, TakenAway
  <2>2. QED BY <1>a, <2>1 DEF StepInv, TypeOK
<1>3. OperationInv'
  <2>1. ASSUME NEW r \in Sessions PROVE OperationOK(r)'
    BY <1>a DEF OperationInv, OperationOK, TypeOK, StepInv, Adding, Reading, TakenAway, At
  <2>2. QED BY <2>1 DEF OperationInv
<1>4. HandleInv'
  <2>1. ASSUME NEW r \in Sessions PROVE HandleOK(r)'
    BY <1>a DEF HandleInv, HandleOK, TypeOK, StepInv, Reading, At
  <2>2. QED BY <1>a, <2>1 DEF HandleInv, TypeOK
<1>5. RegisteredInv'
  <2>1. ASSUME NEW r \in Sessions PROVE RegisteredOK(r)'
    BY <1>a DEF RegisteredInv, RegisteredOK, TypeOK, StepInv, OperationInv, OperationOK, Adding,
       Reading, TakenAway, At, Unfinished
  <2>2. QED BY <2>1 DEF RegisteredInv
<1>6. ReportInv'
  <2>1. ASSUME NEW r \in Sessions PROVE ReportOK(r)'
    BY <1>a DEF ReportInv, ReportOK, TypeOK, StepInv, OperationInv, OperationOK, Reading, At
  <2>2. QED BY <2>1 DEF ReportInv
<1>7. ThreadInv' BY SMTT(30), <1>a DEF ThreadInv, TypeOK
<1>8. QED BY <1>1, <1>2, <1>3, <1>4, <1>5, <1>6, <1>7 DEF CInv

\* A list that has come to its end is forgotten.
LEMMA EndOfStep ==
  ASSUME CInv, NEW list, NEW next,
         \/ list = "read" /\ next = "doAbort"
         \/ list \in {"aborting", "removing"} /\ next = "remove",
         EndOf(list, next)
  PROVE  CInv'
<1> USE DEF EndOf, Goto
<1>a. /\ TypeOK /\ StepInv /\ OperationInv /\ HandleInv /\ RegisteredInv /\ ReportInv
      /\ ThreadInv
  BY DEF CInv
<1>1. TypeOK' BY <1>a DEF TypeOK, Steps
<1>2. StepInv'
  <2>1. ASSUME NEW q \in Callers PROVE CallerOK(q)' BY <1>a DEF CallerOK, StepInv, TakenAway
  <2>2. QED BY <1>a, <2>1 DEF StepInv, TypeOK
<1>3. OperationInv'
  <2>1. ASSUME NEW r \in Sessions PROVE OperationOK(r)'
    BY <1>a DEF OperationInv, OperationOK, Adding, Reading, TakenAway, At
  <2>2. QED BY <2>1 DEF OperationInv
<1>4. HandleInv'
  <2>1. ASSUME NEW r \in Sessions PROVE HandleOK(r)' BY <1>a DEF HandleInv, HandleOK, Reading, At
  <2>2. QED BY <1>a, <2>1 DEF HandleInv
<1>5. RegisteredInv'
  <2>1. ASSUME NEW r \in Sessions PROVE RegisteredOK(r)'
    BY <1>a DEF RegisteredInv, RegisteredOK, Adding, Reading, TakenAway, At, Unfinished
  <2>2. QED BY <2>1 DEF RegisteredInv
<1>6. ReportInv'
  <2>1. ASSUME NEW r \in Sessions PROVE ReportOK(r)' BY <1>a DEF ReportInv, ReportOK, At
  <2>2. QED BY <2>1 DEF ReportInv
<1>7. ThreadInv' BY <1>a DEF ThreadInv, StepInv
<1>8. QED BY <1>1, <1>2, <1>3, <1>4, <1>5, <1>6, <1>7 DEF CInv

\* The next session of a list of cancelled ones is cleaned up.
LEMMA FinishOperationsStep ==
  ASSUME CInv, NEW list \in {"aborting", "removing"}, FinishOperations(list)
  PROVE  CInv'
<1> USE DEF FinishOperations, Goto
<1>a. /\ TypeOK /\ StepInv /\ OperationInv /\ HandleInv /\ RegisteredInv /\ ReportInv
      /\ ThreadInv
  BY DEF CInv
<1>1. TypeOK' BY <1>a DEF TypeOK, Steps
<1>2. StepInv'
  <2>1. ASSUME NEW q \in Callers PROVE CallerOK(q)'
    BY <1>a DEF CallerOK, TypeOK, StepInv, TakenAway
  <2>2. QED BY <1>a, <2>1 DEF StepInv, TypeOK
<1>3. OperationInv'
  <2>1. ASSUME NEW r \in Sessions PROVE OperationOK(r)'
    BY <1>a DEF OperationInv, OperationOK, TypeOK, StepInv, Adding, Reading, TakenAway, At
  <2>2. QED BY <2>1 DEF OperationInv
<1>4. HandleInv'
  <2>1. ASSUME NEW r \in Sessions PROVE HandleOK(r)'
    BY <1>a DEF HandleInv, HandleOK, StepInv, Reading, At
  <2>2. QED BY <1>a, <2>1 DEF HandleInv
<1>5. RegisteredInv'
  <2>1. ASSUME NEW r \in Sessions PROVE RegisteredOK(r)'
    BY <1>a DEF RegisteredInv, RegisteredOK, TypeOK, Adding, Reading, TakenAway, At, Unfinished
  <2>2. QED BY <2>1 DEF RegisteredInv
<1>6. ReportInv'
  <2>1. ASSUME NEW r \in Sessions PROVE ReportOK(r)'
    BY <1>a DEF ReportInv, ReportOK, TypeOK, StepInv, At
  <2>2. QED BY <2>1 DEF ReportInv
<1>7. ThreadInv' BY <1>a DEF ThreadInv
<1>8. QED BY <1>1, <1>2, <1>3, <1>4, <1>5, <1>6, <1>7 DEF CInv

\* The sessions to abort become the list.
LEMMA TakeAbortsStep ==
  ASSUME CInv, TakeAborts
  PROVE  CInv'
<1> USE DEF TakeAborts, Goto
<1>a. /\ TypeOK /\ StepInv /\ OperationInv /\ HandleInv /\ RegisteredInv /\ ReportInv
      /\ ThreadInv
  BY DEF CInv
<1>1. TypeOK' BY <1>a DEF TypeOK, Steps
<1>2. StepInv'
  <2>1. ASSUME NEW q \in Callers PROVE CallerOK(q)' BY <1>a DEF CallerOK, StepInv, TakenAway
  <2>2. QED BY <1>a, <2>1 DEF StepInv, TypeOK
<1>3. OperationInv'
  <2>1. ASSUME NEW r \in Sessions PROVE OperationOK(r)'
    BY <1>a DEF OperationInv, OperationOK, TypeOK, Adding, Reading, TakenAway, At
  <2>2. QED BY <2>1 DEF OperationInv
<1>4. HandleInv'
  <2>1. ASSUME NEW r \in Sessions PROVE HandleOK(r)' BY <1>a DEF HandleInv, HandleOK, Reading, At
  <2>2. QED BY <1>a, <2>1 DEF HandleInv
<1>5. RegisteredInv'
  <2>1. ASSUME NEW r \in Sessions PROVE RegisteredOK(r)'
    BY <1>a DEF RegisteredInv, RegisteredOK, TypeOK, Adding, Reading, TakenAway, At, Unfinished
  <2>2. QED BY <2>1 DEF RegisteredInv
<1>6. ReportInv'
  <2>1. ASSUME NEW r \in Sessions PROVE ReportOK(r)' BY <1>a DEF ReportInv, ReportOK, StepInv, At
  <2>2. QED BY <2>1 DEF ReportInv
<1>7. ThreadInv' BY <1>a DEF ThreadInv, TypeOK
<1>8. QED BY <1>1, <1>2, <1>3, <1>4, <1>5, <1>6, <1>7 DEF CInv

\* No handle in the multi handle is freed, since each leaves it first.
LEMMA RemoveHandlesStep ==
  ASSUME CInv, RemoveHandles
  PROVE  CInv'
<1> USE DEF RemoveHandles, Goto
<1>a. /\ TypeOK /\ StepInv /\ OperationInv /\ HandleInv /\ RegisteredInv /\ ReportInv
      /\ ThreadInv
  BY DEF CInv
<1>1. TypeOK' BY <1>a DEF TypeOK, Steps
<1>2. StepInv'
  <2>1. ASSUME NEW q \in Callers PROVE CallerOK(q)' BY <1>a DEF CallerOK, StepInv, TakenAway
  <2>2. QED BY <1>a, <2>1 DEF StepInv, TypeOK
<1>3. OperationInv'
  <2>1. ASSUME NEW r \in Sessions PROVE OperationOK(r)'
    BY <1>a DEF OperationInv, OperationOK, TypeOK, HandleInv, HandleOK, Adding, Reading,
       TakenAway, At
  <2>2. QED BY <2>1 DEF OperationInv
<1>4. HandleInv'
  <2>1. ASSUME NEW r \in Sessions PROVE HandleOK(r)' BY <1>a DEF HandleInv, HandleOK, Reading, At
  <2>2. QED BY <1>a, <2>1 DEF HandleInv
<1>5. RegisteredInv'
  <2>1. ASSUME NEW r \in Sessions PROVE RegisteredOK(r)'
    BY <1>a DEF RegisteredInv, RegisteredOK, TypeOK, Adding, Reading, TakenAway, At, Unfinished
  <2>2. QED BY <2>1 DEF RegisteredInv
<1>6. ReportInv'
  <2>1. ASSUME NEW r \in Sessions PROVE ReportOK(r)' BY <1>a DEF ReportInv, ReportOK, TypeOK, At
  <2>2. QED BY <2>1 DEF ReportInv
<1>7. ThreadInv' BY <1>a DEF ThreadInv, TypeOK
<1>8. QED BY <1>1, <1>2, <1>3, <1>4, <1>5, <1>6, <1>7 DEF CInv

\* The ids to add become the list.
LEMMA TakeIdsStep ==
  ASSUME CInv, TakeIds
  PROVE  CInv'
<1> USE DEF TakeIds, Goto
<1>a. /\ TypeOK /\ StepInv /\ OperationInv /\ HandleInv /\ RegisteredInv /\ ReportInv
      /\ ThreadInv
  BY DEF CInv
<1>1. TypeOK' BY <1>a DEF TypeOK, Steps
<1>2. StepInv'
  <2>1. ASSUME NEW q \in Callers PROVE CallerOK(q)' BY <1>a DEF CallerOK, StepInv, TakenAway
  <2>2. QED BY <1>a, <2>1 DEF StepInv, TypeOK
<1>3. OperationInv'
  <2>1. ASSUME NEW r \in Sessions PROVE OperationOK(r)'
    BY <1>a DEF OperationInv, OperationOK, TypeOK, Adding, Reading, TakenAway, At
  <2>2. QED BY <2>1 DEF OperationInv
<1>4. HandleInv'
  <2>1. ASSUME NEW r \in Sessions PROVE HandleOK(r)' BY <1>a DEF HandleInv, HandleOK, Reading, At
  <2>2. QED BY <1>a, <2>1 DEF HandleInv
<1>5. RegisteredInv'
  <2>1. ASSUME NEW r \in Sessions PROVE RegisteredOK(r)'
    BY <1>a DEF RegisteredInv, RegisteredOK, TypeOK, Adding, Reading, TakenAway, At, Unfinished
  <2>2. QED BY <2>1 DEF RegisteredInv
<1>6. ReportInv'
  <2>1. ASSUME NEW r \in Sessions PROVE ReportOK(r)' BY <1>a DEF ReportInv, ReportOK, At
  <2>2. QED BY <2>1 DEF ReportInv
<1>7. ThreadInv' BY <1>a DEF ThreadInv
<1>8. QED BY <1>1, <1>2, <1>3, <1>4, <1>5, <1>6, <1>7 DEF CInv

\* A registered session that is added runs; one that has been cancelled is not added.
LEMMA AddHandlesStep ==
  ASSUME CInv, AddHandles
  PROVE  CInv'
<1> USE DEF AddHandles, Goto
<1>a. /\ TypeOK /\ StepInv /\ OperationInv /\ HandleInv /\ RegisteredInv /\ ReportInv
      /\ ThreadInv
  BY DEF CInv
<1>b. /\ \A r \in Sessions :
           /\ r \in multi' <=>
                r \in multi \/ (r \in todo[Worker] \intersect sessions /\ handle[r] = "own")
           /\ r \in live' <=>
                r \in live \/ (r \in todo[Worker] \intersect sessions /\ handle[r] = "own")
      /\ ~stillRunning' => ~stillRunning /\ live' = live
  OBVIOUS
<1>c. /\ pc[Worker] = "adding" /\ pc'[Worker] = "retry" /\ todo'[Worker] = {}
      /\ \A q \in Callers : pc'[q] = pc[q]
  BY <1>a DEF TypeOK
<1>1. TypeOK' BY <1>a DEF TypeOK, Steps
<1>2. StepInv'
  <2>1. ASSUME NEW q \in Callers PROVE CallerOK(q)' BY <1>a, <1>c DEF CallerOK, StepInv, TakenAway
  <2>2. QED BY <1>a, <1>c, <2>1 DEF StepInv
<1>3. OperationInv'
  <2>1. ASSUME NEW r \in Sessions PROVE OperationOK(r)'
    BY <1>a, <1>c DEF OperationInv, OperationOK, Adding, Reading, TakenAway, At
  <2>2. QED BY <2>1 DEF OperationInv
<1>4. HandleInv'
  <2>1. ASSUME NEW r \in Sessions PROVE HandleOK(r)'
    BY <1>a, <1>b, <1>c DEF HandleInv, HandleOK, RegisteredInv, RegisteredOK, Adding, Reading,
       At
  <2>2. QED BY <1>a, <2>1 DEF HandleInv
<1>5. RegisteredInv'
  <2>1. ASSUME NEW r \in Sessions PROVE RegisteredOK(r)'
    BY <1>a, <1>b, <1>c DEF RegisteredInv, RegisteredOK, OperationInv, OperationOK, Adding,
       Reading, TakenAway, At, Unfinished
  <2>2. QED BY <2>1 DEF RegisteredInv
<1>6. ReportInv'
  <2>1. ASSUME NEW r \in Sessions PROVE ReportOK(r)' BY <1>a, <1>c DEF ReportInv, ReportOK, At
  <2>2. QED BY <2>1 DEF ReportInv
<1>7. ThreadInv' BY <1>a, <1>b, <1>c DEF ThreadInv
<1>8. QED BY <1>1, <1>2, <1>3, <1>4, <1>5, <1>6, <1>7 DEF CInv

\* What is not retried now is counted by the last look.
LEMMA RetryStep ==
  ASSUME CInv, NEW due \in SUBSET toRetry, DoRetrySessions(due)
  PROVE  CInv'
<1> USE DEF DoRetrySessions, Goto
<1>a. /\ TypeOK /\ StepInv /\ OperationInv /\ HandleInv /\ RegisteredInv /\ ReportInv
      /\ ThreadInv
  BY DEF CInv
<1>b. ~stillRunning' => ~stillRunning /\ live' = live /\ (busy => toRetry' = {})
  OBVIOUS
<1>1. TypeOK' BY <1>a DEF TypeOK, Steps
<1>2. StepInv'
  <2>1. ASSUME NEW q \in Callers PROVE CallerOK(q)' BY <1>a DEF CallerOK, StepInv, TakenAway
  <2>2. QED BY <1>a, <2>1 DEF StepInv
<1>3. OperationInv'
  <2>1. ASSUME NEW r \in Sessions PROVE OperationOK(r)'
    BY <1>a DEF OperationInv, OperationOK, Adding, Reading, TakenAway, At
  <2>2. QED BY <2>1 DEF OperationInv
<1>4. HandleInv'
  <2>1. ASSUME NEW r \in Sessions PROVE HandleOK(r)'
    BY <1>a DEF HandleInv, HandleOK, OperationInv, OperationOK, Reading, At
  <2>2. QED BY <1>a, <2>1 DEF HandleInv
<1>5. RegisteredInv'
  <2>1. ASSUME NEW r \in Sessions PROVE RegisteredOK(r)'
    BY <1>a DEF RegisteredInv, RegisteredOK, OperationInv, OperationOK, Adding, Reading,
       TakenAway, At, Unfinished
  <2>2. QED BY <2>1 DEF RegisteredInv
<1>6. ReportInv'
  <2>1. ASSUME NEW r \in Sessions PROVE ReportOK(r)' BY <1>a DEF ReportInv, ReportOK, At
  <2>2. QED BY <2>1 DEF ReportInv
<1>7. ThreadInv' BY <1>a, <1>b DEF ThreadInv
<1>8. QED BY <1>1, <1>2, <1>3, <1>4, <1>5, <1>6, <1>7 DEF CInv

\* The last look begins with the mutex held.
LEMMA DecideStep ==
  ASSUME CInv, Decide
  PROVE  CInv'
<1> USE DEF Decide, Goto
<1>a. /\ TypeOK /\ StepInv /\ OperationInv /\ HandleInv /\ RegisteredInv /\ ReportInv
      /\ ThreadInv
  BY DEF CInv
<1>b. busy' \in BOOLEAN /\ UNCHANGED <<thread, isShutdown, taken, stillRunning>>
  BY <1>a DEF TypeOK
<1>1. TypeOK' BY <1>a, <1>b DEF TypeOK, Steps
<1>2. StepInv'
  <2>1. ASSUME NEW q \in Callers PROVE CallerOK(q)'
    BY <1>a DEF CallerOK, TypeOK, StepInv, TakenAway
  <2>2. QED BY <1>a, <2>1 DEF StepInv, TypeOK
<1>3. OperationInv'
  <2>1. ASSUME NEW r \in Sessions PROVE OperationOK(r)'
    BY <1>a DEF OperationInv, OperationOK, TypeOK, Adding, Reading, TakenAway, At
  <2>2. QED BY <2>1 DEF OperationInv
<1>4. HandleInv'
  <2>1. ASSUME NEW r \in Sessions PROVE HandleOK(r)'
    BY <1>a DEF HandleInv, HandleOK, TypeOK, Reading, At
  <2>2. QED BY <1>a, <2>1 DEF HandleInv
<1>5. RegisteredInv'
  <2>1. ASSUME NEW r \in Sessions PROVE RegisteredOK(r)'
    BY <1>a DEF RegisteredInv, RegisteredOK, TypeOK, Adding, Reading, TakenAway, At, Unfinished
  <2>2. QED BY <2>1 DEF RegisteredInv
<1>6. ReportInv'
  <2>1. ASSUME NEW r \in Sessions PROVE ReportOK(r)' BY <1>a DEF ReportInv, ReportOK, TypeOK, At
  <2>2. QED BY <2>1 DEF ReportInv
<1>7. ThreadInv' BY <1>a DEF ThreadInv, TypeOK
<1>8. QED BY <1>1, <1>2, <1>3, <1>4, <1>5, <1>6, <1>7 DEF CInv

\* The thread leaves when the last look has found neither a transfer, nor a retry,
\* nor an id that is not about to get a thread.
LEMMA DecideLockedStep ==
  ASSUME CInv, DecideLocked
  PROVE  CInv'
<1> USE DEF DecideLocked, Goto
<1>a. /\ TypeOK /\ StepInv /\ OperationInv /\ HandleInv /\ RegisteredInv /\ ReportInv
      /\ ThreadInv
  BY DEF CInv
<1>b. busy' \in BOOLEAN /\ thread' \in BOOLEAN /\ UNCHANGED <<isShutdown, taken, stillRunning>>
  BY <1>a DEF TypeOK
<1>1. TypeOK' BY <1>a, <1>b DEF TypeOK, Steps
<1>2. StepInv'
  <2>1. ASSUME NEW q \in Callers PROVE CallerOK(q)'
    BY <1>a DEF CallerOK, TypeOK, StepInv, TakenAway
  <2>2. QED BY <1>a, <2>1 DEF StepInv, TypeOK
<1>3. OperationInv'
  <2>1. ASSUME NEW r \in Sessions PROVE OperationOK(r)'
    BY <1>a DEF OperationInv, OperationOK, TypeOK, Adding, Reading, TakenAway, At
  <2>2. QED BY <2>1 DEF OperationInv
<1>4. HandleInv'
  <2>1. ASSUME NEW r \in Sessions PROVE HandleOK(r)'
    BY <1>a DEF HandleInv, HandleOK, TypeOK, Reading, At
  <2>2. QED BY <1>a, <2>1 DEF HandleInv
<1>5. RegisteredInv'
  <2>1. ASSUME NEW r \in Sessions PROVE RegisteredOK(r)'
    BY <1>a DEF RegisteredInv, RegisteredOK, TypeOK, Adding, Reading, TakenAway, At, Unfinished
  <2>2. QED BY <2>1 DEF RegisteredInv
<1>6. ReportInv'
  <2>1. ASSUME NEW r \in Sessions PROVE ReportOK(r)' BY <1>a DEF ReportInv, ReportOK, TypeOK, At
  <2>2. QED BY <2>1 DEF ReportInv
<1>7. ThreadInv' BY <1>a DEF ThreadInv, TypeOK
<1>8. QED BY <1>1, <1>2, <1>3, <1>4, <1>5, <1>6, <1>7 DEF CInv

-----------------------------------------------------------------------------
(* The destructor.                                                         *)

\* No call is under way, and none will begin.
LEMMA DestroyStartStep ==
  ASSUME CInv, DestroyStart
  PROVE  CInv'
<1> USE DEF DestroyStart, Goto
<1>a. /\ TypeOK /\ StepInv /\ OperationInv /\ HandleInv /\ RegisteredInv /\ ReportInv
      /\ ThreadInv
  BY DEF CInv
<1>1. TypeOK' BY <1>a DEF TypeOK, Steps
<1>2. StepInv'
  <2>1. ASSUME NEW q \in Callers PROVE CallerOK(q)' BY <1>a DEF CallerOK, StepInv
  <2>2. QED BY <1>a, <2>1 DEF StepInv
<1>3. OperationInv'
  <2>1. ASSUME NEW r \in Sessions PROVE OperationOK(r)'
    BY <1>a DEF OperationInv, OperationOK, Adding, Reading, TakenAway, At
  <2>2. QED BY <2>1 DEF OperationInv
<1>4. HandleInv'
  <2>1. ASSUME NEW r \in Sessions PROVE HandleOK(r)' BY <1>a DEF HandleInv, HandleOK, Reading, At
  <2>2. QED BY <1>a, <2>1 DEF HandleInv
<1>5. RegisteredInv'
  <2>1. ASSUME NEW r \in Sessions PROVE RegisteredOK(r)'
    BY <1>a DEF RegisteredInv, RegisteredOK, Adding, Reading, TakenAway, At, Unfinished
  <2>2. QED BY <2>1 DEF RegisteredInv
<1>6. ReportInv'
  <2>1. ASSUME NEW r \in Sessions PROVE ReportOK(r)' BY <1>a DEF ReportInv, ReportOK, At
  <2>2. QED BY <2>1 DEF ReportInv
<1>7. ThreadInv' BY <1>a DEF ThreadInv
<1>8. QED BY <1>1, <1>2, <1>3, <1>4, <1>5, <1>6, <1>7 DEF CInv

\* Without a thread to take there is none running.
LEMMA TakeThreadStep ==
  ASSUME CInv, TakeThread
  PROVE  CInv'
<1> USE DEF TakeThread, Goto
<1>a. /\ TypeOK /\ StepInv /\ OperationInv /\ HandleInv /\ RegisteredInv /\ ReportInv
      /\ ThreadInv
  BY DEF CInv
<1>1. TypeOK'
  <2>1. thread' \in BOOLEAN /\ taken' \in BOOLEAN /\ stillRunning' \in BOOLEAN
    BY <1>a DEF TypeOK
  <2>2. pc' \in [Callers \union {Worker} -> Steps] BY <1>a DEF TypeOK, Steps
  <2>3. QED BY <1>a, <2>1, <2>2 DEF TypeOK
<1>2. StepInv'
  <2>1. ASSUME NEW q \in Callers PROVE CallerOK(q)' BY <1>a DEF CallerOK, StepInv, ThreadInv
  <2>2. QED BY <1>a, <2>1 DEF StepInv
<1>3. OperationInv'
  <2>1. ASSUME NEW r \in Sessions PROVE OperationOK(r)'
    BY <1>a DEF OperationInv, OperationOK, Adding, Reading, TakenAway, At
  <2>2. QED BY <2>1 DEF OperationInv
<1>4. HandleInv'
  <2>1. ASSUME NEW r \in Sessions PROVE HandleOK(r)' BY <1>a DEF HandleInv, HandleOK, Reading, At
  <2>2. QED BY <1>a, <2>1 DEF HandleInv
<1>5. RegisteredInv'
  <2>1. ASSUME NEW r \in Sessions PROVE RegisteredOK(r)'
    BY <1>a DEF RegisteredInv, RegisteredOK, Adding, Reading, TakenAway, At, Unfinished
  <2>2. QED BY <2>1 DEF RegisteredInv
<1>6. ReportInv'
  <2>1. ASSUME NEW r \in Sessions PROVE ReportOK(r)' BY <1>a DEF ReportInv, ReportOK, At
  <2>2. QED BY <2>1 DEF ReportInv
<1>7. ThreadInv' BY <1>a DEF ThreadInv, TypeOK
<1>8. QED BY <1>1, <1>2, <1>3, <1>4, <1>5, <1>6, <1>7 DEF CInv

\* The thread that was taken has gone, and another may have come before it.
LEMMA JoinStep ==
  ASSUME CInv, Join
  PROVE  CInv'
<1> USE DEF Join, Goto
<1>a. /\ TypeOK /\ StepInv /\ OperationInv /\ HandleInv /\ RegisteredInv /\ ReportInv
      /\ ThreadInv
  BY DEF CInv
<1>1. TypeOK' BY <1>a DEF TypeOK, Steps
<1>2. StepInv'
  <2>1. ASSUME NEW q \in Callers PROVE CallerOK(q)' BY <1>a DEF CallerOK, StepInv, ThreadInv
  <2>2. QED BY <1>a, <2>1 DEF StepInv
<1>3. OperationInv'
  <2>1. ASSUME NEW r \in Sessions PROVE OperationOK(r)'
    BY <1>a DEF OperationInv, OperationOK, Adding, Reading, TakenAway, At
  <2>2. QED BY <2>1 DEF OperationInv
<1>4. HandleInv'
  <2>1. ASSUME NEW r \in Sessions PROVE HandleOK(r)' BY <1>a DEF HandleInv, HandleOK, Reading, At
  <2>2. QED BY <1>a, <2>1 DEF HandleInv
<1>5. RegisteredInv'
  <2>1. ASSUME NEW r \in Sessions PROVE RegisteredOK(r)'
    BY <1>a DEF RegisteredInv, RegisteredOK, Adding, Reading, TakenAway, At, Unfinished
  <2>2. QED BY <2>1 DEF RegisteredInv
<1>6. ReportInv'
  <2>1. ASSUME NEW r \in Sessions PROVE ReportOK(r)' BY <1>a DEF ReportInv, ReportOK, At
  <2>2. QED BY <2>1 DEF ReportInv
<1>7. ThreadInv' BY <1>a DEF ThreadInv
<1>8. QED BY <1>1, <1>2, <1>3, <1>4, <1>5, <1>6, <1>7 DEF CInv

-----------------------------------------------------------------------------
(* The steps together.                                                     *)

\* The rounds of CancelAllSessions, by a thread that calls it or destroys the client.
LEMMA CancelAllStep ==
  ASSUME CInv, NEW p \in Callers \ Sessions, NEW next, p \in Cancellers => next = "done",
         p = Destructor => next = IF taken THEN "join" ELSE "done",
         CancelAllSessions(p, next)
  PROVE  CInv'
<1>1. CASE Scan(p, next) BY <1>1, ScanStep
<1>2. CASE Abort(p) BY <1>2, AbortStep
<1>3. CASE ScheduleAbortSession(p) BY <1>3, ScheduleAbortStep
<1>4. CASE EraseSession(p) BY <1>4, EraseStep
<1>5. CASE SettleSession(p, "next") BY <1>5, SettleStep
<1>6. QED BY <1>1, <1>2, <1>3, <1>4, <1>5 DEF CancelAllSessions

\* The owner of a session.
LEMMA OwnerStep ==
  ASSUME CInv, NEW s \in Sessions,
         \/ CreateSession(s) \/ NewOperation(s) \/ CompressionFails(s)
         \/ SendRequest(s) \/ FinishSession(s)
  PROVE  CInv'
<1>1. CASE CreateSession(s) BY <1>1, CreateSessionStep
<1>2. CASE NewOperation(s) BY <1>2, NewOperationStep
<1>3. CASE CompressionFails(s) BY <1>3, CompressionFailsStep
<1>4. CASE SendRequest(s)
  BY <1>4, SetupOkStep, SetupFailsStep, PublishStep, ScheduleAddStep, SpawnStep DEF SendRequest
<1>5. CASE FinishSession(s)
  <2>1. s \in Callers OBVIOUS
  <2>2. CASE FinishOfPromise(s) BY <2>2, FinishOfPromiseStep
  <2>3. CASE EraseSession(s) BY <2>1, <2>3, EraseStep
  <2>4. CASE SettleSession(s, "done") BY <2>1, <2>4, SettleStep
  <2>5. QED BY <1>5, <2>2, <2>3, <2>4 DEF FinishSession
<1>6. QED BY <1>1, <1>2, <1>3, <1>4, <1>5

\* The background thread.
LEMMA BackgroundThreadStep ==
  ASSUME CInv, BackgroundThread
  PROVE  CInv'
<1>1. CASE \E ended \in SUBSET live : Perform(ended) BY <1>1, PerformStep
<1>2. CASE \E s \in Sessions : PerformCurlMessage(s) BY <1>2, MessageStep
<1>3. CASE EndOf("read", "doAbort") BY <1>3, EndOfStep
<1>4. CASE DoAbortSessions
  BY <1>4, TakeAbortsStep, FinishOperationsStep, EndOfStep DEF DoAbortSessions
<1>5. CASE DoRemoveSessions
  BY <1>5, RemoveHandlesStep, FinishOperationsStep, EndOfStep DEF DoRemoveSessions
<1>6. CASE DoAddSessions BY <1>6, TakeIdsStep, AddHandlesStep DEF DoAddSessions
<1>7. CASE \E due \in SUBSET toRetry : DoRetrySessions(due) BY <1>7, RetryStep
<1>8. CASE FinishOperation BY <1>8, CleanupStep, UnbindStep, SetPromiseStep DEF FinishOperation
<1>9. CASE Decide \/ DecideLocked BY <1>9, DecideStep, DecideLockedStep
<1>10. QED
  BY <1>1, <1>2, <1>3, <1>4, <1>5, <1>6, <1>7, <1>8, <1>9 DEF BackgroundThread

\* CInv holds at first.
LEMMA CInvInit == Init => CInv
<1>1. SUFFICES ASSUME Init PROVE CInv OBVIOUS
<1>2. TypeOK
  <2>1. 0 \in 0 .. IF MaxAttempts > 1 THEN MaxAttempts - 1 ELSE 0 OBVIOUS
  <2>2. QED BY <1>1, <2>1 DEF Init, TypeOK, Steps
<1>3. StepInv BY <1>1 DEF Init, StepInv, CallerOK
<1>4. OperationInv
  BY <1>1 DEF Init, OperationInv, OperationOK, Adding, Reading, TakenAway, At
<1>5. HandleInv BY <1>1 DEF Init, HandleInv, HandleOK, Reading, At
<1>6. RegisteredInv BY <1>1 DEF Init, RegisteredInv, RegisteredOK
<1>7. ReportInv BY <1>1 DEF Init, ReportInv, ReportOK, At
<1>8. ThreadInv BY <1>1 DEF Init, ThreadInv
<1>9. QED BY <1>2, <1>3, <1>4, <1>5, <1>6, <1>7, <1>8 DEF CInv

\* Every step keeps CInv.
LEMMA CInvNext == CInv /\ [Next]_vars => CInv'
<1>1. SUFFICES ASSUME CInv, [Next]_vars PROVE CInv' OBVIOUS
<1>2. CASE \E s \in Sessions : \/ CreateSession(s) \/ NewOperation(s) \/ CompressionFails(s)
                               \/ SendRequest(s) \/ FinishSession(s)
  BY <1>1, <1>2, OwnerStep
<1>3. CASE \E k \in Cancellers : CallCancelAllSessions(k) \/ CancelAllSessions(k, "done")
  <2>1. PICK k \in Cancellers : CallCancelAllSessions(k) \/ CancelAllSessions(k, "done") BY <1>3
  <2>2. k \in Callers \ Sessions /\ k # Destructor OBVIOUS
  <2>3. QED BY <1>1, <2>1, <2>2, CallCancelAllStep, CancelAllStep
<1>4. CASE BackgroundThread BY <1>1, <1>4, BackgroundThreadStep
<1>5. CASE DestroyStart BY <1>1, <1>5, DestroyStartStep
<1>6. CASE Destroy
  <2>1. Destructor \in Callers \ Sessions /\ Destructor \notin Cancellers OBVIOUS
  <2>2. CASE TakeThread BY <1>1, <2>2, TakeThreadStep
  <2>3. CASE CancelAllSessions(Destructor, IF taken THEN "join" ELSE "done")
    BY <1>1, <2>1, <2>3, CancelAllStep
  <2>4. CASE Join BY <1>1, <2>4, JoinStep
  <2>5. QED BY <1>6, <2>2, <2>3, <2>4 DEF Destroy
<1>7. CASE UNCHANGED vars
  <2>1. /\ TypeOK /\ StepInv /\ OperationInv /\ HandleInv /\ RegisteredInv /\ ReportInv
        /\ ThreadInv
    BY <1>1 DEF CInv
  <2>2. TypeOK' /\ StepInv' /\ ThreadInv'
    BY <1>7, <2>1 DEF vars, TypeOK, StepInv, CallerOK, TakenAway, ThreadInv
  <2>3. OperationInv' /\ HandleInv' /\ RegisteredInv' /\ ReportInv'
    BY <1>7, <2>1 DEF vars, OperationInv, OperationOK, HandleInv, HandleOK, RegisteredInv,
                      RegisteredOK, ReportInv, ReportOK, Adding, Reading, TakenAway, At, Unfinished
  <2>4. QED BY <2>2, <2>3 DEF CInv
<1>8. QED BY <1>1, <1>2, <1>3, <1>4, <1>5, <1>6, <1>7 DEF Next

\* CInv is an invariant of the client: what its containers, the flags of its
\* operations and its two mutexes say of one another holds between any two of
\* its sections.
THEOREM Consistent == Spec => []CInv
<1>1. QED BY CInvInit, CInvNext, PTL DEF Spec

\* Types, and no request is tried more than max_attempts times.
THEOREM TypeCorrect == Spec => []TypeOK
<1>1. CInv => TypeOK BY DEF CInv
<1>2. QED BY <1>1, Consistent, PTL

-----------------------------------------------------------------------------
(* What CInv says of handles, of the thread and of the destructor.         *)

\* A handle of the multi handle is bound to its operation, or is waiting to be
\* freed, which it is not when the background thread is in curl_multi_perform.
LEMMA HandlesOwned == CInv => HandleOwned
<1>1. SUFFICES ASSUME CInv PROVE HandleOwned OBVIOUS
<1>2. TypeOK /\ OperationInv /\ HandleInv BY <1>1 DEF CInv
<1>3. ASSUME NEW s \in multi
      PROVE  handle[s] \in {"own", "moved"} /\ (pc[Worker] = "perform" => handle[s] = "own")
  BY <1>2 DEF TypeOK, OperationInv, OperationOK, HandleInv, HandleOK
<1>4. \A s \in toRemove : handle[s] = "moved" BY <1>2 DEF TypeOK, HandleInv, HandleOK
<1>5. \A s \in Sessions : handle[s] = "leaked" => told[s] = "early"
  BY <1>2 DEF HandleInv, HandleOK
<1>6. QED BY <1>3, <1>4, <1>5 DEF HandleOwned

\* The multi handle never holds an easy handle that has been freed, and
\* curl_multi_perform runs only handles that their operations still own.
THEOREM FreedOnce == Spec => []HandleOwned
<1>1. QED BY HandlesOwned, Consistent, PTL

\* A session whose stage is "sent" or "reported" has been handed over.
LEMMA HandedOver ==
  ASSUME CInv, NEW s \in sessions, Stage(s) \in {"sent", "reported"}
  PROVE  Unfinished(s)
<1>1. TypeOK /\ OperationInv /\ RegisteredInv BY DEF CInv
<1>2. s \in Sessions /\ OperationOK(s) /\ RegisteredOK(s)
  BY <1>1 DEF TypeOK, OperationInv, RegisteredInv
<1>3. told[s] # "refused" /\ promise[s] # "set" BY <1>2 DEF Stage, OperationOK
<1>4. told[s] # "early" BY <1>2 DEF RegisteredOK
<1>5. pc[s] \notin {"created", "setup", "publish", "schedule"}
  BY <1>2, <1>3, <1>4 DEF Stage, OperationOK
<1>6. QED BY <1>2, <1>3, <1>5 DEF RegisteredOK, Unfinished

\* Without a background thread nothing runs, waits for a retry or is at hand, and
\* whoever has put a registered session with the ids is about to spawn one.
LEMMA NobodyOverlooked == CInv => WorkHasThread
<1>1. SUFFICES ASSUME CInv, NoThread, NEW s \in sessions, Stage(s) \in {"sent", "reported"}
               PROVE  FALSE
  BY DEF WorkHasThread
<1>2. TypeOK /\ StepInv /\ HandleInv /\ RegisteredInv /\ ThreadInv BY <1>1 DEF CInv
<1>3. Unfinished(s) BY <1>1, HandedOver
<1>4. s \in Sessions /\ (Adding(s) \/ s \in live \union toRetry \/ Reading(s) \/ At(s, Cleaning))
  BY <1>2, <1>3 DEF TypeOK, RegisteredInv, RegisteredOK
<1>5. pc[Worker] = "idle" /\ pc[s] # "spawn" BY <1>1, <1>4 DEF NoThread
<1>6. live = {} /\ toRetry = {} BY <1>2, <1>5 DEF ThreadInv
<1>7. ~Reading(s) /\ ~At(s, Cleaning) /\ s \in toAdd
  BY <1>4, <1>5, <1>6 DEF Reading, At, Adding
<1>8. QED BY <1>2, <1>5, <1>7 DEF ThreadInv

\* A background thread that decides to leave overlooks no session of sessions_
\* that was handed over, whichever sections of other threads come between its
\* last look and its end.
THEOREM NoneOverlooked == Spec => []WorkHasThread
<1>1. QED BY NobodyOverlooked, Consistent, PTL

\* The destructor returns when the thread it took has gone and no session is
\* registered, and then nothing is left for a thread to do.
LEMMA DestructorDone == CInv => DestructorBarrier
<1>1. SUFFICES ASSUME CInv, pc[Destructor] = "done"
               PROVE  /\ pc[Worker] = "idle" /\ sessions = {} /\ multi = {} /\ toRetry = {}
                      /\ toRemove = {} /\ dropping = {}
  BY DEF DestructorBarrier
<1>2. TypeOK /\ StepInv /\ HandleInv /\ ThreadInv BY <1>1 DEF CInv
<1>3. pc[Worker] = "idle" /\ sessions = {} /\ toRetry = {} /\ live = {}
  BY <1>1, <1>2 DEF ThreadInv, StepInv
<1>4. toRemove = {} /\ dropping = {} BY <1>2, <1>3 DEF HandleInv, Freed
<1>5. multi = {} BY <1>2, <1>3, <1>4 DEF TypeOK, HandleInv, HandleOK, Reading, At
<1>6. QED BY <1>3, <1>4, <1>5

\* When the destructor has returned the background thread has gone, and there is
\* nothing left that one would have to drive, free or try again: sessions_, the
\* multi handle, the retries and the handles to be freed are empty.
THEOREM DestructorIsBarrier == Spec => []DestructorBarrier
<1>1. QED BY DestructorDone, Consistent, PTL

-----------------------------------------------------------------------------
(* The client implements HttpSessions.  Most steps leave every stage as it *)
(* is; the others move one session on, or all those that have been flagged *)
(* or left.                                                                *)

\* Steps of the owner of a session between which its stage does not differ.
Sending == {"setup", "publish", "schedule"}
HandedOverSteps == {"spawn", "sent", "erase", "settle", "gone", "done"}
SameLeg(r) ==
  \/ pc'[r] = pc[r]
  \/ pc[r] \in Sending /\ pc'[r] \in Sending
  \/ pc[r] \in HandedOverSteps /\ pc'[r] \in HandedOverSteps

\* The stage depends on what has been told and settled, and only before that
\* on where the session is.
LEMMA SameStage ==
  ASSUME NEW r \in Sessions, SameLeg(r), told'[r] = told[r],
         promise'[r] = "set" <=> promise[r] = "set",
         told[r] = "none" => ((r \in sessions \/ Held(r))' <=> (r \in sessions \/ Held(r))),
         told[r] = "none" /\ r \notin sessions => (WithWorker(r)' <=> WithWorker(r)),
         NoThread' <=> NoThread, told[r] \in {"none", "early", "ok", "fail", "refused"}
  PROVE  Stage(r)' = Stage(r)
BY DEF Stage, SameLeg, Sending, HandedOverSteps

\* A step that touches no container of HttpSessions' interest, tells nobody and
\* takes no session out of sessions_.
LEMMA QuietStage ==
  ASSUME TypeOK, NEW r \in Sessions, SameLeg(r),
         UNCHANGED <<sessions, toAbort, multi, phase, told>>,
         promise'[r] = "set" <=> promise[r] = "set",
         target' = target, todo'[Worker] = todo[Worker],
         \A q \in Callers : pc'[q] = "settle" <=> pc[q] = "settle",
         NoThread' <=> NoThread
  PROVE  Stage(r)' = Stage(r)
<1>1. Held(r)' <=> Held(r) BY DEF Held
<1>2. WithWorker(r)' <=> WithWorker(r) BY DEF WithWorker
<1>3. QED BY <1>1, <1>2, SameStage DEF TypeOK

\* The owner's own steps between two stages.
LEMMA OwnerKeepsStages ==
  ASSUME CInv, NEW s \in Sessions, NEW r \in Sessions,
         SetupOk(s) \/ Publish(s) \/ MaybeSpawnBackgroundThread(s) \/ FinishOfPromise(s)
  PROVE  Stage(r)' = Stage(r)
<1>1. TypeOK /\ OperationInv /\ ThreadInv BY DEF CInv
<1>2. UNCHANGED <<sessions, toAbort, multi, phase, told, todo, target>>
  BY DEF SetupOk, Publish, MaybeSpawnBackgroundThread, FinishOfPromise
<1>3. CASE SetupOk(s)
  <2>1. SameLeg(r) /\ \A q \in Callers : pc'[q] = "settle" <=> pc[q] = "settle"
    BY <1>1, <1>3 DEF TypeOK, SetupOk, Goto, SameLeg, Sending
  <2>2. promise'[r] = "set" <=> promise[r] = "set"
    BY <1>1, <1>3 DEF TypeOK, OperationInv, OperationOK, SetupOk, Goto
  <2>3. NoThread' <=> NoThread BY <1>1, <1>3 DEF TypeOK, SetupOk, Goto, NoThread
  <2>4. QED BY <1>1, <1>2, <2>1, <2>2, <2>3, QuietStage
<1>4. CASE Publish(s)
  <2>1. SameLeg(r) /\ \A q \in Callers : pc'[q] = "settle" <=> pc[q] = "settle"
    BY <1>1, <1>4 DEF TypeOK, Publish, Goto, SameLeg, Sending
  <2>2. promise'[r] = "set" <=> promise[r] = "set"
    BY <1>1, <1>4 DEF TypeOK, OperationInv, OperationOK, Publish, Goto
  <2>3. NoThread' <=> NoThread BY <1>1, <1>4 DEF TypeOK, Publish, Goto, NoThread
  <2>4. QED BY <1>1, <1>2, <2>1, <2>2, <2>3, QuietStage
<1>5. CASE MaybeSpawnBackgroundThread(s)
  <2>1. pc'[s] = "sent" /\ pc[s] = "spawn" /\ \A q \in Callers \ {s} : pc'[q] = pc[q]
    BY <1>1, <1>5 DEF TypeOK, MaybeSpawnBackgroundThread
  <2>2. SameLeg(r) /\ \A q \in Callers : pc'[q] = "settle" <=> pc[q] = "settle"
    BY <2>1 DEF SameLeg, HandedOverSteps
  <2>3. pc[Destructor] = "idle" BY <1>1, <2>1 DEF ThreadInv, Callers, CurlAssumption
  <2>4. pc'[Worker] # "idle"
    BY <1>1, <1>5, <2>1, <2>3, CurlAssumption DEF TypeOK, ThreadInv, MaybeSpawnBackgroundThread, Callers
  <2>5. ~NoThread /\ ~NoThread' BY <2>1, <2>4 DEF NoThread
  <2>6. QED BY <1>1, <1>2, <1>5, <2>2, <2>5, QuietStage DEF MaybeSpawnBackgroundThread
<1>6. CASE FinishOfPromise(s)
  <2>1. SameLeg(r) /\ \A q \in Callers : pc'[q] = "settle" <=> pc[q] = "settle"
    BY <1>1, <1>6 DEF TypeOK, FinishOfPromise, Goto, SameLeg, HandedOverSteps
  <2>2. NoThread' <=> NoThread BY <1>1, <1>6 DEF TypeOK, FinishOfPromise, Goto, NoThread
  <2>3. QED BY <1>1, <1>2, <1>6, <2>1, <2>2, QuietStage DEF FinishOfPromise
<1>7. QED BY <1>3, <1>4, <1>5, <1>6

\* What a thread does that only looks, waits, or begins a call.
LEMMA LookingKeepsStages ==
  ASSUME CInv, NEW r \in Sessions,
         \/ \E k \in Cancellers : CallCancelAllSessions(k)
         \/ \E p \in Callers \ Sessions, next \in {"done", "join"} : Scan(p, next)
         \/ \E due \in SUBSET toRetry : DoRetrySessions(due)
         \/ Decide \/ DestroyStart \/ TakeThread \/ Join
  PROVE  Stage(r)' = Stage(r)
<1> USE DEF CallCancelAllSessions, Scan, DoRetrySessions, Decide, DestroyStart, TakeThread, Join,
            Goto
<1>1. TypeOK BY DEF CInv
<1>2. pc'[r] = pc[r] /\ \A q \in Sessions : pc'[q] = pc[q]
  BY <1>1, CurlAssumption DEF TypeOK, Callers
<1>3. \A q \in Callers : pc'[q] = "settle" <=> pc[q] = "settle" BY <1>1 DEF TypeOK
<1>4. todo'[Worker] = todo[Worker] BY <1>1 DEF TypeOK
<1>5. UNCHANGED <<sessions, toAbort, multi, phase, told, promise, target>> OBVIOUS
<1>6. pc'[Worker] = "idle" <=> pc[Worker] = "idle" BY <1>1, CurlAssumption DEF TypeOK, Callers
<1>7. NoThread' <=> NoThread BY <1>2, <1>6 DEF NoThread
<1>8. QED BY <1>1, <1>2, <1>3, <1>4, <1>5, <1>7, QuietStage DEF SameLeg

\* A session that is taken out of sessions_ is held until it is settled.
LEMMA EraseKeepsStages ==
  ASSUME CInv, NEW p \in Callers, NEW r \in Sessions, EraseSession(p)
  PROVE  Stage(r)' = Stage(r)
<1>1. TypeOK /\ StepInv BY DEF CInv
<1>2. SameLeg(r)
  BY <1>1 DEF TypeOK, EraseSession, Goto, SameLeg, HandedOverSteps
<1>3. (r \in sessions \/ Held(r))' <=> (r \in sessions \/ Held(r))
  BY <1>1 DEF TypeOK, StepInv, CallerOK, EraseSession, Goto, Held
<1>4. WithWorker(r)' <=> WithWorker(r) BY DEF EraseSession, WithWorker
<1>5. NoThread' <=> NoThread BY <1>1, CurlAssumption DEF TypeOK, EraseSession, Goto, NoThread
<1>6. QED BY <1>1, <1>2, <1>3, <1>4, <1>5, SameStage DEF EraseSession, TypeOK

\* The next round of a cancel.
LEMMA AbortKeepsStages ==
  ASSUME CInv, NEW p \in Callers \ Sessions, NEW r \in Sessions, Abort(p)
  PROVE  Stage(r)' = Stage(r)
<1>1. TypeOK BY DEF CInv
<1>2. /\ pc[p] = "next" /\ pc'[p] \in {"scan", "abort", "erase"}
      /\ \A q \in (Callers \union {Worker}) \ {p} :
           pc'[q] = pc[q] /\ target'[q] = target[q] /\ todo'[q] = todo[q]
  BY <1>1 DEF TypeOK, Abort, Goto
<1>3. UNCHANGED <<sessions, toAbort, multi, phase, told, promise>> BY DEF Abort
<1>4. Held(r)' <=> Held(r) BY <1>2 DEF Held
<1>5. WithWorker(r)' <=> WithWorker(r) BY <1>2, <1>3 DEF WithWorker
<1>6. SameLeg(r) BY <1>2 DEF SameLeg
<1>7. NoThread' <=> NoThread BY <1>2, CurlAssumption DEF NoThread, Callers
<1>8. QED BY <1>1, <1>3, <1>4, <1>5, <1>6, <1>7, SameStage DEF TypeOK

\* The background thread moves: nobody else does, and nobody is told.
LEMMA WorkerMoves ==
  ASSUME TypeOK, NEW r \in Sessions, NEW to, pc' = [pc EXCEPT ![Worker] = to],
         pc[Worker] # "idle", to # "idle",
         UNCHANGED <<told, promise>>, \A q \in Callers : target'[q] = target[q],
         told[r] = "none" => (r \in sessions' <=> r \in sessions),
         told[r] = "none" /\ r \notin sessions => (WithWorker(r)' <=> WithWorker(r))
  PROVE  Stage(r)' = Stage(r)
<1>1. \A q \in Callers : pc'[q] = pc[q] BY DEF TypeOK
<1>2. Held(r)' <=> Held(r) BY <1>1 DEF Held
<1>3. SameLeg(r) BY <1>1 DEF SameLeg
<1>4. ~NoThread /\ ~NoThread' BY DEF NoThread, TypeOK
<1>5. QED BY <1>2, <1>3, <1>4, SameStage DEF TypeOK

\* The lists of the background thread: a session is aborted from the one list or
\* the other, and one that has been through both has been told.
LEMMA ListsKeepStages ==
  ASSUME CInv, NEW r \in Sessions,
         \/ \E ended \in SUBSET live : Perform(ended)
         \/ EndOf("read", "doAbort") \/ DoAbortSessions \/ DoRemoveSessions \/ DoAddSessions
  PROVE  Stage(r)' = Stage(r)
<1>1. TypeOK /\ StepInv /\ HandleInv /\ ReportInv /\ ThreadInv BY DEF CInv
<1>2. CASE \E ended \in SUBSET live : Perform(ended)
  <2>1. WithWorker(r)' <=> WithWorker(r)
    BY <1>1, <1>2 DEF TypeOK, StepInv, Perform, Goto, WithWorker
  <2>2. QED BY <1>1, <1>2, <2>1, WorkerMoves DEF Perform, Goto
<1>3. ASSUME NEW list \in {"read", "aborting", "removing"}, NEW next, next # "idle", EndOf(list, next)
      PROVE  Stage(r)' = Stage(r)
  <2>1. told[r] = "none" => (WithWorker(r)' <=> WithWorker(r))
    BY <1>1, <1>3 DEF TypeOK, StepInv, ReportInv, ReportOK, At, EndOf, Goto, WithWorker
  <2>2. \A q \in Callers : target'[q] = target[q] BY <1>1, <1>3 DEF TypeOK, EndOf
  <2>3. QED BY <1>1, <1>3, <2>1, <2>2, WorkerMoves DEF EndOf, Goto
<1>4. ASSUME NEW list \in {"aborting", "removing"}, FinishOperations(list)
      PROVE  Stage(r)' = Stage(r)
  <2>1. told[r] = "none" => (WithWorker(r)' <=> WithWorker(r))
    BY <1>1, <1>4 DEF TypeOK, StepInv, ReportInv, ReportOK, At, FinishOperations, Goto, WithWorker
  <2>2. \A q \in Callers : target'[q] = target[q] BY <1>1, <1>4 DEF TypeOK, FinishOperations
  <2>3. QED BY <1>1, <1>4, <2>1, <2>2, WorkerMoves DEF FinishOperations, Goto
<1>5. CASE TakeAborts
  <2>1. WithWorker(r)' <=> WithWorker(r)
    BY <1>1, <1>5 DEF TypeOK, StepInv, TakeAborts, Goto, WithWorker
  <2>2. QED BY <1>1, <1>5, <2>1, WorkerMoves DEF TakeAborts, Goto
<1>6. CASE RemoveHandles
  <2>1. told[r] = "none" => r \notin toRemove BY <1>1 DEF ReportInv, ReportOK
  <2>2. told[r] = "none" => (WithWorker(r)' <=> WithWorker(r))
    BY <1>1, <1>6, <2>1 DEF TypeOK, StepInv, RemoveHandles, Goto, WithWorker
  <2>3. QED BY <1>1, <1>6, <2>1, <2>2, WorkerMoves DEF RemoveHandles, Goto
<1>7. CASE TakeIds
  <2>1. WithWorker(r)' <=> WithWorker(r)
    BY <1>1, <1>7 DEF TypeOK, StepInv, ThreadInv, TakeIds, Goto, WithWorker
  <2>2. QED BY <1>1, <1>7, <2>1, WorkerMoves DEF TakeIds, Goto
<1>8. CASE AddHandles
  <2>1. r \notin sessions => (WithWorker(r)' <=> WithWorker(r))
    BY <1>1, <1>8 DEF TypeOK, StepInv, ThreadInv, AddHandles, Goto, WithWorker
  <2>2. QED BY <1>1, <1>8, <2>1, WorkerMoves DEF AddHandles, Goto
<1>9. QED BY <1>2, <1>3, <1>4, <1>5, <1>6, <1>7, <1>8
          DEF DoAbortSessions, DoRemoveSessions, DoAddSessions

-----------------------------------------------------------------------------
(* The steps that move a session on.                                       *)

\* A step of the owner s leaves the stages of the others alone.
LEMMA OwnerAlone ==
  ASSUME TypeOK, NEW s \in Sessions, NEW r \in Sessions \ {s}, NEW from, NEW to,
         Goto(s, from, to), {from, to} \intersect {"settle", "spawn"} = {},
         UNCHANGED <<multi, phase, target, todo, promise>>, told'[r] = told[r],
         sessions \ {s} = sessions' \ {s}, toAbort \ {s} = toAbort' \ {s}
  PROVE  Stage(r)' = Stage(r)
<1>1. pc'[s] = to /\ pc[s] = from /\ \A q \in Callers \ {s} : pc'[q] = pc[q]
  BY DEF TypeOK, Goto
<1>2. Held(r)' <=> Held(r) BY <1>1 DEF Held
<1>3. WithWorker(r)' <=> WithWorker(r) BY DEF WithWorker
<1>4. r \in sessions' <=> r \in sessions OBVIOUS
<1>5. SameLeg(r) BY <1>1 DEF SameLeg
<1>6. NoThread' <=> NoThread BY <1>1, CurlAssumption DEF TypeOK, Goto, NoThread, Callers
<1>7. QED BY <1>2, <1>3, <1>4, <1>5, <1>6, SameStage DEF TypeOK

LEMMA CreateSessionStage ==
  ASSUME CInv, NEW s \in Sessions, CreateSession(s)
  PROVE  /\ Stage(s) = "none" /\ Stage(s)' = "created"
         /\ \A r \in Sessions \ {s} : Stage(r)' = Stage(r)
<1>1. TypeOK /\ OperationInv BY DEF CInv
<1>2. Stage(s) = "none" BY DEF CreateSession, Goto, Stage
<1>3. pc'[s] = "created" /\ s \in sessions' /\ told[s] = "none" /\ promise[s] = "none"
  BY <1>1 DEF CreateSession, Goto, TypeOK, OperationInv, OperationOK
<1>4. Stage(s)' = "created" BY <1>3 DEF CreateSession, Stage
<1>5. ASSUME NEW r \in Sessions \ {s} PROVE Stage(r)' = Stage(r)
  BY <1>1, OwnerAlone DEF CreateSession
<1>6. QED BY <1>2, <1>4, <1>5

\* The background thread never has a session that has no operation.
LEMMA WithoutOperation ==
  ASSUME CInv, NEW s \in Sessions, state[s] = "none", told[s] = "none"
  PROVE  ~WithWorker(s) /\ promise[s] = "none"
<1>1. /\ TypeOK /\ OperationOK(s) /\ ReportOK(s) /\ StepInv /\ ThreadInv
  BY DEF CInv, OperationInv, ReportInv
<1>2. promise[s] = "none" /\ ~TakenAway(s) /\ s \notin multi BY <1>1 DEF OperationOK
<1>3. phase = "aborting" => s # target[Worker] /\ s \notin todo[Worker]
  BY <1>1, <1>2 DEF StepInv, ThreadInv, TakenAway, ReportOK, At
<1>4. QED BY <1>2, <1>3 DEF WithWorker, TakenAway

LEMMA NewOperationStage ==
  ASSUME CInv, NEW s \in Sessions, NewOperation(s)
  PROVE  /\ \/ Stage(s) = "created" /\ Stage(s)' = "sending"
            \/ Stage(s) = "dropped" /\ Stage(s)' = "dropped"
         /\ \A r \in Sessions \ {s} : Stage(r)' = Stage(r)
<1>1. TypeOK /\ OperationOK(s) BY DEF CInv, OperationInv
<1>2. pc[s] = "created" /\ pc'[s] = "setup" /\ \A q \in Callers \ {s} : pc'[q] = pc[q]
  BY <1>1 DEF NewOperation, Goto, TypeOK
<1>3. ~WithWorker(s) /\ told[s] = "none" /\ promise[s] = "none"
  BY <1>1, <1>2, WithoutOperation DEF OperationOK
<1>4. UNCHANGED <<sessions, toAbort, multi, phase, told, promise, target, todo>>
  BY DEF NewOperation
<1>5. (Held(s)' <=> Held(s)) BY <1>2, <1>4 DEF Held
<1>6. ~WithWorker(s)' BY <1>3, <1>4 DEF WithWorker
<1>7. s \in sessions \/ Held(s) => Stage(s) = "created" /\ Stage(s)' = "sending"
  BY <1>2, <1>3, <1>4, <1>5 DEF Stage
<1>8. ~(s \in sessions \/ Held(s)) => Stage(s) = "dropped" /\ Stage(s)' = "dropped"
  BY <1>2, <1>3, <1>4, <1>5, <1>6 DEF Stage
<1>9. ASSUME NEW r \in Sessions \ {s} PROVE Stage(r)' = Stage(r)
  BY <1>1, <1>4, OwnerAlone DEF NewOperation
<1>10. QED BY <1>7, <1>8, <1>9

LEMMA RefuseStage ==
  ASSUME CInv, NEW s \in Sessions, CompressionFails(s) \/ SetupFails(s)
  PROVE  /\ Stage(s) \in {"created", "sending", "aborting", "stray", "dropped"}
         /\ Stage(s)' = "refused"
         /\ \A r \in Sessions \ {s} : Stage(r)' = Stage(r)
<1>1. TypeOK /\ OperationOK(s) BY DEF CInv, OperationInv
<1>2. pc[s] \in {"created", "setup"} /\ pc'[s] = "sent" /\ told'[s] = "refused"
  BY <1>1 DEF CompressionFails, SetupFails, Goto, TypeOK
<1>3. promise[s] = "none" /\ told[s] \in {"none", "early"} BY <1>1, <1>2 DEF OperationOK
<1>4. Stage(s) \in {"created", "sending", "aborting", "stray", "dropped"}
  BY <1>2, <1>3 DEF Stage
<1>5. Stage(s)' = "refused" BY <1>2 DEF Stage
<1>6. ASSUME NEW r \in Sessions \ {s} PROVE Stage(r)' = Stage(r)
  <2>1. told'[r] = told[r] BY <1>1 DEF CompressionFails, SetupFails, TypeOK
  <2>2. QED BY <1>1, <2>1, OwnerAlone DEF CompressionFails, SetupFails
<1>7. QED BY <1>4, <1>5, <1>6

\* There is a thread for what was left, or there will be.
Found(r) == Stage(r)' = IF Stage(r) = "left" THEN "flagged" ELSE Stage(r)

LEMMA HandOverStage ==
  ASSUME CInv, NEW s \in Sessions, ScheduleAddSession(s)
  PROVE  /\ \/ Stage(s) = "sending" /\ Stage(s)' = "sent"
            \/ Stage(s) = "aborting" /\ Stage(s)' \in {"dropped", "flagged"}
            \/ Stage(s) \in {"stray", "done", "dropped"} /\ Stage(s)' = Stage(s)
         /\ \A r \in Sessions \ {s} : Found(r)
<1>1. TypeOK /\ OperationOK(s) BY DEF CInv, OperationInv
<1>2. pc[s] = "schedule" /\ pc'[s] = "spawn" /\ \A q \in Callers \ {s} : pc'[q] = pc[q]
  BY <1>1 DEF ScheduleAddSession, Goto, TypeOK
<1>3. told[s] \in {"none", "early"} BY <1>1, <1>2 DEF OperationOK
<1>4. UNCHANGED <<sessions, multi, phase, told, promise, target, todo>> /\ toAbort' = toAbort \ {s}
  BY DEF ScheduleAddSession
<1>5. Held(s)' <=> Held(s) BY <1>2, <1>4 DEF Held
<1>6. WithWorker(s)' => WithWorker(s) BY <1>4 DEF WithWorker
<1>7. promise[s] = "set" \/ told[s] = "early" =>
        Stage(s) \in {"stray", "done", "dropped"} /\ Stage(s)' = Stage(s)
  BY <1>2, <1>3, <1>4 DEF Stage
<1>8. ~NoThread' BY <1>2 DEF NoThread
<1>9. ASSUME promise[s] # "set", told[s] = "none"
      PROVE  \/ Stage(s) = "sending" /\ Stage(s)' = "sent"
             \/ Stage(s) = "aborting" /\ Stage(s)' \in {"dropped", "flagged"}
             \/ Stage(s) = "dropped" /\ Stage(s)' = "dropped"
  <2>1. s \in sessions \/ Held(s) => Stage(s) = "sending" /\ Stage(s)' = "sent"
    BY <1>2, <1>4, <1>5, <1>9 DEF Stage
  <2>2. ~(s \in sessions \/ Held(s)) /\ WithWorker(s) =>
          Stage(s) = "aborting" /\ Stage(s)' \in {"dropped", "flagged"}
    BY <1>2, <1>4, <1>5, <1>8, <1>9 DEF Stage
  <2>3. ~(s \in sessions \/ Held(s)) /\ ~WithWorker(s) =>
          Stage(s) = "dropped" /\ Stage(s)' = "dropped"
    BY <1>2, <1>4, <1>5, <1>6, <1>9 DEF Stage
  <2>4. QED BY <2>1, <2>2, <2>3
<1>10. ASSUME NEW r \in Sessions \ {s} PROVE Found(r)
  <2>1. pc'[r] = pc[r] BY <1>2 DEF Callers
  <2>2. Held(r)' <=> Held(r) BY <1>2, <1>4 DEF Held
  <2>3. WithWorker(r)' <=> WithWorker(r) BY <1>4 DEF WithWorker
  <2>4. QED BY <1>4, <1>8, <2>1, <2>2, <2>3 DEF Stage, Found
<1>11. QED BY <1>3, <1>7, <1>9, <1>10

\* What a cancel does to the stage of its session: one that is being sent is
\* aborted, one that has been sent is flagged, or left, and another is dropped.
CancelledTo(s) ==
  \/ Stage(s) = "created" /\ Stage(s)' = "dropped"
  \/ Stage(s) = "sending" /\ Stage(s)' = "aborting"
  \/ Stage(s) = "sent" /\ Stage(s)' \in {"flagged", "left"}

LEMMA SettleStage ==
  ASSUME CInv, NEW p \in Callers, NEW t \in Sessions, t = target[p], NEW next \in {"next", "done"},
         SettleSession(p, next), p \in Sessions => next = "done"
  PROVE  /\ CancelledTo(t) \/ Stage(t)' = Stage(t)
         /\ \A r \in Sessions \ {t} : Stage(r)' = Stage(r)
<1>1. TypeOK /\ StepInv /\ OperationInv /\ ReportInv /\ CallerOK(p) BY DEF CInv, StepInv
<1>2. /\ pc[p] \in {"settle", "gone"} /\ pc'[p] = next
      /\ \A q \in Callers \ {p} : pc'[q] = pc[q]
  BY <1>1 DEF SettleSession, TypeOK
<1>3. UNCHANGED <<sessions, multi, phase, told, promise, target, todo>> BY DEF SettleSession
<1>4. pc[t] # "idle" /\ t \notin sessions BY <1>1, <1>2 DEF CallerOK
<1>5. \A r \in Sessions : SameLeg(r)
  BY <1>2 DEF SameLeg, HandedOverSteps
<1>6. ASSUME NEW r \in Sessions, pc[p] = "gone" \/ r # t \/ told[r] # "none"
      PROVE  Stage(r)' = Stage(r)
  <2> NoThread' <=> NoThread
    BY <1>1, <1>2, CurlAssumption DEF NoThread, SettleSession, TypeOK, Callers
  <2>1. CASE told[r] # "none"
    BY <1>1, <1>3, <1>5, <2>1, SameStage DEF TypeOK
  <2>2. CASE pc[p] = "gone" \/ r # t
    <3>1. Held(r)' <=> Held(r) BY <1>2, <1>3, <2>2 DEF Held
    <3>2. r \in toAbort' <=> r \in toAbort BY <2>2 DEF SettleSession
    <3>3. WithWorker(r)' <=> WithWorker(r) BY <1>3, <3>2 DEF WithWorker
    <3>4. QED BY <1>1, <1>3, <1>5, <3>1, <3>3, SameStage DEF TypeOK
  <2>3. QED BY <1>6, <2>1, <2>2
<1>7. ASSUME pc[p] = "settle", told[t] = "none"
      PROVE  CancelledTo(t) \/ Stage(t)' = Stage(t)
  <2>1. Held(t) BY <1>7 DEF Held
  <2>2. \A q \in Callers \ {p} : pc[q] = "settle" => target[q] # t BY <1>1, <1>7 DEF CallerOK
  <2>3. ~Held(t)' BY <1>2, <1>3, <2>2 DEF Held
  <2>4. OperationOK(t) /\ ReportOK(t) BY <1>1, <1>4 DEF OperationInv, ReportInv
  <2>5. promise[t] # "set" BY <1>7, <2>4 DEF ReportOK
  <2>6. CASE state[t] = "none"
    <3>1. ~WithWorker(t) BY <1>4, <1>7, <2>6, WithoutOperation
    <3>2. toAbort' \ {t} = toAbort \ {t} /\ (t \in toAbort' => t \in toAbort)
      BY <1>7, <2>6 DEF SettleSession
    <3>3. ~WithWorker(t)' BY <1>3, <3>1, <3>2 DEF WithWorker
    <3>4. pc[t] = "created"
      BY <1>1, <1>4, <1>7, <2>4, <2>6 DEF OperationOK, StepInv, CallerOK
    <3>5. pc'[t] = "created" BY <1>2, <1>4, <3>4
    <3>6. Stage(t) = "created" /\ Stage(t)' = "dropped"
      BY <1>3, <1>4, <1>7, <2>1, <2>3, <2>5, <3>3, <3>4, <3>5 DEF Stage
    <3>7. QED BY <3>6 DEF CancelledTo
  <2>7. CASE state[t] # "none"
    <3>1. t \in active \ toRemove BY <1>7, <2>4, <2>7 DEF ReportOK
    <3>2. t \in toAbort' BY <1>1, <1>4, <1>7, <2>7, <3>1 DEF SettleSession
    <3>3. WithWorker(t)' BY <3>2 DEF WithWorker
    <3>4. pc[t] # "created" BY <2>4, <2>7 DEF OperationOK
    <3>5. CASE pc[t] \in {"setup", "publish", "schedule"}
      <4>1. pc'[t] = pc[t] BY <1>1, <1>2, <3>5 DEF CallerOK
      <4>2. Stage(t) = "sending" /\ Stage(t)' = "aborting"
        BY <1>3, <1>4, <1>7, <2>1, <2>3, <2>5, <3>3, <3>5, <4>1 DEF Stage
      <4>3. QED BY <4>2 DEF CancelledTo
    <3>6. CASE pc[t] \notin {"setup", "publish", "schedule"}
      <4>1. pc'[t] \notin {"idle", "created", "setup", "publish", "schedule"}
        BY <1>2, <1>4, <3>4, <3>6
      <4>2. Stage(t) = "sent" /\ Stage(t)' \in {"flagged", "left"}
        BY <1>3, <1>4, <1>7, <2>1, <2>3, <2>5, <3>3, <3>4, <3>6, <4>1 DEF Stage
      <4>3. QED BY <4>2 DEF CancelledTo
    <3>7. QED BY <3>5, <3>6
  <2>8. QED BY <2>6, <2>7
<1>8. QED BY <1>2, <1>4, <1>6, <1>7

LEMMA ScheduleAbortStage ==
  ASSUME CInv, NEW p \in Callers, NEW t \in Sessions, t = target[p], ScheduleAbortSession(p)
  PROVE  /\ CancelledTo(t) \/ Stage(t)' = Stage(t)
         /\ \A r \in Sessions \ {t} : Stage(r)' = Stage(r)
<1>1. TypeOK /\ OperationInv /\ ReportInv /\ CallerOK(p) BY DEF CInv, StepInv
<1>2. pc[p] = "abort" /\ pc'[p] = "erase" /\ \A q \in Callers \ {p} : pc'[q] = pc[q]
  BY <1>1 DEF ScheduleAbortSession, Goto, TypeOK
<1>3. /\ UNCHANGED <<multi, phase, told, promise, target, todo>>
      /\ sessions' = sessions \ {t} /\ toAbort' = toAbort \union ({t} \intersect sessions)
  BY DEF ScheduleAbortSession
<1>4. pc[t] # "idle" /\ state[t] # "none" BY <1>1, <1>2 DEF CallerOK
<1>5. \A r \in Sessions : pc'[r] = pc[r]
  BY <1>1, <1>2 DEF CallerOK
<1>6. \A r \in Sessions : Held(r)' <=> Held(r) BY <1>2, <1>3 DEF Held
<1>7. ASSUME NEW r \in Sessions, r # t \/ t \notin sessions \/ told[r] # "none"
      PROVE  Stage(r)' = Stage(r)
  <2>1. SameLeg(r) BY <1>5 DEF SameLeg
  <2> NoThread' <=> NoThread
    BY <1>1, <1>5, CurlAssumption DEF NoThread, ScheduleAbortSession, Goto, TypeOK, Callers
  <2>2. CASE told[r] # "none" BY <1>1, <1>3, <2>1, <2>2, SameStage DEF TypeOK
  <2>3. CASE r # t \/ t \notin sessions
    <3>1. WithWorker(r)' <=> WithWorker(r) BY <1>3, <2>3 DEF WithWorker
    <3>2. r \in sessions' <=> r \in sessions BY <1>3, <2>3
    <3>3. QED BY <1>1, <1>3, <1>6, <2>1, <3>1, <3>2, SameStage DEF TypeOK
  <2>4. QED BY <1>7, <2>2, <2>3
<1>8. ASSUME t \in sessions, told[t] = "none"
      PROVE  CancelledTo(t) \/ Stage(t)' = Stage(t)
  <2>1. OperationOK(t) /\ ReportOK(t) BY <1>1, <1>4 DEF OperationInv, ReportInv
  <2>2. promise[t] # "set" /\ pc[t] # "created" BY <1>4, <1>8, <2>1 DEF ReportOK, OperationOK
  <2>3. t \notin sessions' /\ WithWorker(t)' BY <1>3, <1>8 DEF WithWorker
  <2>4. pc'[t] = pc[t] BY <1>4, <1>5
  <2>5. CASE pc[t] \in {"setup", "publish", "schedule"}
    <3>1. Stage(t) = "sending" BY <1>8, <2>2, <2>5 DEF Stage
    <3>2. Stage(t)' = "sending" \/ Stage(t)' = "aborting" BY <1>3, <1>8, <2>2, <2>3, <2>4, <2>5 DEF Stage
    <3>3. QED BY <3>1, <3>2 DEF CancelledTo
  <2>6. CASE pc[t] \notin {"setup", "publish", "schedule"}
    <3>1. Stage(t) = "sent" BY <1>4, <1>8, <2>2, <2>6 DEF Stage
    <3>2. Stage(t)' \in {"sent", "flagged", "left"}
      BY <1>3, <1>4, <1>8, <2>2, <2>3, <2>4, <2>6 DEF Stage
    <3>3. QED BY <3>1, <3>2 DEF CancelledTo
  <2>7. QED BY <2>5, <2>6
<1>9. QED BY <1>4, <1>7, <1>8

\* A step of the background thread that tells the handler of s nothing.
LEMMA WorkerStays ==
  ASSUME TypeOK, NEW s \in Sessions,
         \A q \in Callers : pc'[q] = pc[q] /\ target'[q] = target[q],
         UNCHANGED <<sessions, toAbort, multi, phase>>,
         told'[s] = told[s], promise'[s] = promise[s],
         phase = "aborting" => UNCHANGED <<todo, target>>,
         pc[Worker] # "idle", pc'[Worker] # "idle"
  PROVE  Stage(s)' = Stage(s)
<1>1. Held(s)' <=> Held(s) BY DEF Held
<1>2. WithWorker(s)' <=> WithWorker(s) BY DEF WithWorker
<1>3. SameLeg(s) BY DEF SameLeg
<1>4. ~NoThread /\ ~NoThread' BY DEF NoThread
<1>5. QED BY <1>1, <1>2, <1>3, <1>4, SameStage DEF TypeOK

\* A session whose operation is at hand, or whose message is being read, and
\* whose handler has not been told: it has been handed over, and perhaps
\* cancelled since, or it was aborted.
LEMMA AtHandStage ==
  ASSUME CInv, NEW s \in Sessions, Reading(s) \/ At(s, {"clean", "unbind"}), told[s] = "none"
  PROVE  Stage(s) \in IF pc[s] \in BeforeHandOver THEN {"aborting"} ELSE {"sent", "flagged"}
<1>1. /\ TypeOK /\ StepInv /\ OperationOK(s) /\ HandleOK(s) /\ RegisteredOK(s) /\ ReportOK(s)
  BY DEF CInv, OperationInv, HandleInv, RegisteredInv, ReportInv
<1>2. promise[s] # "set" BY <1>1 DEF ReportOK
<1>3. state[s] # "none" BY <1>1 DEF OperationOK, At
<1>4. pc[s] \notin {"idle", "created"} BY <1>1, <1>3 DEF OperationOK
<1> ~NoThread BY DEF Reading, At, Cleaning, NoThread
<1>5. CASE Reading(s)
  <2>1. s \in multi /\ pc[s] \notin BeforeHandOver
    BY <1>1, <1>4, <1>5 DEF OperationOK, HandleOK
  <2>2. WithWorker(s) BY <2>1 DEF WithWorker
  <2>3. QED BY <1>2, <1>4, <2>1, <2>2 DEF Stage
<1>6. CASE ~Reading(s)
  <2>1. At(s, {"clean", "unbind"}) BY <1>6
  <2>2. phase = "aborting" BY <1>1, <1>6, <2>1 DEF StepInv, Reading, At, ReportOK
  <2>3. WithWorker(s) /\ TakenAway(s) BY <2>1, <2>2 DEF WithWorker, TakenAway, At
  <2>4. s \notin sessions /\ ~Held(s) BY <1>1, <2>3 DEF RegisteredOK, Held, StepInv, CallerOK
  <2>5. QED BY <1>2, <1>4, <2>3, <2>4 DEF Stage
<1>7. QED BY <1>5, <1>6

\* The handler is told for the first time.
LEMMA TellStage ==
  ASSUME CInv, NEW s \in Sessions, NEW what \in {"ok", "fail"}, Tell(s, what), told[s] = "none",
         Reading(s) \/ At(s, {"clean", "unbind"}), pc'[s] = pc[s], UNCHANGED promise
  PROVE  \/ Stage(s) \in {"sent", "flagged"} /\ Stage(s)' = "reported"
         \/ Stage(s) = "aborting" /\ Stage(s)' = "stray"
<1>1. TypeOK /\ OperationOK(s) /\ ReportOK(s) BY DEF CInv, OperationInv, ReportInv
<1>2. promise[s] # "set" BY <1>1 DEF ReportOK
<1>3. pc[s] # "idle" BY <1>1 DEF OperationOK, At
<1>4. told'[s] = IF pc[s] \in BeforeHandOver THEN "early" ELSE what BY <1>1 DEF Tell, TypeOK
<1>5. Stage(s) \in IF pc[s] \in BeforeHandOver THEN {"aborting"} ELSE {"sent", "flagged"}
  BY AtHandStage
<1>6. Stage(s)' = IF pc[s] \in BeforeHandOver THEN "stray" ELSE "reported"
  BY <1>2, <1>3, <1>4 DEF Stage
<1>7. QED BY <1>5, <1>6

\* What the background thread does with the session at hand, as HttpSessions
\* sees it.
Reported(s) ==
  \/ Stage(s) \in {"sent", "flagged"} /\ Stage(s)' = "reported"
  \/ Stage(s) = "aborting" /\ Stage(s)' = "stray"
  \/ Stage(s)' = Stage(s)

LEMMA CleanupStage ==
  ASSUME CInv, NEW s \in Sessions, s = target[Worker], Cleanup
  PROVE  Reported(s) /\ \A r \in Sessions \ {s} : Stage(r)' = Stage(r)
<1>1. TypeOK /\ StepInv BY DEF CInv
<1>2. (\A q \in Callers : pc'[q] = pc[q]) /\ pc[Worker] # "idle" /\ pc'[Worker] # "idle"
  BY <1>1 DEF Cleanup, TypeOK, StepInv, Cleaning
<1>3. UNCHANGED <<containers, multi, phase, promise, todo, target>> BY DEF Cleanup
<1>4. \/ UNCHANGED told
      \/ Tell(s, "fail")
  BY DEF Cleanup
<1>5. ASSUME NEW r \in Sessions \ {s} PROVE Stage(r)' = Stage(r)
  <2>1. told'[r] = told[r] BY <1>1, <1>4 DEF Tell, TypeOK
  <2>2. QED BY <1>1, <1>2, <1>3, <2>1, WorkerStays
<1>6. Reported(s)
  <2>1. CASE told'[s] = told[s] BY <1>1, <1>2, <1>3, <2>1, WorkerStays DEF Reported
  <2>2. CASE told'[s] # told[s]
    <3>1. Tell(s, "fail") /\ told[s] = "none" BY <1>1, <1>4, <2>2 DEF Tell, TypeOK
    <3>2. At(s, {"clean", "unbind"}) BY DEF Cleanup, At
    <3>3. QED BY <1>2, <1>3, <3>1, <3>2, TellStage DEF Reported
  <2>3. QED BY <2>1, <2>2
<1>7. QED BY <1>5, <1>6

LEMMA UnbindStage ==
  ASSUME CInv, NEW s \in Sessions, s = target[Worker], Unbind
  PROVE  Reported(s) /\ \A r \in Sessions \ {s} : Stage(r)' = Stage(r)
<1>1. TypeOK /\ StepInv BY DEF CInv
<1>2. (\A q \in Callers : pc'[q] = pc[q]) /\ pc[Worker] # "idle" /\ pc'[Worker] # "idle"
  BY <1>1 DEF Unbind, TypeOK, StepInv, Cleaning
<1>3. UNCHANGED <<sessions, toAbort, multi, phase, promise, todo, target>> BY DEF Unbind
<1>4. \/ UNCHANGED told
      \/ Tell(s, "ok")
  BY DEF Unbind
<1>5. ASSUME NEW r \in Sessions \ {s} PROVE Stage(r)' = Stage(r)
  <2>1. told'[r] = told[r] BY <1>1, <1>4 DEF Tell, TypeOK
  <2>2. QED BY <1>1, <1>2, <1>3, <2>1, WorkerStays
<1>6. Reported(s)
  <2>1. CASE told'[s] = told[s] BY <1>1, <1>2, <1>3, <2>1, WorkerStays DEF Reported
  <2>2. CASE told'[s] # told[s]
    <3>1. Tell(s, "ok") /\ told[s] = "none" BY <1>1, <1>4, <2>2 DEF Tell, TypeOK
    <3>2. At(s, {"clean", "unbind"}) BY DEF Unbind, At
    <3>3. QED BY <1>2, <1>3, <3>1, <3>2, TellStage DEF Reported
  <2>3. QED BY <2>1, <2>2
<1>7. QED BY <1>5, <1>6

LEMMA MessageStage ==
  ASSUME CInv, NEW s \in Sessions, PerformCurlMessage(s)
  PROVE  Reported(s) /\ \A r \in Sessions \ {s} : Stage(r)' = Stage(r)
<1>1. TypeOK /\ StepInv BY DEF CInv
<1>2. /\ \A q \in Callers : pc'[q] = pc[q] /\ target'[q] = target[q]
      /\ pc[Worker] # "idle" /\ pc'[Worker] # "idle"
  BY <1>1 DEF PerformCurlMessage, Goto, TypeOK
<1>3. UNCHANGED <<sessions, toAbort, multi, phase, promise>> BY DEF PerformCurlMessage
<1>4. UNCHANGED told \/ Tell(s, "fail") BY DEF PerformCurlMessage
<1>5. pc[Worker] = "read" /\ phase = "read" /\ Reading(s)
  BY <1>1 DEF PerformCurlMessage, Goto, StepInv, Reading
<1>6. ASSUME NEW r \in Sessions \ {s} PROVE Stage(r)' = Stage(r)
  <2>1. told'[r] = told[r] BY <1>1, <1>4 DEF Tell, TypeOK
  <2>2. QED BY <1>1, <1>2, <1>3, <1>5, <2>1, WorkerStays
<1>7. Reported(s)
  <2>1. CASE told'[s] = told[s] BY <1>1, <1>2, <1>3, <1>5, <2>1, WorkerStays DEF Reported
  <2>2. CASE told'[s] # told[s]
    <3>1. Tell(s, "fail") /\ told[s] = "none" BY <1>1, <1>4, <2>2 DEF Tell, TypeOK
    <3>2. QED BY <1>2, <1>3, <1>5, <3>1, TellStage DEF Reported
  <2>3. QED BY <2>1, <2>2
<1>8. QED BY <1>6, <1>7

\* The promise is set after the handler has been told, and once.
LEMMA SetPromiseStage ==
  ASSUME CInv, NEW s \in Sessions, s = target[Worker], SetPromise
  PROVE  /\ \/ Stage(s) \in {"reported", "stray"} /\ Stage(s)' = "done"
            \/ Stage(s)' = Stage(s)
         /\ \A r \in Sessions \ {s} : Stage(r)' = Stage(r)
<1>1. TypeOK /\ StepInv /\ OperationOK(s) /\ ReportOK(s) BY DEF CInv, OperationInv, ReportInv
<1>2. (\A q \in Callers : pc'[q] = pc[q]) /\ pc[Worker] # "idle" /\ pc'[Worker] # "idle"
  BY <1>1 DEF SetPromise, Goto, TypeOK, StepInv, Cleaning
<1>3. UNCHANGED <<sessions, toAbort, multi, phase, told, todo, target>> BY DEF SetPromise
<1>4. promise' = [promise EXCEPT ![s] = IF @ = "running" THEN "set" ELSE @] BY DEF SetPromise
<1>5. ASSUME NEW r \in Sessions \ {s} PROVE Stage(r)' = Stage(r)
  <2>1. promise'[r] = promise[r] BY <1>1, <1>4 DEF TypeOK
  <2>2. QED BY <1>1, <1>2, <1>3, <2>1, WorkerStays
<1>6. CASE promise[s] = "running"
  <2>1. promise'[s] = "set" BY <1>1, <1>4, <1>6 DEF TypeOK
  <2>2. told[s] # "none" BY <1>1 DEF SetPromise, Goto, At, ReportOK
  <2>3. state[s] # "none" /\ pc[s] \notin {"idle", "created"} BY <1>1, <1>6 DEF OperationOK
  <2>4. pc[s] \in OwnerSteps BY <1>1 DEF StepInv, CallerOK
  <2>5. told[s] # "refused" BY <1>1, <1>6, <2>3, <2>4 DEF OperationOK
  <2>6. told[s] \in {"early", "ok", "fail"} BY <1>1, <2>2, <2>5 DEF TypeOK
  <2>7. Stage(s) \in {"reported", "stray"} BY <1>6, <2>3, <2>6 DEF Stage
  <2>8. Stage(s)' = "done" BY <1>2, <1>3, <2>1, <2>3, <2>6 DEF Stage
  <2>9. QED BY <1>5, <2>7, <2>8
<1>7. CASE promise[s] # "running"
  <2>1. promise'[s] = promise[s] BY <1>1, <1>4, <1>7 DEF TypeOK
  <2>2. Stage(s)' = Stage(s) BY <1>1, <1>2, <1>3, <2>1, WorkerStays
  <2>3. QED BY <1>5, <2>2
<1>8. QED BY <1>6, <1>7

-----------------------------------------------------------------------------
(* The refinement.                                                         *)

Mapped == [s \in Sessions |-> Stage(s)]

LEMMA OneMoves ==
  ASSUME NEW s \in Sessions, \A r \in Sessions \ {s} : Stage(r)' = Stage(r)
  PROVE  Mapped' = [Mapped EXCEPT ![s] = Stage(s)']
BY DEF Mapped

LEMMA NoneMoves ==
  ASSUME \A r \in Sessions : Stage(r)' = Stage(r)
  PROVE  Mapped' = Mapped
BY DEF Mapped

\* The step of HttpSessions that a step of one session is.
LEMMA Moves ==
  ASSUME NEW s \in Sessions, \A r \in Sessions \ {s} : Stage(r)' = Stage(r),
         \/ Stage(s)' = Stage(s)
         \/ Stage(s) = "none" /\ Stage(s)' = "created"
         \/ Stage(s) = "created" /\ Stage(s)' = "sending"
         \/ Stage(s) = "created" /\ Stage(s)' = "dropped"
         \/ Stage(s) = "sending" /\ Stage(s)' = "aborting"
         \/ Stage(s) = "sent" /\ Stage(s)' \in {"flagged", "left"}
         \/ /\ Stage(s) \in {"created", "sending", "aborting", "stray", "dropped"}
            /\ Stage(s)' = "refused"
         \/ Stage(s) = "aborting" /\ Stage(s)' = "stray"
         \/ Stage(s) \in {"sent", "flagged"} /\ Stage(s)' = "reported"
         \/ Stage(s) \in {"reported", "stray"} /\ Stage(s)' = "done"
  PROVE  [Owned!Next]_Mapped
<1>1. Mapped' = [Mapped EXCEPT ![s] = Stage(s)'] /\ Mapped[s] = Stage(s)
  BY OneMoves DEF Mapped
<1>2. CASE Stage(s)' = Stage(s) BY <1>2, NoneMoves
<1>3. CASE Stage(s) = "none" /\ Stage(s)' = "created"
  <2>1. Owned!CreateSession(s) BY <1>1, <1>3 DEF Owned!CreateSession, Owned!Move, Mapped
  <2>2. QED BY <2>1 DEF Owned!Next
<1>4. CASE Stage(s) = "created" /\ Stage(s)' = "sending"
  <2>1. Owned!StartSend(s) BY <1>1, <1>4 DEF Owned!StartSend, Mapped
  <2>2. QED BY <2>1 DEF Owned!Next
<1>5. CASE \/ Stage(s) = "created" /\ Stage(s)' = "dropped"
           \/ Stage(s) = "sending" /\ Stage(s)' = "aborting"
           \/ Stage(s) = "sent" /\ Stage(s)' \in {"flagged", "left"}
  <2> DEFINE known == IF Stage(s)' = "left" THEN {} ELSE {s}
  <2>1. Mapped' = [r \in Sessions |->
               CASE r \in {s} /\ Mapped[r] = "created" -> "dropped"
                 [] r \in {s} /\ Mapped[r] = "sending" ->
                      IF r \in known THEN "aborting" ELSE "dropped"
                 [] r \in {s} /\ Mapped[r] = "sent" ->
                      IF r \in known THEN "flagged" ELSE "left"
                 [] OTHER -> Mapped[r]]
    BY <1>1, <1>5 DEF Mapped
  <2>2. known \in SUBSET {s} OBVIOUS
  <2>3. Owned!Cancel({s})
    <3> HIDE DEF known
    <3>1. QED BY <2>1, <2>2 DEF Owned!Cancel, Mapped
  <2>4. QED BY <2>3 DEF Owned!Next
<1>6. CASE /\ Stage(s) \in {"created", "sending", "aborting", "stray", "dropped"}
           /\ Stage(s)' = "refused"
  <2>1. Owned!Refuse(s) BY <1>1, <1>6 DEF Owned!Refuse, Owned!Move, Mapped
  <2>2. QED BY <2>1 DEF Owned!Next
<1>7. CASE \/ Stage(s) = "aborting" /\ Stage(s)' = "stray"
           \/ Stage(s) \in {"sent", "flagged"} /\ Stage(s)' = "reported"
  <2>1. Owned!Report(s) BY <1>1, <1>7 DEF Owned!Report, Mapped
  <2>2. QED BY <2>1 DEF Owned!Next
<1>8. CASE Stage(s) \in {"reported", "stray"} /\ Stage(s)' = "done"
  <2>1. Owned!Complete(s) BY <1>1, <1>8 DEF Owned!Complete, Owned!Move, Mapped
  <2>2. QED BY <2>1 DEF Owned!Next
<1>9. QED BY <1>2, <1>3, <1>4, <1>5, <1>6, <1>7, <1>8

\* The hand-over moves one session on, and finds those that were left.
LEMMA HandOverMoves ==
  ASSUME NEW s \in Sessions, \A r \in Sessions \ {s} : Found(r),
         \/ Stage(s) = "sending" /\ Stage(s)' = "sent"
         \/ Stage(s) = "aborting" /\ Stage(s)' \in {"dropped", "flagged"}
         \/ Stage(s) \in {"stray", "done", "dropped"} /\ Stage(s)' = Stage(s)
  PROVE  [Owned!Next]_Mapped
<1> DEFINE abort == IF Stage(s)' = "flagged" THEN "flagged" ELSE "dropped"
<1>1. \A r \in Sessions : Stage(r)' = CASE r = s /\ Stage(r) = "sending" -> "sent"
                                        [] r = s /\ Stage(r) = "aborting" -> abort
                                        [] Stage(r) = "left" -> "flagged"
                                        [] OTHER -> Stage(r)
  <2>1. ASSUME NEW r \in Sessions, r # s
        PROVE  Stage(r)' = IF Stage(r) = "left" THEN "flagged" ELSE Stage(r)
    BY <2>1 DEF Found
  <2>2. Stage(s)' = CASE Stage(s) = "sending" -> "sent"
                      [] Stage(s) = "aborting" -> abort
                      [] Stage(s) = "left" -> "flagged"
                      [] OTHER -> Stage(s)
    OBVIOUS
  <2> HIDE DEF abort
  <2>3. QED BY <2>1, <2>2
<1>2. Mapped' = [r \in Sessions |-> CASE r = s /\ Mapped[r] = "sending" -> "sent"
                                      [] r = s /\ Mapped[r] = "aborting" -> abort
                                      [] Mapped[r] = "left" -> "flagged"
                                      [] OTHER -> Mapped[r]]
  <2> HIDE DEF abort
  <2>1. QED BY <1>1 DEF Mapped
<1>3. abort \in {"dropped", "flagged"} OBVIOUS
<1>4. Mapped[s] \in {"sending", "aborting", "stray", "done", "dropped"} BY DEF Mapped
<1>5. Owned!HandOver(s)
  <2> HIDE DEF abort
  <2>1. QED BY <1>2, <1>3, <1>4 DEF Owned!HandOver, Mapped
<1>6. QED BY <1>5 DEF Owned!Next

\* The last look ends: the thread goes on, or leaves what has been flagged, unless
\* somebody is about to spawn another.
LEMMA LeaveRefines ==
  ASSUME CInv, DecideLocked
  PROVE  [Owned!Next]_Mapped
<1>1. TypeOK BY DEF CInv
<1>2. /\ UNCHANGED <<sessions, toAbort, multi, phase, told, promise, target, todo>>
      /\ pc[Worker] = "decide" /\ \A q \in Callers : pc'[q] = pc[q]
  BY <1>1, CurlAssumption DEF DecideLocked, Goto, TypeOK
<1>3. ~NoThread BY <1>2 DEF NoThread
<1>4. ASSUME NEW r \in Sessions
      PROVE  /\ pc'[r] = pc[r] /\ (Held(r)' <=> Held(r)) /\ (WithWorker(r)' <=> WithWorker(r))
             /\ Stage(r) # "left"
  BY <1>2, <1>3 DEF Held, WithWorker, Stage, Callers
<1>5. CASE NoThread'
  <2>1. ASSUME NEW r \in Sessions
        PROVE  Stage(r)' = IF Stage(r) = "flagged" THEN "left" ELSE Stage(r)
    BY <1>2, <1>3, <1>4, <1>5 DEF Stage
  <2>2. Mapped' = [r \in Sessions |-> IF Mapped[r] = "flagged" THEN "left" ELSE Mapped[r]]
    BY <2>1 DEF Mapped
  <2>3. Owned!ThreadLeaves BY <2>2 DEF Owned!ThreadLeaves, Mapped
  <2>4. QED BY <2>3 DEF Owned!Next
<1>6. CASE ~NoThread'
  <2>1. ASSUME NEW r \in Sessions PROVE Stage(r)' = Stage(r)
    BY <1>2, <1>3, <1>4, <1>6 DEF Stage
  <2>2. QED BY <2>1, NoneMoves
<1>7. QED BY <1>5, <1>6

LEMMA OwnerRefines ==
  ASSUME CInv, NEW s \in Sessions,
         CreateSession(s) \/ NewOperation(s) \/ CompressionFails(s) \/ SendRequest(s)
  PROVE  [Owned!Next]_Mapped
<1>1. CASE CreateSession(s) BY <1>1, CreateSessionStage, Moves
<1>2. CASE NewOperation(s)
  <2>1. \/ Stage(s) = "created" /\ Stage(s)' = "sending"
        \/ Stage(s)' = Stage(s)
    BY <1>2, NewOperationStage
  <2>2. QED BY <1>2, <2>1, NewOperationStage, Moves
<1>3. CASE CompressionFails(s) \/ SetupFails(s) BY <1>3, RefuseStage, Moves
<1>4. CASE ScheduleAddSession(s) BY <1>4, HandOverStage, HandOverMoves
<1>5. CASE SetupOk(s) \/ Publish(s) \/ MaybeSpawnBackgroundThread(s)
  BY <1>5, OwnerKeepsStages, NoneMoves
<1>6. QED BY <1>1, <1>2, <1>3, <1>4, <1>5 DEF SendRequest

\* CancelSession and FinishSession.
LEMMA CancelRefines ==
  ASSUME CInv, NEW p \in Callers, NEW next \in {"next", "done"}, p \in Sessions => next = "done",
         ScheduleAbortSession(p) \/ EraseSession(p) \/ SettleSession(p, next)
  PROVE  [Owned!Next]_Mapped
<1>1. CASE EraseSession(p) BY <1>1, EraseKeepsStages, NoneMoves
<1>2. CASE ScheduleAbortSession(p) \/ SettleSession(p, next)
  <2>1. target[p] \in Sessions
    BY <1>2 DEF CInv, StepInv, CallerOK, ScheduleAbortSession, SettleSession, Goto
  <2>2. PICK t \in Sessions : t = target[p] BY <2>1
  <2>3. CancelledTo(t) \/ Stage(t)' = Stage(t)
    BY <1>2, <2>2, ScheduleAbortStage, SettleStage
  <2>4. \A r \in Sessions \ {t} : Stage(r)' = Stage(r)
    BY <1>2, <2>2, ScheduleAbortStage, SettleStage
  <2>5. QED BY <2>3, <2>4, Moves DEF CancelledTo
<1>3. QED BY <1>1, <1>2

LEMMA CancelAllRefines ==
  ASSUME CInv, NEW p \in Callers \ Sessions, NEW next \in {"done", "join"},
         CancelAllSessions(p, next)
  PROVE  [Owned!Next]_Mapped
<1>1. CASE Scan(p, next) BY <1>1, LookingKeepsStages, NoneMoves
<1>2. CASE Abort(p) BY <1>2, AbortKeepsStages, NoneMoves
<1>3. CASE ScheduleAbortSession(p) \/ EraseSession(p) \/ SettleSession(p, "next")
  BY <1>3, CancelRefines
<1>4. QED BY <1>1, <1>2, <1>3 DEF CancelAllSessions

LEMMA WorkerRefines ==
  ASSUME CInv, BackgroundThread
  PROVE  [Owned!Next]_Mapped
<1>1. CASE FinishOperation
  <2>1. target[Worker] \in Sessions
    BY <1>1 DEF CInv, StepInv, FinishOperation, Cleanup, Unbind, SetPromise, Goto
  <2>2. PICK s \in Sessions : s = target[Worker] BY <2>1
  <2>3. CASE Cleanup BY <2>2, <2>3, CleanupStage, Moves DEF Reported
  <2>4. CASE Unbind BY <2>2, <2>4, UnbindStage, Moves DEF Reported
  <2>5. CASE SetPromise BY <2>2, <2>5, SetPromiseStage, Moves
  <2>6. QED BY <1>1, <2>3, <2>4, <2>5 DEF FinishOperation
<1>2. CASE \E s \in Sessions : PerformCurlMessage(s)
  <2>1. PICK s \in Sessions : PerformCurlMessage(s) BY <1>2
  <2>2. QED BY <2>1, MessageStage, Moves DEF Reported
<1>3. CASE \/ \E ended \in SUBSET live : Perform(ended)
           \/ EndOf("read", "doAbort") \/ DoAbortSessions \/ DoRemoveSessions \/ DoAddSessions
  BY <1>3, ListsKeepStages, NoneMoves
<1>4. CASE (\E due \in SUBSET toRetry : DoRetrySessions(due)) \/ Decide
  BY <1>4, LookingKeepsStages, NoneMoves
<1>5. CASE DecideLocked BY <1>5, LeaveRefines
<1>6. QED BY <1>1, <1>2, <1>3, <1>4, <1>5 DEF BackgroundThread

LEMMA StepRefines ==
  ASSUME CInv, [Next]_vars
  PROVE  [Owned!Next]_Mapped
<1>1. ASSUME NEW s \in Sessions,
             CreateSession(s) \/ NewOperation(s) \/ CompressionFails(s) \/ SendRequest(s)
      PROVE  [Owned!Next]_Mapped
  BY <1>1, OwnerRefines
<1>2. ASSUME NEW s \in Sessions, FinishSession(s) PROVE [Owned!Next]_Mapped
  <2>1. CASE FinishOfPromise(s) BY <2>1, OwnerKeepsStages, NoneMoves
  <2>2. CASE EraseSession(s) \/ SettleSession(s, "done") BY <2>2, CancelRefines
  <2>3. QED BY <1>2, <2>1, <2>2 DEF FinishSession
<1>3. ASSUME NEW k \in Cancellers, CallCancelAllSessions(k) PROVE [Owned!Next]_Mapped
  BY <1>3, LookingKeepsStages, NoneMoves
<1>4. ASSUME NEW k \in Cancellers, CancelAllSessions(k, "done") PROVE [Owned!Next]_Mapped
  BY <1>4, CancelAllRefines
<1>5. CASE BackgroundThread BY <1>5, WorkerRefines
<1>6. CASE DestroyStart \/ TakeThread \/ Join BY <1>6, LookingKeepsStages, NoneMoves
<1>7. CASE CancelAllSessions(Destructor, IF taken THEN "join" ELSE "done")
  BY <1>7, CancelAllRefines
<1>8. CASE UNCHANGED vars
  <2>1. ASSUME NEW r \in Sessions PROVE Stage(r)' = Stage(r)
    BY <1>8 DEF vars, Stage, Held, WithWorker, NoThread
  <2>2. QED BY <2>1, NoneMoves
<1>9. QED BY <1>1, <1>2, <1>3, <1>4, <1>5, <1>6, <1>7, <1>8 DEF Next, Destroy

\* The client implements HttpSessions, on which OtlpHttpClient is built: whatever
\* the sections of SendRequest, of the cancels, of the background thread and of
\* the destructor come between, a handler is told, at least once, before the
\* promise of its session is set, no session that was handed over is dropped, none
\* that was not cancelled is left without a thread, and none that was dropped
\* comes back.
THEOREM ClientImplementsSessions == Spec => ImplementsSessions
<1>1. Init => Owned!NoSessions BY DEF Init, Owned!NoSessions, Stage
<1>2. CInv /\ [Next]_vars => [Owned!Next]_Mapped BY StepRefines
<1>3. QED BY <1>1, <1>2, Consistent, PTL DEF Spec, ImplementsSessions, Owned!Spec, Mapped
=============================================================================
