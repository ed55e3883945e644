---------------------------- MODULE HttpSessions ----------------------------
(***************************************************************************)
(* What an HTTP client of ext/http/client promises the owner of a session: *)
(* the stages of a session, and who may move it on.  OtlpHttpClient is     *)
(* built on these stages, and HttpClientCurl is shown to implement them.   *)
(*                                                                         *)
(*   created   CreateSession has registered it                             *)
(*   sending   SendRequest is running                                      *)
(*   sent      handed to the background thread, which will report          *)
(*   flagged   ... and cancelled, which the thread will report             *)
(*   left      cancelled like that, but overlooked by a thread that left:  *)
(*             it waits for the thread that another request brings         *)
(*   reported  the handler has been told how the request ended             *)
(*   done      FinishSession returns: the client has let go of the handler *)
(*   refused   SendRequest itself told the handler, there is no request    *)
(*   aborting  cancelled inside SendRequest, and not yet handed over       *)
(*   stray     ... and the background thread has told the handler already  *)
(*   dropped   cancelled before it was handed over, and nothing is left    *)
(*             that would report: the client has forgotten the session     *)
(***************************************************************************)
CONSTANT Sessions

VARIABLE http    \* the stage each session has reached

Stages == {"none", "created", "sending", "sent", "flagged", "left", "reported", "done",
           "refused", "aborting", "stray", "dropped"}

Move(s, from, to) == http[s] \in from /\ http' = [http EXCEPT ![s] = to]

NoSessions == http = [s \in Sessions |-> "none"]

CreateSession(s) == Move(s, {"none"}, "created")

\* A session that has been dropped does not come back by being sent.
StartSend(s) ==
  /\ http[s] \in {"created", "dropped"}
  /\ http' = [http EXCEPT ![s] = IF @ = "created" THEN "sending" ELSE @]

\* The hand-over.  An abort that was waiting for the session is forgotten,
\* unless the background thread has begun with it.  The thread, a new one if
\* there was none, finds what was left before.
HandOver(s) ==
  /\ http[s] \in {"sending", "aborting", "stray", "done", "dropped"}
  /\ \E abort \in {"dropped", "flagged"} :
       http' = [r \in Sessions |-> CASE r = s /\ http[r] = "sending" -> "sent"
                                     [] r = s /\ http[r] = "aborting" -> abort
                                     [] http[r] = "left" -> "flagged"
                                     [] OTHER -> http[r]]

\* The request cannot be set up.
Refuse(s) == Move(s, {"created", "sending", "aborting", "stray", "dropped"}, "refused")

\* CancelSession on a set of sessions; `known' are those that are put where
\* the background thread will look for them.  A request that is under way is only
\* flagged, and the thread is still to report; but it may be about to leave.
Cancel(set) ==
  \E known \in SUBSET set :
    http' = [s \in Sessions |->
               CASE s \in set /\ http[s] = "created" -> "dropped"
                 [] s \in set /\ http[s] = "sending" ->
                      IF s \in known THEN "aborting" ELSE "dropped"
                 [] s \in set /\ http[s] = "sent" ->
                      IF s \in known THEN "flagged" ELSE "left"
                 [] OTHER -> http[s]]

\* The background thread leaves, with what has been flagged since it looked.
ThreadLeaves == http' = [s \in Sessions |-> IF http[s] = "flagged" THEN "left" ELSE http[s]]

\* The background thread reports, once or more often, and then lets go of the
\* handler.
Report(s) ==
  /\ http[s] \in {"sent", "flagged", "aborting"}
  /\ http' = [http EXCEPT ![s] = IF @ = "aborting" THEN "stray" ELSE "reported"]

Complete(s) == Move(s, {"reported", "stray"}, "done")

Next ==
  \/ (\E set \in SUBSET Sessions : Cancel(set)) \/ ThreadLeaves
  \/ \E s \in Sessions : CreateSession(s) \/ StartSend(s) \/ HandOver(s) \/ Refuse(s)
                         \/ Report(s) \/ Complete(s)

\* What the background thread has is reported, and let go of: curl ends every
\* transfer with a message, at the request's timeout at the latest.  Nothing is
\* promised of what was left.
Fairness ==
  \A s \in Sessions : /\ WF_http(http[s] \in {"sent", "flagged"} /\ Report(s))
                      /\ WF_http(http[s] = "reported" /\ Complete(s))

Spec == NoSessions /\ [][Next]_http

FairSpec == Spec /\ Fairness
=============================================================================
