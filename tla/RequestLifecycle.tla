--------------------------- MODULE RequestLifecycle ---------------------------
(***************************************************************************)
(* RequestIdMiddleware around one HTTP request: the inner application      *)
(* sends messages, returns, raises or is cancelled, the client may go away *)
(* at any send, and whatever happens the middleware hands the server at    *)
(* most one response start, answers for an application that did not, and   *)
(* tells the log how the request ended.                                    *)
(*                                                                         *)
(* A step ends at an await: a send under way is a state of its own.  What  *)
(* the request id is, and how events are worded, is left out.  An error is *)
(* an Exception or a CancelledError; what else ends a process, such as     *)
(* KeyboardInterrupt or SystemExit, is left out too.                       *)
(***************************************************************************)
EXTENDS Integers, Sequences, SequencesExt

CONSTANTS
    Statuses,  \* response statuses the application may start with
    MaxSends   \* bound: messages the application sends

ASSUME StatusesAssumption == Statuses \subseteq Nat /\ MaxSends \in Nat

VARIABLES
    pc,        \* where the request is: in the application, in one of its sends,
               \* in the middleware's own response, or done
    response,  \* HttpResponseState
    handed,    \* the statuses of the starts handed to the server's send
    lost,      \* the statuses of the starts that were noted, and went no further
    log,       \* what the observer was told
    sends,     \* messages the application has sent
    outcome    \* how the middleware ended

vars == <<pc, response, handed, lost, log, sends, outcome>>
starts == <<handed, lost>>
------------------------------------------------------------------------------
(* HttpResponseState *)

\* Mutant: a failure after the start rewrites the status too.
Overwritten(r) == [r EXCEPT !.failed = TRUE, !.status = 500]

MarkFailure(r) ==
    [r EXCEPT !.failed = TRUE, !.status = IF r.started THEN @ ELSE 500]

MarkDisconnected(r) == [r EXCEPT !.failed = TRUE, !.disconnected = TRUE]

\* start, when the response has not started.
Start(r, status) ==
    [r EXCEPT !.started = TRUE, !.status = status, !.failed = @ \/ status >= 500]

\* RequestLifecycleObserver
Started == [event |-> "started"]
Failed(r) == [event |-> "failed", started |-> r.started]
Disconnected(r) == [event |-> "disconnected", started |-> r.started]
Finished(r) == [event |-> "finished", response |-> r]

Init ==
    /\ pc = "app"
    /\ response = [status |-> 500, started |-> FALSE, failed |-> FALSE,
                   disconnected |-> FALSE]
    /\ handed = <<>> /\ lost = <<>>
    /\ log = <<Started>>
    /\ sends = 0
    /\ outcome = "none"
------------------------------------------------------------------------------
\* The finally clause: whatever left the try block, after the events it logged.
Finish(r, events, how) ==
    LET last == IF r.started THEN r ELSE MarkFailure(r) IN
    /\ pc' = "done"
    /\ response' = last
    /\ log' = log \o events \o <<Finished(last)>>
    /\ outcome' = how

\* The application sends http.response.start.  A second one raises into the
\* application, which may or may not let the error out; and so does one without
\* headers, which ASGI allows: MutableHeaders looks for them only when the response
\* state has noted the start, and the server is handed nothing.
SendStart(status) ==
    /\ pc = "app" /\ sends < MaxSends
    /\ sends' = sends + 1
    /\ \/ /\ response.started
          /\ response' = MarkFailure(response)
          /\ UNCHANGED <<starts, pc>>
       \/ /\ ~response.started
          /\ response' = Start(response, status)
          /\ lost' = Append(lost, status)
          /\ UNCHANGED <<handed, pc>>
       \/ /\ ~response.started
          /\ response' = Start(response, status)
          /\ handed' = Append(handed, status)
          /\ pc' = "sending"
          /\ UNCHANGED lost
    /\ UNCHANGED <<log, outcome>>

\* Any other message; before the start the server will refuse it.
SendBody ==
    /\ pc = "app" /\ sends < MaxSends
    /\ sends' = sends + 1
    /\ pc' = "sending"
    /\ UNCHANGED <<response, starts, log, outcome>>

\* The server's send returns, or raises into the application something else than
\* OSError, such as a protocol error or the application's own timeout.
SendEnds ==
    /\ pc = "sending"
    /\ pc' = "app"
    /\ UNCHANGED <<response, starts, log, sends, outcome>>

\* The client is gone: OSError, which the application may catch.
SendBreaks ==
    /\ pc = "sending"
    /\ response' = MarkDisconnected(response)
    /\ log' = Append(log, Disconnected(response'))
    /\ pc' = "app"
    /\ UNCHANGED <<starts, sends, outcome>>

\* The start of the middleware's own response.
Answer(r, events) ==
    /\ pc' = "answering"
    /\ response' = Start(r, 500)
    /\ handed' = Append(handed, 500)
    /\ log' = log \o events
    /\ UNCHANGED <<lost, outcome>>

\* Mutant: an error is reported for a client that is gone, too.
NoisyFail ==
    LET r == MarkFailure(response) IN
    /\ IF r.started THEN Finish(r, <<Failed(r)>>, "raised") /\ UNCHANGED starts
       ELSE Answer(r, <<Failed(r)>>)
    /\ UNCHANGED sends

\* except Exception: reported unless the client is gone, answered unless the
\* response has started.
Fail ==
    LET r == MarkFailure(response) IN
    /\ IF r.disconnected THEN Finish(r, <<>>, "raised") /\ UNCHANGED starts
       ELSE IF r.started THEN Finish(r, <<Failed(r)>>, "raised") /\ UNCHANGED starts
       ELSE Answer(r, <<Failed(r)>>)
    /\ UNCHANGED sends

Raise == pc = "app" /\ Fail

\* Mutant: an application that never started a response is believed.
ReturnAsIs ==
    /\ pc = "app"
    /\ Finish(response, <<>>, "returned") /\ UNCHANGED <<starts, sends>>

\* The application returns; without a response that is an error of its own.
Return ==
    /\ pc = "app"
    /\ IF response.started
       THEN Finish(response, <<>>, "returned") /\ UNCHANGED <<starts, sends>>
       ELSE Fail

\* CancelledError: in the application it marks a failure, in the error response
\* there is one already.
Cancel ==
    /\ pc \in {"app", "sending", "answering", "closing"}
    /\ Finish(IF pc \in {"app", "sending"} THEN MarkFailure(response) ELSE response,
              <<>>, "cancelled")
    /\ UNCHANGED <<starts, sends>>
------------------------------------------------------------------------------
(* The middleware's own response: its start is under way, then its body *)

AnswerEnds ==
    /\ pc \in {"answering", "closing"}
    /\ IF pc = "answering"
       THEN pc' = "closing" /\ UNCHANGED <<response, log, outcome>>
       ELSE Finish(response, <<>>, "returned")
    /\ UNCHANGED <<starts, sends>>

\* Mutant: the error of the answer is caught and reported like any other.
FailedAnswer ==
    /\ pc \in {"answering", "closing"}
    /\ LET r == MarkDisconnected(response)
       IN  Finish(r, <<Disconnected(r), Failed(r)>>, "raised")
    /\ UNCHANGED <<starts, sends>>

AnswerBreaks ==
    /\ pc \in {"answering", "closing"}
    /\ LET r == MarkDisconnected(response)
       IN  Finish(r, <<Disconnected(r)>>, "raised")
    /\ UNCHANGED <<starts, sends>>

\* The server refuses a message of the answer: reported already, when it failed.
AnswerRefused ==
    /\ pc \in {"answering", "closing"}
    /\ Finish(response, <<>>, "raised")
    /\ UNCHANGED <<starts, sends>>

Done == pc = "done" /\ UNCHANGED vars

Next ==
    \/ \E status \in Statuses : SendStart(status)
    \/ SendBody \/ SendEnds \/ SendBreaks
    \/ Raise \/ Return \/ Cancel
    \/ AnswerEnds \/ AnswerBreaks \/ AnswerRefused
    \/ Done

Spec == Init /\ [][Next]_vars
------------------------------------------------------------------------------
(* Properties *)

Occurs(event) == {i \in DOMAIN log : log[i].event = event}

\* The start of the response, whether or not it got to the server.
Noted == IF handed = <<>> THEN lost ELSE handed

\* The server is handed one response start at most, whatever the application
\* sends twice, catches or raises, and the middleware answers on its own; and a
\* request that ends with none was cancelled, its client was gone, or the start of
\* its application was lost for want of headers: any other application that raises,
\* or that returns without a response, is answered for (the fail-safe 500 of
\* RequestIdMiddleware).
AnsweredOnce ==
    /\ Len(handed) <= 1 /\ (handed = <<>> \/ lost = <<>>)
    /\ pc = "done" /\ handed = <<>> =>
         outcome = "cancelled" \/ response.disconnected \/ lost # <<>>

\* The log frames a request: started first, finished once and last, and one
\* failure at most in between, which is there for every error that leaves the
\* middleware unless the client was gone.
LogFramed ==
    /\ Occurs("started") = {1}
    /\ Occurs("finished") = IF pc = "done" THEN {Len(log)} ELSE {}
    /\ \A i, j \in Occurs("failed") : i = j
    /\ outcome = "raised" => Occurs("failed") # {} \/ Occurs("disconnected") # {}

\* What "request finished" says is what was started: the status is that of the
\* first start, 500 if there was none; and a request that "did not fail" was started
\* below 500 and returned, with no error and no lost client on the way.  Whether
\* the start got to the server it does not say.
FinishedAsStarted ==
    pc = "done" =>
      LET r == Last(log).response IN
      /\ r.status = IF Noted = <<>> THEN 500 ELSE Head(Noted)
      /\ ~r.failed =>
           /\ outcome = "returned" /\ Noted # <<>> /\ r.status < 500
           /\ Occurs("failed") = {} /\ Occurs("disconnected") = {}

\* An application that returns has answered, or the middleware does: to return
\* "without a response" is an error (request_id.py:113-114).  The code breaks this
\* when the application catches the error of a start without headers.
ReturnedAnswered == outcome = "returned" => handed # <<>>

\* Once the client is known to be gone, what the application then raises is its
\* consequence: it is neither reported as a failure nor answered.
GoneStaysQuiet ==
    [][ response.disconnected =>
          Occurs("failed")' = Occurs("failed") /\ (pc' = "answering" => pc = "answering")
      ]_vars
==============================================================================
