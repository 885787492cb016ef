------------------------ MODULE RequestLifecycleProofs ------------------------
(***************************************************************************)
(* Proofs about RequestLifecycle, for any statuses and any number of       *)
(* messages the application sends.                                         *)
(***************************************************************************)
EXTENDS RequestLifecycle, TLAPS

Response == [status : Nat, started : BOOLEAN, failed : BOOLEAN, disconnected : BOOLEAN]

Event == {Started}
         \cup [event : {"failed", "disconnected"}, started : BOOLEAN]
         \cup [event : {"finished"}, response : Response]

\* Where an event stands in a log.
At(l, event) == {i \in DOMAIN l : l[i].event = event}

\* The response state tells of the one start there was, if any.
ResponseOK(r, h) ==
    /\ r \in Response
    /\ IF r.started THEN h = <<r.status>> ELSE h = <<>> /\ r.status = 500
    /\ r.disconnected => r.failed
    /\ r.started /\ ~r.failed => r.status < 500

\* The log of a request still being served tells of its response state.
LogOK(l, r) ==
    /\ l \in Seq(Event)
    /\ At(l, "started") = {1} /\ At(l, "finished") = {}
    /\ \A i, j \in At(l, "failed") : i = j
    /\ At(l, "failed") # {} => r.failed
    /\ r.disconnected <=> At(l, "disconnected") # {}

Serving ==
    /\ pc \in {"app", "sending", "answering", "closing"}
    /\ LogOK(log, response) /\ outcome = "none"
    /\ pc \in {"app", "sending"} => At(log, "failed") = {}
    /\ pc \in {"answering", "closing"} => response.started /\ At(log, "failed") # {}

\* A finished request: its log without the last line was one of a request being served.
Ended ==
    /\ pc = "done"
    /\ \E l \in Seq(Event) : LogOK(l, response) /\ log = Append(l, Finished(response))
    /\ response.started \/ outcome = "cancelled" \/ response.disconnected
    /\ ~response.failed => outcome = "returned" /\ response.started
    /\ outcome = "raised" => At(log, "failed") # {} \/ At(log, "disconnected") # {}

\* A start that was lost is the only one there is.
OneStart == handed = <<>> \/ lost = <<>>

LifecycleInv == ResponseOK(response, Noted) /\ OneStart /\ (Serving \/ Ended)

USE StatusesAssumption

------------------------------------------------------------------------------
(* Lemmas about the log and the response state *)

LEMMA AtAppend ==
    ASSUME NEW S, NEW l \in Seq(S), NEW e, NEW x
    PROVE  At(Append(l, e), x) = IF e.event = x THEN At(l, x) \cup {Len(l) + 1} ELSE At(l, x)
<1>1. DOMAIN Append(l, e) = DOMAIN l \cup {Len(l) + 1} /\ Len(l) + 1 \notin DOMAIN l
  OBVIOUS
<1>2. /\ \A i \in DOMAIN l : Append(l, e)[i] = l[i]
      /\ Append(l, e)[Len(l) + 1] = e
  OBVIOUS
<1>3. PICK a : a = Append(l, e)  OBVIOUS
<1>. QED  BY <1>1, <1>2, <1>3 DEF At

LEMMA Marked ==
    ASSUME NEW r \in Response, NEW h, ResponseOK(r, h)
    PROVE  /\ ResponseOK(MarkFailure(r), h) /\ MarkFailure(r).failed
           /\ MarkFailure(r).started = r.started
           /\ MarkFailure(r).disconnected = r.disconnected
           /\ ResponseOK(MarkDisconnected(r), h) /\ MarkDisconnected(r).failed
           /\ MarkDisconnected(r).started = r.started
           /\ MarkDisconnected(r).disconnected
<1>1. PICK f : f = MarkFailure(r)  OBVIOUS
<1>2. PICK d : d = MarkDisconnected(r)  OBVIOUS
<1>3. /\ f \in Response /\ f.failed /\ f.started = r.started
      /\ f.disconnected = r.disconnected
      /\ f.status = IF r.started THEN r.status ELSE 500
  <2>1. CASE r.started
    <3>1. f = [r EXCEPT !.failed = TRUE, !.status = r.status]
      BY <1>1, <2>1 DEF MarkFailure
    <3>. QED  BY <2>1, <3>1 DEF Response
  <2>2. CASE ~r.started
    <3>1. f = [r EXCEPT !.failed = TRUE, !.status = 500]
      BY <1>1, <2>2 DEF MarkFailure
    <3>2. f = [status |-> 500, started |-> r.started, failed |-> TRUE,
               disconnected |-> r.disconnected]
      BY <3>1 DEF Response
    <3>3. f.started = r.started /\ f.disconnected = r.disconnected
      BY <3>1 DEF Response
    <3>. QED  BY <2>2, <3>2, <3>3 DEF Response
  <2>. QED  BY <2>1, <2>2
<1>4. /\ d \in Response /\ d.failed /\ d.started = r.started
      /\ d.disconnected /\ d.status = r.status
  BY <1>2 DEF MarkDisconnected, Response
<1>. QED  BY <1>1, <1>2, <1>3, <1>4 DEF ResponseOK

LEMMA StartedResponse ==
    ASSUME NEW r \in Response, ~r.started, ResponseOK(r, <<>>), NEW status \in Nat
    PROVE  /\ ResponseOK(Start(r, status), <<status>>)
           /\ Start(r, status).started
           /\ r.failed => Start(r, status).failed
           /\ Start(r, status).disconnected = r.disconnected
<1>1. PICK s : s = Start(r, status)  OBVIOUS
<1>2. /\ s \in Response /\ s.started /\ s.disconnected = r.disconnected
      /\ s.status = status /\ (s.failed <=> r.failed \/ status >= 500)
  <2>1. PICK failed \in BOOLEAN : failed = (r.failed \/ status >= 500)
    OBVIOUS
  <2>2. s = [r EXCEPT !.started = TRUE, !.status = status, !.failed = failed]
    BY <1>1, <2>1 DEF Start, Response
  <2>. QED  BY <2>1, <2>2 DEF Response
<1>3. r.disconnected => r.failed  BY DEF ResponseOK
<1>. QED  BY <1>1, <1>2, <1>3 DEF ResponseOK, Response

\* One more line keeps the log in order.
LEMMA LogMore ==
    ASSUME NEW l, NEW r \in Response, LogOK(l, r), NEW q \in Response, r.failed => q.failed,
           NEW e \in Event,
           \/ /\ e = Failed(q) /\ At(l, "failed") = {} /\ q.failed
              /\ q.disconnected = r.disconnected
           \/ e = Disconnected(q) /\ q.disconnected
    PROVE  /\ LogOK(Append(l, e), q)
           /\ e = Failed(q) => At(Append(l, e), "failed") # {}
           /\ e = Disconnected(q) => /\ At(Append(l, e), "failed") = At(l, "failed")
                                     /\ At(Append(l, e), "disconnected") # {}
<1>1. l \in Seq(Event)  BY DEF LogOK
<1>2. PICK m : m = Append(l, e)  OBVIOUS
<1>3. m \in Seq(Event)  BY <1>1, <1>2
<1>4. \A x : At(m, x) = IF e.event = x THEN At(l, x) \cup {Len(l) + 1} ELSE At(l, x)
  BY <1>1, <1>2, AtAppend
<1>5. CASE e = Failed(q) /\ At(l, "failed") = {} /\ q.failed /\ q.disconnected = r.disconnected
  <2>1. e.event = "failed" /\ e # Disconnected(q)  BY <1>5 DEF Failed, Disconnected
  <2>. QED  BY <1>2, <1>3, <1>4, <1>5, <2>1 DEF LogOK
<1>6. CASE e = Disconnected(q) /\ q.disconnected
  <2>1. e.event = "disconnected" /\ e # Failed(q)  BY <1>6 DEF Failed, Disconnected
  <2>. QED  BY <1>2, <1>3, <1>4, <1>6, <2>1 DEF LogOK
<1>. QED  BY <1>5, <1>6

LEMMA EventTypes ==
    ASSUME NEW r \in Response
    PROVE  Failed(r) \in Event /\ Disconnected(r) \in Event /\ Finished(r) \in Event
  BY DEF Event, Failed, Disconnected, Finished, Response

LEMMA LogStays ==
    ASSUME NEW l, NEW r, LogOK(l, r), NEW q, r.failed => q.failed,
           q.disconnected = r.disconnected
    PROVE  LogOK(l, q)
  BY DEF LogOK

LEMMA StartsStay ==
    ASSUME UNCHANGED starts, OneStart
    PROVE  Noted' = Noted /\ OneStart'
  BY DEF starts, Noted, OneStart

\* The first start, on its way to the server or lost.
LEMMA FirstStart ==
    ASSUME OneStart, NEW r, ~r.started, ResponseOK(r, Noted), NEW status,
           \/ handed' = Append(handed, status) /\ UNCHANGED lost
           \/ lost' = Append(lost, status) /\ UNCHANGED handed
    PROVE  Noted = <<>> /\ Noted' = <<status>> /\ OneStart'
<1>1. handed = <<>> /\ lost = <<>>  BY DEF ResponseOK, Noted, OneStart
<1>2. Append(<<>>, status) = <<status>>  OBVIOUS
<1>. QED  BY <1>1, <1>2 DEF Noted, OneStart

\* The end of a request, from a log that is in order.
LEMMA Finishing ==
    ASSUME NEW l, NEW r \in Response, NEW events, NEW how, Finish(r, events, how),
           LogOK(l, r), log \o events = l, ResponseOK(r, Noted), UNCHANGED starts,
           OneStart,
           r.started \/ how = "cancelled" \/ r.disconnected,
           ~r.failed => how = "returned" /\ r.started,
           how = "raised" => At(l, "failed") # {} \/ At(l, "disconnected") # {}
    PROVE  LifecycleInv' /\ pc' = "done" /\ Occurs("failed")' = At(l, "failed")
<1>1. PICK last : last = IF r.started THEN r ELSE MarkFailure(r)  OBVIOUS
<1>2. /\ pc' = "done" /\ response' = last /\ outcome' = how
      /\ log' = l \o <<Finished(last)>>
  BY <1>1 DEF Finish
<1>3. /\ last \in Response /\ ResponseOK(last, Noted) /\ last.started = r.started
      /\ last.disconnected = r.disconnected /\ (r.failed => last.failed)
  <2>1. MarkFailure(r) \in Response  BY Marked DEF ResponseOK
  <2>. QED  BY <1>1, <2>1, Marked
<1>4. LogOK(l, last)  BY <1>3, LogStays
<1>5. l \in Seq(Event) /\ Finished(last) \in Event  BY <1>3, EventTypes DEF LogOK
<1>6. log' = Append(l, Finished(last))  BY <1>2, <1>5
<1>7. \A x : x # "finished" => At(log', x) = At(l, x)
  BY <1>5, <1>6, AtAppend DEF Finished
<1>8. Ended'
  BY <1>2, <1>3, <1>4, <1>5, <1>6, <1>7 DEF Ended
<1>9. ResponseOK(response, Noted)' /\ OneStart'  BY <1>2, <1>3, StartsStay
<1>10. Occurs("failed")' = At(log', "failed")  BY DEF Occurs, At
<1>. QED  BY <1>2, <1>7, <1>8, <1>9, <1>10 DEF LifecycleInv

------------------------------------------------------------------------------
(* The steps: each keeps the invariant, and stays quiet once the client is gone *)

Quiet == response.disconnected =>
           /\ Occurs("failed")' = Occurs("failed")
           /\ pc' = "answering" => pc = "answering"

LEMMA OccursAt == Occurs("failed") = At(log, "failed") /\ Occurs("failed")' = At(log', "failed")
  BY DEF Occurs, At

LEMMA Running ==
    ASSUME LifecycleInv, pc # "done"
    PROVE  /\ Serving /\ ResponseOK(response, Noted) /\ OneStart /\ response \in Response
           /\ LogOK(log, response) /\ log \in Seq(Event)
  BY DEF LifecycleInv, Ended, Serving, ResponseOK, LogOK

\* The middleware ends without a further word on what went wrong.
LEMMA SilentEnd ==
    ASSUME LifecycleInv, pc # "done", NEW r \in Response, NEW how, Finish(r, <<>>, how),
           UNCHANGED starts, ResponseOK(r, Noted), response.failed => r.failed,
           r.disconnected = response.disconnected,
           r.started \/ how = "cancelled" \/ r.disconnected,
           ~r.failed => how = "returned" /\ r.started,
           how = "raised" => At(log, "failed") # {} \/ r.disconnected
    PROVE  LifecycleInv' /\ Quiet
<1>1. LogOK(log, r)  BY Running, LogStays
<1>2. log \o <<>> = log /\ OneStart  BY Running
<1>3. r.disconnected => At(log, "disconnected") # {}  BY <1>1 DEF LogOK
<1>4. LifecycleInv' /\ pc' = "done" /\ Occurs("failed")' = At(log, "failed")
  BY <1>1, <1>2, <1>3, Finishing
<1>. QED  BY <1>4, OccursAt DEF Quiet

LEMMA SendStartStep ==
    ASSUME LifecycleInv, NEW status \in Statuses, SendStart(status)
    PROVE  LifecycleInv' /\ Quiet
<1>1. /\ pc = "app" /\ Serving /\ ResponseOK(response, Noted) /\ OneStart /\ response \in Response
      /\ LogOK(log, response)
  BY Running DEF SendStart
<1>2. UNCHANGED <<log, outcome>>  BY DEF SendStart
<1>3. CASE response.started
  <2>1. response' = MarkFailure(response) /\ UNCHANGED <<starts, pc>>
    BY <1>3 DEF SendStart
  <2>2. LogOK(log, response')  BY <1>1, <2>1, Marked, LogStays
  <2>3. (ResponseOK(response, Noted) /\ OneStart)'  BY <1>1, <2>1, Marked, StartsStay
  <2>. QED  BY <1>1, <1>2, <2>1, <2>2, <2>3, OccursAt DEF LifecycleInv, Serving, Quiet
<1>4. CASE ~response.started
  <2>1. /\ response' = Start(response, status) /\ pc' \in {"app", "sending"}
        /\ \/ handed' = Append(handed, status) /\ UNCHANGED lost
           \/ lost' = Append(lost, status) /\ UNCHANGED handed
    BY <1>1, <1>4 DEF SendStart
  <2>2. Noted = <<>> /\ Noted' = <<status>> /\ OneStart'
    BY <1>1, <1>4, <2>1, FirstStart
  <2>3. /\ ResponseOK(response', <<status>>) /\ (response.failed => response'.failed)
        /\ response'.disconnected = response.disconnected
    BY <1>1, <1>4, <2>1, <2>2, StartedResponse
  <2>4. LogOK(log, response')  BY <1>1, <2>3, LogStays
  <2>. QED
    BY <1>1, <1>2, <2>1, <2>2, <2>3, <2>4, OccursAt DEF LifecycleInv, Serving, Quiet
<1>. QED  BY <1>3, <1>4

LEMMA SendStep ==
    ASSUME LifecycleInv, SendBody \/ SendEnds
    PROVE  LifecycleInv' /\ Quiet
<1>1. /\ pc \in {"app", "sending"} /\ pc' \in {"app", "sending"}
      /\ UNCHANGED <<response, starts, log, outcome>>
  BY DEF SendBody, SendEnds
<1>. QED  BY <1>1, StartsStay, OccursAt DEF LifecycleInv, Serving, Ended, Quiet

LEMMA SendBreaksStep ==
    ASSUME LifecycleInv, SendBreaks
    PROVE  LifecycleInv' /\ Quiet
<1>. DEFINE q == MarkDisconnected(response)
<1>1. /\ pc = "sending" /\ Serving /\ ResponseOK(response, Noted) /\ OneStart /\ response \in Response
      /\ LogOK(log, response) /\ log \in Seq(Event)
  BY Running DEF SendBreaks
<1>2. /\ response' = q /\ log' = Append(log, Disconnected(q)) /\ pc' = "app"
      /\ UNCHANGED <<starts, outcome>>
  BY DEF SendBreaks
<1>3. q \in Response /\ ResponseOK(q, Noted) /\ q.failed /\ q.disconnected
  BY <1>1, Marked DEF ResponseOK
<1>4. Disconnected(q) \in Event  BY <1>3, EventTypes
<1>. HIDE DEF q
<1>5. LogOK(log', q) /\ At(log', "failed") = At(log, "failed")
  BY <1>1, <1>2, <1>3, <1>4, LogMore
<1>. QED  BY <1>1, <1>2, <1>3, <1>5, StartsStay, OccursAt DEF LifecycleInv, Serving, Quiet

\* An error of the application: reported unless the client is gone, answered unless the
\* response has started.
LEMMA FailStep ==
    ASSUME LifecycleInv, pc = "app", Fail
    PROVE  LifecycleInv' /\ Quiet
<1>. DEFINE r == MarkFailure(response)
<1>1. /\ Serving /\ ResponseOK(response, Noted) /\ OneStart /\ response \in Response
      /\ LogOK(log, response) /\ log \in Seq(Event)
  BY Running
<1>2. /\ r \in Response /\ ResponseOK(r, Noted) /\ r.failed
      /\ r.started = response.started /\ r.disconnected = response.disconnected
  BY <1>1, Marked DEF ResponseOK
<1>3. Failed(r) \in Event  BY <1>2, EventTypes
<1>4. /\ r.disconnected => Finish(r, <<>>, "raised") /\ UNCHANGED starts
      /\ ~r.disconnected /\ r.started =>
           Finish(r, <<Failed(r)>>, "raised") /\ UNCHANGED starts
      /\ ~r.disconnected /\ ~r.started => Answer(r, <<Failed(r)>>)
  BY DEF Fail
<1>. HIDE DEF r
<1>5. PICK m : m = Append(log, Failed(r))  OBVIOUS
<1>6. log \o <<Failed(r)>> = m  BY <1>1, <1>5
<1>7. LogOK(m, r) /\ At(m, "failed") # {}
  BY <1>1, <1>2, <1>3, <1>5, LogMore DEF Serving
<1>8. CASE r.disconnected  BY <1>1, <1>2, <1>4, <1>8, SilentEnd
<1>9. CASE ~r.disconnected /\ r.started
  <2>1. LifecycleInv'  BY <1>1, <1>2, <1>4, <1>6, <1>7, <1>9, Finishing
  <2>. QED  BY <1>2, <1>9, <2>1 DEF Quiet
<1>10. CASE ~r.disconnected /\ ~r.started
  <2>1. /\ pc' = "answering" /\ response' = Start(r, 500) /\ log' = m /\ UNCHANGED outcome
        /\ handed' = Append(handed, 500) /\ UNCHANGED lost
    BY <1>2, <1>4, <1>6, <1>10 DEF Answer
  <2>2. Noted = <<>> /\ Noted' = <<500>> /\ OneStart'
    BY <1>1, <1>2, <1>10, <2>1, FirstStart
  <2>3. /\ ResponseOK(response', <<500>>) /\ response'.started /\ response'.failed
        /\ response'.disconnected = r.disconnected
    BY <1>2, <1>10, <2>1, <2>2, StartedResponse
  <2>4. LogOK(m, response')  BY <1>7, <2>3, LogStays
  <2>5. LifecycleInv'
    BY <1>1, <1>7, <2>1, <2>2, <2>3, <2>4 DEF LifecycleInv, Serving
  <2>. QED  BY <1>2, <1>10, <2>5 DEF Quiet
<1>. QED  BY <1>8, <1>9, <1>10

LEMMA ReturnStep ==
    ASSUME LifecycleInv, Return
    PROVE  LifecycleInv' /\ Quiet
<1>1. pc = "app" /\ ResponseOK(response, Noted) /\ response \in Response
  BY Running DEF Return
<1>2. CASE response.started
  <2>1. Finish(response, <<>>, "returned") /\ UNCHANGED starts  BY <1>2 DEF Return
  <2>. QED  BY <1>1, <1>2, <2>1, SilentEnd
<1>3. CASE ~response.started  BY <1>1, <1>3, FailStep DEF Return
<1>. QED  BY <1>2, <1>3

LEMMA CancelStep ==
    ASSUME LifecycleInv, Cancel
    PROVE  LifecycleInv' /\ Quiet
<1>1. /\ pc # "done" /\ ResponseOK(response, Noted) /\ response \in Response /\ Serving
      /\ LogOK(log, response) /\ UNCHANGED starts
  BY Running DEF Cancel
<1>2. CASE pc \in {"app", "sending"}
  <2>1. Finish(MarkFailure(response), <<>>, "cancelled")  BY <1>2 DEF Cancel
  <2>2. /\ MarkFailure(response) \in Response /\ ResponseOK(MarkFailure(response), Noted)
        /\ MarkFailure(response).failed
        /\ MarkFailure(response).disconnected = response.disconnected
    BY <1>1, Marked DEF ResponseOK
  <2>. QED  BY <1>1, <2>1, <2>2, SilentEnd
<1>3. CASE pc \notin {"app", "sending"}
  <2>1. Finish(response, <<>>, "cancelled")  BY <1>3 DEF Cancel
  <2>2. response.failed  BY <1>1, <1>3 DEF Serving, LogOK
  <2>. QED  BY <1>1, <2>1, <2>2, SilentEnd
<1>. QED  BY <1>2, <1>3

\* The middleware's own response: a failure that has been reported already.
LEMMA AnswerStep ==
    ASSUME LifecycleInv, AnswerEnds \/ AnswerBreaks \/ AnswerRefused
    PROVE  LifecycleInv' /\ Quiet
<1>1. /\ pc \in {"answering", "closing"} /\ UNCHANGED starts
      /\ ResponseOK(response, Noted) /\ OneStart /\ response \in Response /\ Serving
      /\ LogOK(log, response) /\ log \in Seq(Event)
  BY Running DEF AnswerEnds, AnswerBreaks, AnswerRefused
<1>2. response.started /\ response.failed /\ At(log, "failed") # {}
  BY <1>1 DEF Serving, LogOK
<1>3. CASE AnswerEnds
  <2>1. CASE pc = "answering"
    BY <1>1, <1>3, <2>1, StartsStay, OccursAt DEF AnswerEnds, LifecycleInv, Serving, Quiet
  <2>2. CASE pc # "answering"
    <3>1. Finish(response, <<>>, "returned")  BY <1>3, <2>2 DEF AnswerEnds
    <3>. QED  BY <1>1, <1>2, <3>1, SilentEnd
  <2>. QED  BY <2>1, <2>2
<1>4. CASE AnswerRefused
  <2>1. Finish(response, <<>>, "raised")  BY <1>4 DEF AnswerRefused
  <2>. QED  BY <1>1, <1>2, <2>1, SilentEnd
<1>5. CASE AnswerBreaks
  <2>. DEFINE q == MarkDisconnected(response)
  <2>1. /\ q \in Response /\ ResponseOK(q, Noted) /\ q.failed /\ q.disconnected
        /\ q.started = response.started
    BY <1>1, Marked DEF ResponseOK
  <2>2. Finish(q, <<Disconnected(q)>>, "raised")  BY <1>5 DEF AnswerBreaks
  <2>3. Disconnected(q) \in Event  BY <2>1, EventTypes
  <2>. HIDE DEF q
  <2>4. PICK m : m = Append(log, Disconnected(q))  OBVIOUS
  <2>5. log \o <<Disconnected(q)>> = m  BY <1>1, <2>4
  <2>6. LogOK(m, q) /\ At(m, "failed") = At(log, "failed")
    BY <1>1, <2>1, <2>3, <2>4, LogMore
  <2>7. /\ LifecycleInv' /\ pc' = "done" /\ Occurs("failed")' = At(m, "failed")
    BY <1>1, <1>2, <2>1, <2>2, <2>5, <2>6, Finishing
  <2>. QED  BY <2>6, <2>7, OccursAt DEF Quiet
<1>. QED  BY <1>3, <1>4, <1>5

LEMMA InitLifecycle == Init => LifecycleInv
<1>. SUFFICES ASSUME Init PROVE LifecycleInv  OBVIOUS
<1>1. PICK e : e = Started  OBVIOUS
<1>2. e \in Event /\ e.event = "started"  BY <1>1 DEF Event, Started
<1>3. log = <<e>>  BY <1>1 DEF Init
<1>4. log \in Seq(Event) /\ DOMAIN log = {1} /\ log[1] = e  BY <1>2, <1>3
<1>5. \A x : At(log, x) = IF x = "started" THEN {1} ELSE {}  BY <1>2, <1>4 DEF At
<1>6. /\ response \in Response /\ ~response.started /\ ~response.disconnected
      /\ response.status = 500 /\ Noted = <<>> /\ OneStart
  BY DEF Init, Response, Noted, OneStart
<1>7. LogOK(log, response)  BY <1>4, <1>5, <1>6 DEF LogOK
<1>. QED  BY <1>5, <1>6, <1>7 DEF Init, LifecycleInv, Serving, ResponseOK

LEMMA LifecycleStep == LifecycleInv /\ [Next]_vars => LifecycleInv' /\ Quiet
<1>. SUFFICES ASSUME LifecycleInv, [Next]_vars PROVE LifecycleInv' /\ Quiet
  OBVIOUS
<1>1. CASE Raise  BY <1>1, FailStep DEF Raise
<1>2. CASE UNCHANGED vars
  BY <1>2, StartsStay, OccursAt DEF vars, starts, LifecycleInv, Serving, Ended, Quiet
<1>3. CASE Done  BY <1>2, <1>3 DEF Done
<1>. QED
  BY <1>1, <1>2, <1>3, SendStartStep, SendStep, SendBreaksStep, ReturnStep, CancelStep,
     AnswerStep DEF Next

LEMMA LifecycleInvariant == Spec => []LifecycleInv
  BY InitLifecycle, LifecycleStep, PTL DEF Spec

\* The last line of a finished request, and what stood before it.
LEMMA EndedLog ==
    ASSUME Ended
    PROVE  /\ Last(log) = Finished(response)
           /\ At(log, "finished") = {Len(log)} /\ At(log, "started") = {1}
           /\ \A i, j \in At(log, "failed") : i = j
           /\ ~response.failed => At(log, "failed") = {}
           /\ response.disconnected <=> At(log, "disconnected") # {}
<1>1. PICK l \in Seq(Event) : LogOK(l, response) /\ log = Append(l, Finished(response))
  BY DEF Ended
<1>2. PICK e : e = Finished(response)  OBVIOUS
<1>3. e.event = "finished"  BY <1>2 DEF Finished
<1>4. Len(log) = Len(l) + 1 /\ log[Len(log)] = e  BY <1>1, <1>2
<1>5. \A x : At(log, x) = IF e.event = x THEN At(l, x) \cup {Len(l) + 1} ELSE At(l, x)
  BY <1>1, <1>2, AtAppend
<1>. QED  BY <1>1, <1>2, <1>3, <1>4, <1>5 DEF LogOK, Last

\* At most one response start, and none only when nobody was there to be answered or
\* the application's own was lost.
THEOREM AnsweredOnceCorrect == Spec => []AnsweredOnce
<1>1. ASSUME LifecycleInv PROVE AnsweredOnce
  <2>1. OneStart /\ ResponseOK(response, Noted)  BY <1>1 DEF LifecycleInv
  <2>2. Noted = <<>> \/ Noted = <<response.status>>  BY <2>1 DEF ResponseOK
  <2>3. Len(handed) <= 1
    <3>1. handed = <<>> \/ handed = <<response.status>>  BY <2>2 DEF Noted
    <3>2. CASE handed = <<>>  BY <3>2
    <3>3. CASE handed = <<response.status>>  BY <3>3
    <3>. QED  BY <3>1, <3>2, <3>3
  <2>4. ASSUME pc = "done", handed = <<>>
        PROVE  outcome = "cancelled" \/ response.disconnected \/ lost # <<>>
    <3>1. Ended  BY <1>1, <2>4 DEF LifecycleInv, Serving
    <3>2. CASE response.started
      <4>1. lost = <<response.status>>  BY <2>1, <2>4, <3>2 DEF ResponseOK, Noted
      <4>. QED  BY <4>1
    <3>. QED  BY <3>1, <3>2 DEF Ended
  <2>. QED  BY <2>1, <2>3, <2>4 DEF AnsweredOnce, OneStart
<1>. QED  BY <1>1, LifecycleInvariant, PTL

\* The log frames a request, with one failure at most, for any number of messages.
THEOREM LogCorrect == Spec => []LogFramed
<1>1. ASSUME LifecycleInv PROVE LogFramed
  <2>1. \A x : Occurs(x) = At(log, x)  BY DEF Occurs, At
  <2>2. CASE Serving  BY <2>1, <2>2 DEF LogFramed, Serving, LogOK
  <2>3. CASE Ended  BY <2>1, <2>3, EndedLog DEF LogFramed, Ended
  <2>. QED  BY <1>1, <2>2, <2>3 DEF LifecycleInv
<1>. QED  BY <1>1, LifecycleInvariant, PTL

\* What the last line says of the response is what was started.
THEOREM FinishedCorrect == Spec => []FinishedAsStarted
<1>1. ASSUME LifecycleInv, pc = "done"
      PROVE  LET r == Last(log).response IN
             /\ r.status = IF Noted = <<>> THEN 500 ELSE Head(Noted)
             /\ ~r.failed =>
                  /\ outcome = "returned" /\ Noted # <<>> /\ r.status < 500
                  /\ Occurs("failed") = {} /\ Occurs("disconnected") = {}
  <2>1. Ended /\ ResponseOK(response, Noted)  BY <1>1 DEF LifecycleInv, Serving
  <2>2. Last(log).response = response  BY <2>1, EndedLog DEF Finished
  <2>3. response.status = IF Noted = <<>> THEN 500 ELSE Head(Noted)
    <3>1. CASE response.started
      <4>1. Noted = <<response.status>>  BY <2>1, <3>1 DEF ResponseOK
      <4>. QED  BY <4>1
    <3>2. CASE ~response.started  BY <2>1, <3>2 DEF ResponseOK
    <3>. QED  BY <3>1, <3>2
  <2>4. ASSUME ~response.failed
        PROVE  /\ outcome = "returned" /\ Noted # <<>> /\ response.status < 500
               /\ Occurs("failed") = {} /\ Occurs("disconnected") = {}
    <3>1. response.started /\ outcome = "returned"  BY <2>1, <2>4 DEF Ended
    <3>2. Noted = <<response.status>> /\ response.status < 500 /\ ~response.disconnected
      BY <2>1, <2>4, <3>1 DEF ResponseOK
    <3>3. At(log, "failed") = {} /\ At(log, "disconnected") = {}
      BY <2>1, <2>4, <3>2, EndedLog
    <3>. QED  BY <3>1, <3>2, <3>3 DEF Occurs, At
  <2>. QED  BY <2>2, <2>3, <2>4
<1>2. LifecycleInv => FinishedAsStarted  BY <1>1 DEF FinishedAsStarted
<1>. QED  BY <1>2, LifecycleInvariant, PTL

\* Once the client is known to be gone, the application's errors are neither reported
\* nor answered.
THEOREM QuietCorrect == Spec => GoneStaysQuiet
<1>1. LifecycleInv /\ [Next]_vars =>
        [response.disconnected =>
           Occurs("failed")' = Occurs("failed") /\ (pc' = "answering" => pc = "answering")
        ]_vars
  BY LifecycleStep DEF Quiet
<1>. QED  BY <1>1, LifecycleInvariant, PTL DEF Spec, GoneStaysQuiet
===============================================================================
