-------------------------- MODULE RequestCorrelation --------------------------
(***************************************************************************)
(* The request id of RequestIdMiddleware across the requests of one        *)
(* server: where it comes from, the logging context it is bound in, the    *)
(* scope state the application reads it from and the header it goes back   *)
(* in.                                                                     *)
(*                                                                         *)
(* Each request runs in a task of its own, whose logging context is a copy *)
(* of the context of whoever created the task: the server, or the task of  *)
(* another request of the same connection, bound or not.  How one request  *)
(* ends is the subject of RequestLifecycle; here it only ends.             *)
(***************************************************************************)
EXTENDS Integers, Sequences

CONSTANTS
    Requests, Server,
    Ids, SafeIds,   \* values of the header, and those the policy lets pass
    Received,       \* lists of header values a request may arrive with
    Generator,      \* what the generator returns for each request
    MaxSteps,       \* bound: fields bound and lines written by an application
    None

ASSUME CorrelationAssumption ==
    /\ Server \notin Requests
    /\ SafeIds \subseteq Ids /\ None \notin Ids
    /\ Received \subseteq Seq(Ids)
    /\ Generator \in [Requests -> Ids]
    /\ \A q, r \in Requests : q # r => Generator[q] # Generator[r]
    /\ MaxSteps \in Nat

VARIABLES
    pc,
    received,  \* values of the header in the scope
    id,        \* the resolved id
    context,   \* structlog context of each task: an id, and who bound other fields
    states,    \* the state dicts: the id under state_key in each
    handed,    \* values of the header in the response start handed to the server
    lines,     \* log lines: who wrote them, and the context they were written in
    steps

vars == <<pc, received, id, context, states, handed, lines, steps>>

Tasks == Requests \cup {Server}

Empty == [id |-> None, fields |-> {}]
Context == [id : Ids \cup {None}, fields : SUBSET Requests]

Init ==
    /\ pc = [r \in Requests |-> "idle"]
    /\ received = [r \in Requests |-> <<>>]
    /\ id = [r \in Requests |-> None]
    /\ context = [t \in Tasks |-> Empty]
    /\ states = [t \in Tasks |-> None]
    /\ handed = [r \in Requests |-> <<>>]
    /\ lines = {}
    /\ steps = [r \in Requests |-> 0]
------------------------------------------------------------------------------
Goto(r, label) == pc' = [pc EXCEPT ![r] = label]

\* A line of request r in context ctx.
Write(r, ctx) == lines' = lines \cup {[by |-> r, context |-> ctx]}

\* Whose task may be running when the server creates that of a request.
Creators == {Server} \cup {q \in Requests : pc[q] \in {"app", "done", "passed"}}

\* The server creates the task of a request, maybe while it handles another.
Accept(r, creator) ==
    /\ pc[r] = "idle"
    /\ \E values \in Received : received' = [received EXCEPT ![r] = values]
    /\ context' = [context EXCEPT ![r] = context[creator]]
    /\ Goto(r, "accepted")
    /\ UNCHANGED <<id, states, handed, lines, steps>>

\* A header that comes twice is no candidate.
Candidate(r) == IF Len(received[r]) = 1 THEN Head(received[r]) ELSE None

\* ValidatedRequestIdResolver.resolve.
Resolved(r) == IF Candidate(r) \in SafeIds THEN Candidate(r) ELSE Generator[r]

\* Mutant: the state dict of the scope is written as it is.
SharedDict(r) == Server

\* The dict the application of r finds in its scope: a copy for each request.
StateDict(r) == r

\* Mutant: the context the task was created with is kept.
KeptOnEntry(ctx) == ctx

\* clear_contextvars before binding.
ClearedOnEntry(ctx) == Empty

\* Up to the first await of the application: id, scope, context, "started".
Enter(r) ==
    /\ pc[r] = "accepted"
    /\ IF Resolved(r) \notin SafeIds
       THEN /\ Goto(r, "refused")   \* ValueError, nothing was bound
            /\ UNCHANGED <<id, context, states, lines>>
       ELSE /\ id' = [id EXCEPT ![r] = Resolved(r)]
            /\ states' = [states EXCEPT ![StateDict(r)] = Resolved(r)]
            /\ context' = [context EXCEPT ![r] =
                             [ClearedOnEntry(@) EXCEPT !.id = Resolved(r)]]
            /\ Write(r, context'[r])
            /\ Goto(r, "app")
    /\ UNCHANGED <<received, handed, steps>>

\* A scope of another type goes to the application as it came.
Pass(r) ==
    /\ pc[r] = "accepted"
    /\ Goto(r, "passed")
    /\ UNCHANGED <<received, id, context, states, handed, lines, steps>>

\* The application binds a field of its own, or writes a line.
BindField(r) ==
    /\ pc[r] = "app" /\ steps[r] < MaxSteps
    /\ context' = [context EXCEPT ![r].fields = @ \cup {r}]
    /\ steps' = [steps EXCEPT ![r] = @ + 1]
    /\ UNCHANGED <<pc, received, id, states, handed, lines>>

WriteLine(r) ==
    /\ pc[r] = "app" /\ steps[r] < MaxSteps
    /\ Write(r, context[r])
    /\ steps' = [steps EXCEPT ![r] = @ + 1]
    /\ UNCHANGED <<pc, received, id, context, states, handed>>

\* Mutant: the header is added to those the application set.
AddedHeader(values, value) == Append(values, value)

\* MutableHeaders.__setitem__: one value, whatever was there.
SetHeader(values, value) == <<value>>

\* send_with_request_id of a response start whose headers may name an id already.
\* A start without headers raises and hands nothing over: RequestLifecycle.
SendStart(r) ==
    /\ pc[r] = "app" /\ handed[r] = <<>>
    /\ \E values \in Received :
         handed' = [handed EXCEPT ![r] = SetHeader(values, id[r])]
    /\ UNCHANGED <<pc, received, id, context, states, lines, steps>>

\* bound_contextvars resets the id, and clear_contextvars all the rest.
ClearedOnExit(ctx) == Empty

\* The application ends in any way: "finished", and the context is left.
Exit(r) ==
    /\ pc[r] = "app"
    /\ Write(r, context[r])
    /\ context' = [context EXCEPT ![r] = ClearedOnExit(@)]
    /\ Goto(r, "done")
    /\ UNCHANGED <<received, id, states, handed, steps>>

Served == /\ \A r \in Requests : pc[r] \in {"done", "passed", "refused"}
          /\ UNCHANGED vars

Next ==
    \/ \E r \in Requests :
         \/ \E creator \in Creators : Accept(r, creator)
         \/ Enter(r) \/ Pass(r)
         \/ BindField(r) \/ WriteLine(r) \/ SendStart(r) \/ Exit(r)
    \/ Served

Spec == Init /\ [][Next]_vars
------------------------------------------------------------------------------
(* Properties *)

InApp(r) == pc[r] = "app"

\* While a request is served, its context holds its id and no field of another
\* request, whatever was bound in the task that created its own, and so do the
\* lines it writes (StructlogRequestContext.bind).
OwnContext(r, ctx) == ctx.id = id[r] /\ ctx.fields \subseteq {r}

LinesOwn ==
    /\ \A r \in Requests : InApp(r) => OwnContext(r, context[r])
    /\ \A line \in lines : OwnContext(line.by, line.context)

\* A request that was served leaves nothing in its task for what the server runs
\* there next, the field its application bound included ("always clear").
ContextLeftClean == \A r \in Requests : pc[r] = "done" => context[r] = Empty

\* The application of a request reads the id of this request from its scope,
\* while others are served; the dict the server hands to all stays as it is
\* (RequestIdMiddleware._copy_scope).
StatesApart ==
    /\ \A r \in Requests : InApp(r) => states[StateDict(r)] = id[r]
    /\ states[Server] = None

\* A client gets one id back, and it is the one its request was logged under,
\* whatever the application put in the header.
AnswerNamed ==
    \A r \in Requests : handed[r] # <<>> =>
      /\ handed[r] = <<id[r]>>
      /\ \E line \in lines : line.by = r /\ line.context.id = handed[r][1]

\* Two requests share an id only if one of them asked for just that one: the id
\* of a request that did not is its own (the policy of request_id_policy.py).
SharedOnlyIfAsked ==
    \A q, r \in Requests :
      q # r /\ id[q] # None /\ id[q] = id[r]
        => received[q] = <<id[q]>> \/ received[r] = <<id[r]>>
==============================================================================
