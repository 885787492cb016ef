----------------------- MODULE RequestCorrelationProofs -----------------------
(***************************************************************************)
(* Proofs about RequestCorrelation, for any number of requests served in   *)
(* tasks created anywhere, any headers and any policy of safe ids.         *)
(***************************************************************************)
EXTENDS RequestCorrelation, TLAPS

CorrelationTypes ==
    /\ pc \in [Requests -> {"idle", "accepted", "app", "done", "passed", "refused"}]
    /\ received \in [Requests -> Seq(Ids)]
    /\ id \in [Requests -> Ids \cup {None}]
    /\ context \in [Tasks -> Context]
    /\ states \in [Tasks -> Ids \cup {None}]
    /\ handed \in [Requests -> Seq(Ids)]
    /\ lines \subseteq [by : Requests, context : Context]
    /\ steps \in [Requests -> Nat]

Entered(r) == pc[r] \in {"app", "done"}

\* What holds of one request: its id is the resolved one from its entry on, and its
\* "started" line carries it.
RequestOK(r) ==
    /\ id[r] # None <=> Entered(r)
    /\ Entered(r) => /\ id[r] = Resolved(r)
                     /\ \E line \in lines : line.by = r /\ line.context.id = id[r]
    /\ InApp(r) => OwnContext(r, context[r]) /\ states[r] = id[r]
    /\ pc[r] = "done" => context[r] = Empty
    /\ handed[r] # <<>> => Entered(r) /\ handed[r] = <<id[r]>>

CorrelationInv ==
    /\ CorrelationTypes
    /\ \A r \in Requests : RequestOK(r)
    /\ \A line \in lines : Entered(line.by) /\ OwnContext(line.by, line.context)
    /\ states[Server] = None

USE CorrelationAssumption DEF InApp, Entered

LEMMA InitCorrelation == Init => CorrelationInv
  BY DEF Init, CorrelationInv, CorrelationTypes, RequestOK, Context, Empty, Tasks

\* Either the header names a safe id alone, or the id is the generated one.
LEMMA ResolvedIsSafe ==
    ASSUME CorrelationTypes, NEW r \in Requests
    PROVE  /\ Resolved(r) \in Ids
           /\ received[r] = <<Resolved(r)>> \/ Resolved(r) = Generator[r]
<1>1. CASE Len(received[r]) = 1
  <2>1. received[r] = <<Head(received[r])>>  BY <1>1 DEF CorrelationTypes
  <2>. QED  BY <1>1, <2>1 DEF Resolved, Candidate
<1>2. CASE Len(received[r]) # 1  BY <1>2 DEF Resolved, Candidate
<1>. QED  BY <1>1, <1>2

Serve(r) == \/ \E creator \in Creators : Accept(r, creator)
            \/ Enter(r) \/ Pass(r)
            \/ BindField(r) \/ WriteLine(r) \/ SendStart(r) \/ Exit(r)

\* A request touches nothing of another one, and takes back no line.
LEMMA OthersApart ==
    ASSUME CorrelationInv, NEW r \in Requests, Serve(r), NEW q \in Requests, q # r
    PROVE  /\ pc'[q] = pc[q] /\ received'[q] = received[q] /\ id'[q] = id[q]
           /\ context'[q] = context[q] /\ states'[q] = states[q]
           /\ handed'[q] = handed[q] /\ lines \subseteq lines'
  BY DEF CorrelationInv, CorrelationTypes, Serve, Accept, Enter, Pass, BindField, WriteLine,
         SendStart, Exit, Goto, Write, StateDict, Tasks

LEMMA TypesStep ==
    ASSUME CorrelationInv, NEW r \in Requests, Serve(r)
    PROVE  CorrelationTypes' /\ states'[Server] = None
<1>. USE DEF CorrelationInv, CorrelationTypes, Tasks
<1>0. r \in Tasks /\ Server \in Tasks /\ Creators \subseteq Tasks /\ Empty \in Context
  BY DEF Creators, Empty, Context
<1>1. ASSUME NEW creator \in Creators, Accept(r, creator)
      PROVE  CorrelationTypes' /\ states'[Server] = None
  BY <1>0, <1>1 DEF Accept, Goto
<1>2. CASE Enter(r)
  <2>1. CASE Resolved(r) \notin SafeIds  BY <1>2, <2>1 DEF Enter, Goto
  <2>2. CASE Resolved(r) \in SafeIds
    <3>1. Resolved(r) \in Ids  BY ResolvedIsSafe
    <3>2. [Empty EXCEPT !.id = Resolved(r)] \in Context  BY <3>1 DEF Empty, Context
    <3>3. PICK name : name = Resolved(r)  OBVIOUS
    <3>4. PICK ctx \in Context : ctx = [Empty EXCEPT !.id = Resolved(r)]  BY <3>2
    <3>5. /\ id' = [id EXCEPT ![r] = name] /\ states' = [states EXCEPT ![r] = name]
          /\ context' = [context EXCEPT ![r] = ctx]
          /\ lines' = lines \cup {[by |-> r, context |-> context'[r]]}
          /\ pc' = [pc EXCEPT ![r] = "app"] /\ UNCHANGED <<received, handed, steps>>
      BY <1>2, <2>2, <3>3, <3>4 DEF Enter, StateDict, ClearedOnEntry, Write, Goto
    <3>6. context'[r] = ctx  BY <1>0, <3>5
    <3>7. lines' \subseteq [by : Requests, context : Context]  BY <3>5, <3>6
    <3>. QED  BY <1>0, <3>1, <3>3, <3>5, <3>7
  <2>. QED  BY <2>1, <2>2
<1>3. CASE Pass(r)  BY <1>3 DEF Pass, Goto
<1>4. CASE BindField(r)
  <2>1. [context[r] EXCEPT !.fields = @ \cup {r}] \in Context  BY <1>0 DEF Context
  <2>2. context' = [context EXCEPT ![r] =
                      [context[r] EXCEPT !.fields = context[r].fields \cup {r}]]
    BY <1>4 DEF BindField
  <2>. QED  BY <1>0, <1>4, <2>1, <2>2 DEF BindField
<1>5. CASE WriteLine(r)  BY <1>0, <1>5 DEF WriteLine, Write
<1>6. CASE SendStart(r)
  <2>1. id[r] \in Ids  BY <1>6 DEF SendStart, RequestOK
  <2>. QED  BY <1>6, <2>1 DEF SendStart, SetHeader
<1>7. CASE Exit(r)  BY <1>0, <1>7 DEF Exit, Write, ClearedOnExit, Goto
<1>. QED  BY <1>1, <1>2, <1>3, <1>4, <1>5, <1>6, <1>7 DEF Serve

\* A request that has not been entered knows no id yet.
LEMMA StillOutside ==
    ASSUME NEW r \in Requests, id'[r] = None, handed'[r] = <<>>,
           pc'[r] \notin {"app", "done"}
    PROVE  RequestOK(r)'
  BY DEF RequestOK

\* One that has keeps its id, and says so.
LEMMA StillInside ==
    ASSUME CorrelationInv, NEW r \in Requests, Entered(r), received'[r] = received[r],
           id'[r] = id[r], lines \subseteq lines', states'[r] = states[r],
           handed'[r] \in {handed[r], <<id[r]>>},
           \/ pc'[r] = "app" /\ pc[r] = "app" /\ OwnContext(r, context'[r])
           \/ pc'[r] = "done" /\ context'[r] = Empty
    PROVE  RequestOK(r)'
<1>1. RequestOK(r)  BY DEF CorrelationInv
<1>2. Resolved(r)' = Resolved(r)  BY DEF Resolved, Candidate
<1>3. OwnContext(r, context[r])' <=> OwnContext(r, context'[r])  BY DEF OwnContext
<1>4. \E line \in lines' : line.by = r /\ line.context.id = id'[r]
  BY <1>1 DEF RequestOK
<1>. QED  BY <1>1, <1>2, <1>3, <1>4 DEF RequestOK

LEMMA RequestStep ==
    ASSUME CorrelationInv, NEW r \in Requests, Serve(r)
    PROVE  /\ RequestOK(r)'
           /\ \A line \in lines' \ lines :
                line.by = r /\ Entered(r)' /\ OwnContext(r, line.context)'
           /\ lines \subseteq lines'
           /\ Entered(r) => Entered(r)' /\ id'[r] = id[r]
<1>0. r \in Tasks  BY DEF Tasks
<1>. DEFINE Lines == \A line \in lines' \ lines :
                       line.by = r /\ Entered(r)' /\ OwnContext(r, line.context)'
<1>t. CorrelationTypes /\ RequestOK(r)  BY DEF CorrelationInv
<1>1. ASSUME NEW creator \in Creators, Accept(r, creator)
      PROVE  RequestOK(r)' /\ lines' = lines /\ ~Entered(r)
  <2>1. /\ pc[r] = "idle" /\ pc'[r] = "accepted"
        /\ UNCHANGED <<id, handed, lines>>
    BY <1>1, <1>t DEF Accept, Goto, CorrelationTypes
  <2>2. id[r] = None /\ handed[r] = <<>>  BY <1>t, <2>1 DEF RequestOK
  <2>. QED  BY <2>1, <2>2, StillOutside
<1>2. CASE Enter(r)
  <2>0. /\ pc[r] = "accepted" /\ UNCHANGED <<received, handed>>
        /\ id[r] = None /\ handed[r] = <<>>
    BY <1>2, <1>t DEF Enter, RequestOK
  <2>1. CASE Resolved(r) \notin SafeIds
    <3>1. pc'[r] = "refused" /\ UNCHANGED <<id, lines>>
      BY <1>2, <1>t, <2>1 DEF Enter, Goto, CorrelationTypes
    <3>. QED  BY <2>0, <3>1, StillOutside
  <2>2. CASE Resolved(r) \in SafeIds
    <3>1. PICK name : name = Resolved(r)  OBVIOUS
    <3>2. PICK ctx : ctx = [Empty EXCEPT !.id = Resolved(r)]  OBVIOUS
    <3>3. ctx.id = name /\ ctx.fields = {}  BY <3>1, <3>2 DEF Empty
    <3>4. /\ id' = [id EXCEPT ![r] = name] /\ states' = [states EXCEPT ![r] = name]
          /\ context' = [context EXCEPT ![r] = ctx]
          /\ lines' = lines \cup {[by |-> r, context |-> context'[r]]}
          /\ pc' = [pc EXCEPT ![r] = "app"]
      BY <1>2, <2>2, <3>1, <3>2 DEF Enter, StateDict, ClearedOnEntry, Write, Goto
    <3>5. /\ id'[r] = name /\ states'[r] = name /\ pc'[r] = "app" /\ context'[r] = ctx
          /\ handed'[r] = <<>>
      BY <1>0, <1>t, <2>0, <3>4 DEF CorrelationTypes
    <3>6. Resolved(r)' = name  BY <2>0, <3>1 DEF Resolved, Candidate
    <3>7. name # None  BY <1>t, <3>1, ResolvedIsSafe
    <3>8. PICK line : line = [by |-> r, context |-> ctx]  OBVIOUS
    <3>9. line.by = r /\ line.context = ctx  BY <3>8
    <3>10. lines' = lines \cup {line}  BY <3>4, <3>5, <3>8
    <3>11. Lines  BY <3>3, <3>5, <3>9, <3>10 DEF OwnContext
    <3>12. OwnContext(r, context[r])'  BY <3>3, <3>5 DEF OwnContext
    <3>13. \E l \in lines' : l.by = r /\ l.context.id = id'[r]
      BY <3>3, <3>5, <3>9, <3>10
    <3>14. RequestOK(r)'
      BY <3>5, <3>6, <3>7, <3>12, <3>13 DEF RequestOK
    <3>. QED  BY <2>0, <3>5, <3>10, <3>11, <3>14
  <2>. QED  BY <2>1, <2>2
<1>3. CASE Pass(r)
  <2>1. /\ pc[r] = "accepted" /\ pc'[r] = "passed"
        /\ UNCHANGED <<id, handed, lines>>
    BY <1>3, <1>t DEF Pass, Goto, CorrelationTypes
  <2>2. id[r] = None /\ handed[r] = <<>>  BY <1>t, <2>1 DEF RequestOK
  <2>. QED  BY <2>1, <2>2, StillOutside
<1>4. CASE BindField(r)
  <2>1. /\ context' = [context EXCEPT ![r] =
                         [context[r] EXCEPT !.fields = context[r].fields \cup {r}]]
        /\ UNCHANGED <<pc, received, id, states, handed, lines>> /\ pc[r] = "app"
    BY <1>4 DEF BindField
  <2>2. context'[r].id = context[r].id /\ context'[r].fields = context[r].fields \cup {r}
    BY <1>0, <1>t, <2>1 DEF CorrelationTypes, Context
  <2>3. OwnContext(r, context'[r])  BY <1>t, <2>1, <2>2 DEF RequestOK, OwnContext
  <2>. QED  BY <2>1, <2>3, StillInside
<1>5. CASE WriteLine(r)
  <2>1. /\ lines' = lines \cup {[by |-> r, context |-> context[r]]}
        /\ UNCHANGED <<pc, received, id, context, states, handed>> /\ pc[r] = "app"
    BY <1>5 DEF WriteLine, Write
  <2>2. OwnContext(r, context'[r])  BY <1>t, <2>1 DEF RequestOK
  <2>3. Lines  BY <2>1, <2>2 DEF OwnContext
  <2>. QED  BY <2>1, <2>2, <2>3, StillInside
<1>6. CASE SendStart(r)
  <2>1. /\ handed' = [handed EXCEPT ![r] = <<id[r]>>]
        /\ UNCHANGED <<pc, received, id, context, states, lines>> /\ pc[r] = "app"
    BY <1>6 DEF SendStart, SetHeader
  <2>2. handed'[r] = <<id[r]>>  BY <1>t, <2>1 DEF CorrelationTypes
  <2>3. OwnContext(r, context'[r])  BY <1>t, <2>1 DEF RequestOK
  <2>. QED  BY <2>1, <2>2, <2>3, StillInside
<1>7. CASE Exit(r)
  <2>1. /\ lines' = lines \cup {[by |-> r, context |-> context[r]]}
        /\ context' = [context EXCEPT ![r] = Empty]
        /\ pc' = [pc EXCEPT ![r] = "done"]
        /\ UNCHANGED <<received, id, states, handed>> /\ pc[r] = "app"
    BY <1>7 DEF Exit, Write, ClearedOnExit, Goto
  <2>2. context'[r] = Empty /\ pc'[r] = "done"
    BY <1>0, <1>t, <2>1 DEF CorrelationTypes
  <2>3. OwnContext(r, context[r])  BY <1>t, <2>1 DEF RequestOK
  <2>4. Lines  BY <2>1, <2>2, <2>3 DEF OwnContext
  <2>. QED  BY <2>1, <2>2, <2>4, StillInside
<1>. QED  BY <1>1, <1>2, <1>3, <1>4, <1>5, <1>6, <1>7 DEF Serve

LEMMA CorrelationStep == CorrelationInv /\ [Next]_vars => CorrelationInv'
<1>. SUFFICES ASSUME CorrelationInv, [Next]_vars PROVE CorrelationInv'
  OBVIOUS
<1>1. ASSUME NEW r \in Requests, Serve(r) PROVE CorrelationInv'
  <2>1. ASSUME NEW q \in Requests, q # r PROVE RequestOK(q)'
    BY <1>1, <2>1, OthersApart
    DEF CorrelationInv, RequestOK, OwnContext, Resolved, Candidate
  <2>2. \A q \in Requests : Entered(q) => Entered(q)' /\ id'[q] = id[q]
    BY <1>1, OthersApart, RequestStep
  <2>3. \A line \in lines : line.by \in Requests
    BY DEF CorrelationInv, CorrelationTypes
  <2>4. \A line \in lines' : Entered(line.by)' /\ OwnContext(line.by, line.context)'
    <3>. SUFFICES ASSUME NEW line \in lines'
                  PROVE  Entered(line.by)' /\ OwnContext(line.by, line.context)'
      OBVIOUS
    <3>1. CASE line \in lines
      BY <2>2, <2>3, <3>1 DEF CorrelationInv, OwnContext
    <3>2. CASE line \notin lines  BY <1>1, <3>2, RequestStep DEF OwnContext
    <3>. QED  BY <3>1, <3>2
  <2>. QED  BY <1>1, <2>1, <2>4, RequestStep, TypesStep DEF CorrelationInv
<1>2. CASE Served \/ UNCHANGED vars
  BY <1>2 DEF Served, vars, CorrelationInv, CorrelationTypes, RequestOK, OwnContext, Resolved,
         Candidate
<1>. QED  BY <1>1, <1>2 DEF Next, Serve

LEMMA CorrelationInvariant == Spec => []CorrelationInv
  BY InitCorrelation, CorrelationStep, PTL DEF Spec

\* Every line of a request names this request and nothing of another one, wherever
\* its task was created, and a served request leaves a clean context.
THEOREM ContextsCorrect == Spec => [](LinesOwn /\ ContextLeftClean)
<1>1. CorrelationInv => LinesOwn /\ ContextLeftClean
  BY DEF CorrelationInv, RequestOK, LinesOwn, ContextLeftClean
<1>. QED  BY <1>1, CorrelationInvariant, PTL

\* What the application reads from its scope is its own request's id.
THEOREM StatesCorrect == Spec => []StatesApart
<1>1. CorrelationInv => StatesApart
  BY DEF CorrelationInv, RequestOK, StatesApart, StateDict
<1>. QED  BY <1>1, CorrelationInvariant, PTL

\* The client and the log of a request are told one id.
THEOREM IdsCorrect == Spec => []AnswerNamed
<1>1. CorrelationInv => AnswerNamed
  <2>. SUFFICES ASSUME CorrelationInv, NEW r \in Requests, handed[r] # <<>>
                PROVE  /\ handed[r] = <<id[r]>>
                       /\ \E line \in lines : line.by = r /\ line.context.id = handed[r][1]
    BY DEF AnswerNamed
  <2>1. handed[r] = <<id[r]>> /\ \E line \in lines : line.by = r /\ line.context.id = id[r]
    BY DEF CorrelationInv, RequestOK
  <2>2. handed[r][1] = id[r]  BY <2>1
  <2>. QED  BY <2>1, <2>2
<1>. QED  BY <1>1, CorrelationInvariant, PTL

\* An id is shared only with a request that asked for it.
THEOREM SharingCorrect == Spec => []SharedOnlyIfAsked
<1>1. CorrelationInv => SharedOnlyIfAsked
  <2>. SUFFICES ASSUME CorrelationInv, NEW q \in Requests, NEW r \in Requests, q # r,
                       id[q] # None, id[q] = id[r]
                PROVE  received[q] = <<id[q]>> \/ received[r] = <<id[r]>>
    BY DEF SharedOnlyIfAsked
  <2>1. id[q] = Resolved(q) /\ id[r] = Resolved(r)  BY DEF CorrelationInv, RequestOK
  <2>2. received[q] = <<Resolved(q)>> \/ Resolved(q) = Generator[q]
    BY ResolvedIsSafe DEF CorrelationInv
  <2>3. received[r] = <<Resolved(r)>> \/ Resolved(r) = Generator[r]
    BY ResolvedIsSafe DEF CorrelationInv
  <2>. QED  BY <2>1, <2>2, <2>3
<1>. QED  BY <1>1, CorrelationInvariant, PTL
==============================================================================
