------------------------- MODULE DialogCreationProofs -------------------------
(***************************************************************************)
(* Proofs about DialogCreation and DialogRecovery, for every set of users, *)
(* calls and requests: one canonical dialog per key, projections of        *)
(* nothing else, and the directory they implement.                         *)
(***************************************************************************)
EXTENDS DialogRecovery, TLAPS

USE DialogsAssumption DEF WithSelf

LEMMA ParticipantsAreKey ==
    ASSUME NEW r \in Request
    PROVE  Participants(r) \in Keys
<1>1. CASE r.kind = "saved"
  <2>1. r.actor \in Users  BY DEF Request
  <2>. QED  BY <1>1, <2>1 DEF Participants, Keys
<1>2. CASE r.kind # "saved"
  <2>1. r.actor \in Users /\ r.peer \in Users  BY <1>2 DEF Request
  <2>. QED  BY <1>2, <2>1 DEF Participants, Keys
<1>. QED  BY <1>1, <1>2

LEMMA KeyParts ==
    ASSUME NEW k \in Keys
    PROVE  /\ Len(k) \in 1..2 /\ DOMAIN k = 1..Len(k)
           /\ \A i \in 1..Len(k) : k[i] \in Users
           /\ UsersOf(k) = {k[i] : i \in 1..Len(k)}
<1>1. CASE k \in Users \X Users
  <2>1. k = <<k[1], k[2]>> /\ k[1] \in Users /\ k[2] \in Users  BY <1>1
  <2>2. Len(k) = 2 /\ DOMAIN k = 1..2  BY <2>1
  <2>. QED  BY <2>1, <2>2 DEF UsersOf
<1>2. CASE k \in {<<u>> : u \in Users}
  <2>1. PICK u \in Users : k = <<u>>  BY <1>2
  <2>2. Len(k) = 1 /\ DOMAIN k = 1..1 /\ k[1] = u  BY <2>1
  <2>. QED  BY <2>2 DEF UsersOf
<1>. QED  BY <1>1, <1>2 DEF Keys

LEMMA KeyType ==
    ASSUME request \in [Calls -> Request], NEW c \in Calls
    PROVE  Key(c) \in Keys
  BY ParticipantsAreKey DEF Key
------------------------------------------------------------------------------
(* The invariant *)

Running(c) == pc[c] \in {"lookup", "verify", "create", "project"}

\* What holds of one call: where it is, what it knows by then of its users, and
\* what it may have told its caller.
CallOK(c) ==
    /\ pc[c] = "lookup" => turn[c] = 1
    /\ pc[c] \notin {"lookup", "done"} => ~WithSelf(c)
    /\ Running(c) => status[c] = "pending" /\ reply[c] = None
    /\ pc[c] = "limbo" => status[c] = "Unavailable" /\ reply[c] = None
    /\ pc[c] = "verify" => \A i \in 1..(turn[c] - 1) : Key(c)[i] \in registered
    /\ pc[c] \in {"create", "limbo"} => UsersOf(Key(c)) \subseteq registered
    /\ pc[c] = "project" =>
         \A i \in 1..(turn[c] - 1) :
           canonical[c] \in cards[Key(c)[i]] \cap lists[Key(c)[i]]
    /\ created[c] => canonical[c] # None
    /\ status[c] = "ok" => reply[c] # None

StoredUnderKey == \A k \in Keys : dialogs[k] # None => dialogs[k].participants = k

CreationInv ==
    /\ TypeOK
    /\ \A c \in Calls : CallOK(c)
    /\ StoredUnderKey
    /\ OneWinner /\ ProjectionsCanonical /\ AnsweredProjected /\ OnlyRegistered

LEMMA InitCreation == Init => CreationInv
<1>. SUFFICES ASSUME Init PROVE CreationInv
  OBVIOUS
<1>1. TypeOK
  <2>1. \A c \in Calls : Len(Key(c)) >= 1
    <3>. SUFFICES ASSUME NEW c \in Calls PROVE Len(Key(c)) >= 1
      OBVIOUS
    <3>1. request \in [Calls -> Request]  BY DEF Init
    <3>. QED  BY <3>1, KeyType, KeyParts
  <2>. QED  BY <2>1 DEF Init, TypeOK
<1>. QED  BY <1>1 DEF Init, CreationInv, CallOK, Running, StoredUnderKey, OneWinner,
            ProjectionsCanonical, AnsweredProjected, OnlyRegistered

CallStep(c) == \/ Step(c) \/ Unavailable(c) \/ LoseCreate(c) \/ Land(c)
               \/ LoseProjection(c) \/ Repeat(c)

\* A call's step touches no local of another call.
LEMMA OthersKept ==
    ASSUME CreationInv, NEW c \in Calls, CallStep(c), NEW d \in Calls, d # c
    PROVE  /\ pc'[d] = pc[d] /\ turn'[d] = turn[d] /\ candidate'[d] = candidate[d]
           /\ canonical'[d] = canonical[d] /\ created'[d] = created[d]
           /\ status'[d] = status[d] /\ reply'[d] = reply[d]
  BY DEF CreationInv, TypeOK, CallStep, Step, Lookup, Verify, Create, Project, Unavailable,
         LoseCreate, Land, LoseProjection, Repeat, Finish, Goto, Adopt, locals, stores

\* The stores only grow, and requests stay.
LEMMA StoresGrow ==
    ASSUME CreationInv, RepeatedNext
    PROVE  /\ request' = request
           /\ registered \subseteq registered'
           /\ \A k \in Keys : dialogs[k] # None => dialogs'[k] = dialogs[k]
           /\ \A u \in Users : cards[u] \subseteq cards'[u] /\ lists[u] \subseteq lists'[u]
<1>. USE DEF CreationInv, TypeOK
<1>1. ASSUME NEW c \in Calls, CallStep(c)
      PROVE  /\ request' = request
             /\ registered \subseteq registered'
             /\ \A k \in Keys : dialogs[k] # None => dialogs'[k] = dialogs[k]
             /\ \A u \in Users : cards[u] \subseteq cards'[u] /\ lists[u] \subseteq lists'[u]
  <2>0. Key(c) \in Keys  BY KeyType
  <2>1. CASE Lookup(c)  BY <2>1 DEF Lookup, stores
  <2>2. CASE Verify(c)  BY <2>2 DEF Verify, stores
  <2>3. CASE Create(c)  BY <2>0, <2>3 DEF Create, Winner
  <2>4. CASE Project(c)
    <3>1. /\ cards' = [cards EXCEPT ![Member(c)] = @ \cup {canonical[c]}]
          /\ lists' = [lists EXCEPT ![Member(c)] = @ \cup {canonical[c]}]
          /\ UNCHANGED <<dialogs, registered, request>>
      BY <2>4 DEF Project
    <3>. QED  BY <3>1
  <2>5. CASE LoseProjection(c)
    <3>1. PICK card, list \in {{}, {canonical[c]}} :
            /\ cards' = [cards EXCEPT ![Member(c)] = @ \cup card]
            /\ lists' = [lists EXCEPT ![Member(c)] = @ \cup list]
      BY <2>5 DEF LoseProjection
    <3>2. UNCHANGED <<dialogs, registered, request>>  BY <2>5 DEF LoseProjection
    <3>. QED  BY <3>1, <3>2
  <2>6. CASE Unavailable(c) \/ LoseCreate(c) \/ Repeat(c)
    BY <2>6 DEF Unavailable, LoseCreate, Repeat, stores
  <2>7. CASE Land(c)  BY <2>0, <2>7 DEF Land, Winner
  <2>. QED  BY <1>1, <2>1, <2>2, <2>3, <2>4, <2>5, <2>6, <2>7 DEF CallStep, Step
<1>. QED  BY <1>1 DEF RepeatedNext, Next, CallStep, Register, Settled, vars, stores
------------------------------------------------------------------------------
(* Types *)

\* The part of TypeOK about one call.
CallTyped(c) ==
    /\ turn[c] <= Len(Key(c))
    /\ pc[c] \in {"create", "limbo"} =>
         candidate[c] # None /\ candidate[c].participants = Key(c)
    /\ pc[c] = "project" => canonical[c] # None

LEMMA MemberOfKey ==
    ASSUME TypeOK, NEW c \in Calls
    PROVE  /\ Key(c) \in Keys /\ Len(Key(c)) \in 1..2
           /\ turn[c] \in 1..Len(Key(c))
           /\ Member(c) \in Users /\ Member(c) \in UsersOf(Key(c))
<1>1. Key(c) \in Keys  BY KeyType DEF TypeOK
<1>2. Len(Key(c)) \in 1..2 /\ turn[c] \in 1..2 /\ turn[c] <= Len(Key(c))
  BY <1>1, KeyParts DEF TypeOK
<1>. QED  BY <1>1, <1>2, KeyParts DEF Member

LEMMA NextTurn ==
    ASSUME NEW n \in 1..2, NEW t \in 1..n, t # n
    PROVE  t + 1 \in 1..2 /\ t + 1 <= n
  OBVIOUS

LEMMA CallTypeStep ==
    ASSUME CreationInv, NEW c \in Calls, CallStep(c)
    PROVE  TypeOK'
<1>. USE DEF Errors
<1>0. TypeOK  BY DEF CreationInv
<1>1. /\ Key(c) \in Keys /\ Len(Key(c)) \in 1..2 /\ turn[c] \in 1..Len(Key(c))
      /\ Member(c) \in Users
  BY <1>0, MemberOfKey
<1>2. \A d \in Calls : CallTyped(d)  BY <1>0 DEF TypeOK, CallTyped
<1>3. \A d \in Calls : Key(d)' = Key(d)
  BY StoresGrow DEF RepeatedNext, Next, CallStep, Key
<1>. DEFINE Values ==
       /\ dialogs \in [Keys -> Dialog \cup {None}]
       /\ cards \in [Users -> SUBSET Dialog] /\ lists \in [Users -> SUBSET Dialog]
       /\ registered \in SUBSET Users
       /\ request \in [Calls -> Request]
       /\ pc \in [Calls -> {"lookup", "verify", "create", "project", "limbo", "done"}]
       /\ turn \in [Calls -> 1..2]
       /\ candidate \in [Calls -> Dialog \cup {None}]
       /\ canonical \in [Calls -> Dialog \cup {None}]
       /\ created \in [Calls -> BOOLEAN]
       /\ status \in [Calls -> {"pending", "ok"} \cup Errors]
       /\ reply \in [Calls -> Dialog \cup {None}]
<1>4. Values  BY <1>0 DEF TypeOK
<1>5. Values' /\ CallTyped(c)'
  <2>1. CASE Lookup(c)
    <3>1. CASE WithSelf(c)
      BY <1>1, <1>2, <1>3, <1>4, <2>1, <3>1
      DEF Lookup, stores, locals, Finish, Goto, CallTyped
    <3>2. UNCHANGED <<dialogs, cards, lists, registered, request>>
      BY <2>1 DEF Lookup, stores
    <3>3. CASE /\ dialogs[Key(c)] # None /\ Adopt(c, dialogs[Key(c)], FALSE)
               /\ UNCHANGED candidate
      BY <1>1, <1>2, <1>3, <1>4, <3>2, <3>3 DEF Adopt, Goto, CallTyped
    <3>4. CASE Goto(c, "verify") /\ UNCHANGED <<locals, status, reply>>
      <4>1. UNCHANGED <<turn, candidate, canonical, created, status, reply>>
        BY <3>4 DEF locals
      <4>. QED  BY <1>1, <1>2, <1>3, <1>4, <3>2, <3>4, <4>1 DEF Goto, CallTyped
    <3>. QED  BY <2>1, <3>1, <3>3, <3>4 DEF Lookup
  <2>2. CASE Verify(c)
    <3>1. CASE Refused(c)
      BY <1>1, <1>2, <1>3, <1>4, <2>2, <3>1 DEF Verify, stores, locals, Finish, Goto, CallTyped
    <3>2. CASE ~Refused(c) /\ ~AtLast(c)
      <4>1. turn[c] + 1 \in 1..2 /\ turn[c] + 1 <= Len(Key(c))
        BY <1>1, <3>2, NextTurn DEF AtLast
      <4>. QED
        BY <1>1, <1>2, <1>3, <1>4, <2>2, <3>2, <4>1 DEF Verify, stores, CallTyped
    <3>3. CASE ~Refused(c) /\ AtLast(c)
      <4>1. PICK instant \in Clock :
              candidate' = [candidate EXCEPT ![c] =
                   [id |-> c, participants |-> Key(c), createdAt |-> instant]]
        BY <2>2, <3>3 DEF Verify
      <4>2. [id |-> c, participants |-> Key(c), createdAt |-> instant] \in Dialog
        BY <1>1 DEF Dialog
      <4>3. [id |-> c, participants |-> Key(c), createdAt |-> instant] # None
        BY <4>2, NoneAssumption
      <4>. QED
        BY <1>1, <1>2, <1>3, <1>4, <2>2, <3>3, <4>1, <4>2, <4>3
        DEF Verify, stores, Goto, CallTyped
    <3>. QED  BY <3>1, <3>2, <3>3
  <2>3. CASE Create(c)
    BY <1>1, <1>2, <1>3, <1>4, <2>3 DEF Create, Winner, Adopt, Goto, CallTyped
  <2>4. CASE Project(c)
    <3>1. canonical[c] \in Dialog  BY <1>2, <1>4, <2>4 DEF Project, CallTyped
    <3>2. CASE AtLast(c)
      BY <1>1, <1>2, <1>3, <1>4, <2>4, <3>1, <3>2 DEF Project, Finish, Goto, CallTyped
    <3>3. CASE ~AtLast(c)
      <4>1. turn[c] + 1 \in 1..2 /\ turn[c] + 1 <= Len(Key(c))
        BY <1>1, <3>3, NextTurn DEF AtLast
      <4>. QED
        BY <1>1, <1>2, <1>3, <1>4, <2>4, <3>1, <3>3, <4>1 DEF Project, CallTyped
    <3>. QED  BY <3>2, <3>3
  <2>5. CASE LoseProjection(c)
    <3>1. canonical[c] \in Dialog  BY <1>2, <1>4, <2>5 DEF LoseProjection, CallTyped
    <3>2. PICK card, list \in {{}, {canonical[c]}} :
            /\ cards' = [cards EXCEPT ![Member(c)] = @ \cup card]
            /\ lists' = [lists EXCEPT ![Member(c)] = @ \cup list]
      BY <2>5 DEF LoseProjection
    <3>3. /\ Finish(c, "DialogProjectionsIncomplete", canonical[c])
          /\ UNCHANGED <<dialogs, registered, request, turn, candidate, canonical, created>>
      BY <2>5 DEF LoseProjection, locals
    <3>4. cards' \in [Users -> SUBSET Dialog] /\ lists' \in [Users -> SUBSET Dialog]
      BY <1>1, <1>4, <3>1, <3>2
    <3>5. /\ pc' = [pc EXCEPT ![c] = "done"]
          /\ status' = [status EXCEPT ![c] = "DialogProjectionsIncomplete"]
          /\ reply' = [reply EXCEPT ![c] = canonical[c]]
      BY <3>3 DEF Finish, Goto
    <3>. QED
      BY <1>2, <1>3, <1>4, <3>1, <3>3, <3>4, <3>5 DEF CallTyped
  <2>6. CASE Unavailable(c)
    BY <1>1, <1>2, <1>3, <1>4, <2>6 DEF Unavailable, Finish, Goto, stores, locals, CallTyped
  <2>7. CASE LoseCreate(c)
    BY <1>1, <1>2, <1>3, <1>4, <2>7 DEF LoseCreate, Goto, stores, locals, CallTyped
  <2>8. CASE Land(c)
    BY <1>1, <1>2, <1>3, <1>4, <2>8 DEF Land, Winner, Goto, locals, CallTyped
  <2>9. CASE Repeat(c)
    BY <1>1, <1>2, <1>3, <1>4, <2>9 DEF Repeat, Goto, stores, CallTyped
  <2>. QED
    BY <2>1, <2>2, <2>3, <2>4, <2>5, <2>6, <2>7, <2>8, <2>9 DEF CallStep, Step
<1>6. ASSUME NEW d \in Calls, d # c PROVE CallTyped(d)'
  BY <1>2, <1>3, <1>6, OthersKept DEF CallTyped
<1>7. \A d \in Calls : CallTyped(d)'  BY <1>5, <1>6
<1>. QED  BY <1>5, <1>7 DEF TypeOK, CallTyped

LEMMA TypeStep ==
    ASSUME CreationInv, RepeatedNext
    PROVE  TypeOK'
<1>1. CASE \E c \in Calls : CallStep(c)  BY <1>1, CallTypeStep
<1>2. ASSUME NEW u \in Users, Register(u) PROVE TypeOK'
  BY <1>2 DEF CreationInv, TypeOK, Register, locals, Key
<1>3. CASE Settled
  BY <1>3 DEF CreationInv, TypeOK, Settled, vars, locals, stores, Key
<1>. QED  BY <1>1, <1>2, <1>3 DEF RepeatedNext, Next, CallStep
------------------------------------------------------------------------------
(* The calls *)

SameCall(d) ==
    /\ pc'[d] = pc[d] /\ turn'[d] = turn[d] /\ candidate'[d] = candidate[d]
    /\ canonical'[d] = canonical[d] /\ created'[d] = created[d]
    /\ status'[d] = status[d] /\ reply'[d] = reply[d]

\* What holds of a call is not disturbed by other calls, nor by registrations.
LEMMA RestingCall ==
    ASSUME CreationInv, RepeatedNext, NEW d \in Calls, SameCall(d)
    PROVE  CallOK(d)'
<1>1. CallOK(d) /\ TypeOK  BY DEF CreationInv
<1>2. Key(d)' = Key(d) /\ WithSelf(d)' = WithSelf(d)  BY StoresGrow DEF Key
<1>3. \A i \in 1..(turn[d] - 1) : Key(d)[i] \in Users
  <2>1. Key(d) \in Keys /\ Len(Key(d)) \in 1..2 /\ turn[d] \in 1..Len(Key(d))
    BY <1>1, MemberOfKey
  <2>. QED  BY <2>1, KeyParts
<1>4. /\ registered \subseteq registered'
      /\ \A u \in Users : cards[u] \subseteq cards'[u] /\ lists[u] \subseteq lists'[u]
  BY StoresGrow
<1>5. /\ pc'[d] = "verify" => \A i \in 1..(turn'[d] - 1) : Key(d)[i] \in registered'
      /\ pc'[d] = "project" =>
           \A i \in 1..(turn'[d] - 1) :
             canonical'[d] \in cards'[Key(d)[i]] \cap lists'[Key(d)[i]]
  BY <1>1, <1>3, <1>4 DEF CallOK, SameCall
<1>. QED  BY <1>1, <1>2, <1>4, <1>5 DEF CallOK, SameCall, Running

\* Both users of a direct dialog, or the one of a saved one, have been asked about.
LEMMA AllAsked ==
    ASSUME CreationInv, NEW c \in Calls, pc[c] = "verify", ~Refused(c), AtLast(c)
    PROVE  UsersOf(Key(c)) \subseteq registered
<1>1. CallOK(c) /\ TypeOK  BY DEF CreationInv
<1>2. Key(c) \in Keys /\ Len(Key(c)) \in 1..2 /\ turn[c] \in 1..Len(Key(c))
  BY <1>1, MemberOfKey
<1>3. \A i \in 1..Len(Key(c)) : i = turn[c] \/ i \in 1..(turn[c] - 1)
  BY <1>2 DEF AtLast
<1>4. \A i \in 1..Len(Key(c)) : Key(c)[i] \in registered
  BY <1>1, <1>3 DEF CallOK, Refused, Member
<1>. QED  BY <1>2, <1>4, KeyParts

LEMMA CallStepOK ==
    ASSUME CreationInv, NEW c \in Calls, CallStep(c)
    PROVE  CallOK(c)'
<1>1. CallOK(c) /\ TypeOK  BY DEF CreationInv
<1>2. Key(c)' = Key(c) /\ WithSelf(c)' = WithSelf(c)
  BY StoresGrow DEF Key, RepeatedNext, Next, CallStep
<1>3. Key(c) \in Keys /\ Len(Key(c)) \in 1..2 /\ turn[c] \in 1..Len(Key(c))
  BY <1>1, MemberOfKey
<1>4. CallTyped(c)  BY <1>1 DEF TypeOK, CallTyped
<1>. USE <1>1, <1>2 DEF CallOK, Running
<1>5. CASE Lookup(c)
  BY <1>5 DEF Lookup, TypeOK, stores, locals, Finish, Adopt, Goto
<1>6. CASE Verify(c)
  <2>1. pc[c] = "verify" /\ UNCHANGED <<dialogs, cards, lists, registered>>
    BY <1>6 DEF Verify, stores
  <2>2. CASE Refused(c)
    BY <1>6, <2>2 DEF Verify, TypeOK, stores, locals, Finish, Goto
  <2>3. CASE ~Refused(c) /\ ~AtLast(c)
    <3>1. \A i \in 1..((turn[c] + 1) - 1) : i = turn[c] \/ i \in 1..(turn[c] - 1)
      BY <1>3
    <3>2. \A i \in 1..((turn[c] + 1) - 1) : Key(c)[i] \in registered
      BY <2>1, <2>3, <3>1 DEF Refused, Member
    <3>3. turn' = [turn EXCEPT ![c] = @ + 1] /\ UNCHANGED <<pc, candidate, canonical, created, status, reply>>
      BY <1>6, <2>3 DEF Verify
    <3>4. turn'[c] = turn[c] + 1  BY <3>3 DEF TypeOK
    <3>. QED  BY <2>1, <3>2, <3>3, <3>4
  <2>4. CASE ~Refused(c) /\ AtLast(c)
    <3>1. UsersOf(Key(c)) \subseteq registered  BY <2>1, <2>4, AllAsked
    <3>2. Goto(c, "create") /\ UNCHANGED <<turn, canonical, created, status, reply>>
      BY <1>6, <2>4 DEF Verify
    <3>. QED  BY <2>1, <3>1, <3>2 DEF TypeOK, Goto
  <2>. QED  BY <2>2, <2>3, <2>4
<1>7. CASE Create(c)
  BY <1>4, <1>7 DEF Create, CallTyped, TypeOK, Winner, Adopt, Goto
<1>8. CASE Project(c)
  <2>1. pc[c] = "project" /\ UNCHANGED <<dialogs, registered, canonical, created>>
    BY <1>8 DEF Project
  <2>2. CASE AtLast(c)
    BY <1>4, <1>8, <2>1, <2>2 DEF Project, CallTyped, TypeOK, Finish, Goto
  <2>3. CASE ~AtLast(c)
    <3>1. turn'[c] = turn[c] + 1 /\ UNCHANGED <<pc, status, reply>>
      BY <1>8, <2>3 DEF Project, TypeOK
    <3>2. \A i \in 1..((turn[c] + 1) - 1) : i = turn[c] \/ i \in 1..(turn[c] - 1)
      BY <1>3
    <3>3. /\ cards' = [cards EXCEPT ![Member(c)] = @ \cup {canonical[c]}]
          /\ lists' = [lists EXCEPT ![Member(c)] = @ \cup {canonical[c]}]
      BY <1>8 DEF Project
    <3>4. \A i \in 1..Len(Key(c)) : Key(c)[i] \in Users  BY <1>3, KeyParts
    <3>5. ASSUME NEW i \in 1..((turn[c] + 1) - 1)
          PROVE  canonical[c] \in cards'[Key(c)[i]] \cap lists'[Key(c)[i]]
      <4>1. Key(c)[i] \in Users  BY <1>3, <3>4
      <4>2. CASE i = turn[c]  BY <3>3, <4>1, <4>2 DEF Member, TypeOK
      <4>3. CASE i \in 1..(turn[c] - 1)
        BY <2>1, <3>3, <4>1, <4>3 DEF TypeOK
      <4>. QED  BY <3>2, <4>2, <4>3
    <3>. QED  BY <2>1, <3>1, <3>5
  <2>. QED  BY <2>2, <2>3
<1>9. CASE LoseProjection(c)
  <2>1. /\ Finish(c, "DialogProjectionsIncomplete", canonical[c])
        /\ UNCHANGED <<dialogs, registered, canonical, created>> /\ pc[c] = "project"
    BY <1>9 DEF LoseProjection, locals
  <2>. QED  BY <2>1 DEF TypeOK, Finish, Goto
<1>10. CASE Unavailable(c)
  BY <1>10 DEF Unavailable, TypeOK, Finish, Goto, stores, locals
<1>11. CASE LoseCreate(c)
  BY <1>11 DEF LoseCreate, TypeOK, Goto, stores, locals
<1>12. CASE Land(c)
  BY <1>12 DEF Land, TypeOK, Goto, locals
<1>13. CASE Repeat(c)
  BY <1>13 DEF Repeat, TypeOK, Goto, stores
<1>. QED
  BY <1>5, <1>6, <1>7, <1>8, <1>9, <1>10, <1>11, <1>12, <1>13 DEF CallStep, Step
------------------------------------------------------------------------------
(* The stores *)

\* create_or_get, whether its answer arrives or not.
Stores(c) == dialogs' = [dialogs EXCEPT ![Key(c)] = Winner(c)]

LEMMA WinnerUnderKey ==
    ASSUME CreationInv, NEW c \in Calls, pc[c] \in {"create", "limbo"}
    PROVE  /\ Winner(c) # None /\ Winner(c).participants = Key(c)
           /\ UsersOf(Key(c)) \subseteq registered /\ Key(c) \in Keys
<1>1. Key(c) \in Keys  BY KeyType DEF CreationInv, TypeOK
<1>2. candidate[c] # None /\ candidate[c].participants = Key(c)
  BY DEF CreationInv, TypeOK
<1>. QED  BY <1>1, <1>2 DEF CreationInv, CallOK, StoredUnderKey, Winner

\* The canonical dialogs change only by create_or_get.
LEMMA DialogsEffect ==
    ASSUME CreationInv, RepeatedNext
    PROVE  \/ UNCHANGED dialogs
           \/ \E c \in Calls : /\ pc[c] \in {"create", "limbo"} /\ Stores(c)
                               /\ UNCHANGED <<cards, lists, registered>>
  BY DEF RepeatedNext, Next, Step, Lookup, Verify, Create, Project, Unavailable, LoseCreate,
         Land, LoseProjection, Repeat, Register, Settled, vars, stores, Stores

LEMMA DialogsStep ==
    ASSUME CreationInv, RepeatedNext
    PROVE  StoredUnderKey' /\ OnlyRegistered'
<1>1. registered \subseteq registered'  BY StoresGrow
<1>2. CASE UNCHANGED dialogs
  BY <1>1, <1>2 DEF CreationInv, StoredUnderKey, OnlyRegistered
<1>3. ASSUME NEW c \in Calls, pc[c] \in {"create", "limbo"}, Stores(c)
      PROVE  StoredUnderKey' /\ OnlyRegistered'
  BY <1>1, <1>3, WinnerUnderKey
  DEF CreationInv, TypeOK, StoredUnderKey, OnlyRegistered, Stores
<1>. QED  BY <1>2, <1>3, DialogsEffect

\* A projection is of the dialog the call was given, for the user it is at.
LEMMA ProjectionsEffect ==
    ASSUME CreationInv, RepeatedNext
    PROVE  \/ UNCHANGED <<cards, lists>>
           \/ \E c \in Calls :
                /\ canonical[c] # None /\ UNCHANGED dialogs
                /\ \A u \in Users : u # Member(c) =>
                     cards'[u] = cards[u] /\ lists'[u] = lists[u]
                /\ cards'[Member(c)] \subseteq cards[Member(c)] \cup {canonical[c]}
                /\ lists'[Member(c)] \subseteq lists[Member(c)] \cup {canonical[c]}
<1>. USE DEF CreationInv, TypeOK
<1>1. ASSUME NEW c \in Calls, Project(c)
      PROVE  /\ canonical[c] # None /\ UNCHANGED dialogs
             /\ \A u \in Users : u # Member(c) =>
                  cards'[u] = cards[u] /\ lists'[u] = lists[u]
             /\ cards'[Member(c)] \subseteq cards[Member(c)] \cup {canonical[c]}
             /\ lists'[Member(c)] \subseteq lists[Member(c)] \cup {canonical[c]}
  <2>1. Member(c) \in Users  BY MemberOfKey
  <2>. QED  BY <1>1, <2>1 DEF Project
<1>2. ASSUME NEW c \in Calls, LoseProjection(c)
      PROVE  /\ canonical[c] # None /\ UNCHANGED dialogs
             /\ \A u \in Users : u # Member(c) =>
                  cards'[u] = cards[u] /\ lists'[u] = lists[u]
             /\ cards'[Member(c)] \subseteq cards[Member(c)] \cup {canonical[c]}
             /\ lists'[Member(c)] \subseteq lists[Member(c)] \cup {canonical[c]}
  <2>1. Member(c) \in Users  BY MemberOfKey
  <2>2. PICK card, list \in {{}, {canonical[c]}} :
          /\ cards' = [cards EXCEPT ![Member(c)] = @ \cup card]
          /\ lists' = [lists EXCEPT ![Member(c)] = @ \cup list]
    BY <1>2 DEF LoseProjection
  <2>. QED  BY <1>2, <2>1, <2>2 DEF LoseProjection
<1>3. CASE \E c \in Calls : Project(c) \/ LoseProjection(c)  BY <1>1, <1>2, <1>3
<1>4. CASE ~\E c \in Calls : Project(c) \/ LoseProjection(c)
  BY <1>4 DEF RepeatedNext, Next, Step, Lookup, Verify, Create, Unavailable, LoseCreate,
         Land, Repeat, Register, Settled, vars, stores
<1>. QED  BY <1>3, <1>4

LEMMA ProjectionsStep ==
    ASSUME CreationInv, RepeatedNext
    PROVE  ProjectionsCanonical'
<1>. SUFFICES ASSUME NEW u \in Users, NEW d \in cards'[u] \cup lists'[u]
              PROVE  u \in UsersOf(d.participants) /\ dialogs'[d.participants] = d
  BY DEF ProjectionsCanonical
<1>1. CASE d \in cards[u] \cup lists[u]
  <2>1. /\ u \in UsersOf(d.participants) /\ dialogs[d.participants] = d
        /\ d \in Dialog
    BY <1>1 DEF CreationInv, ProjectionsCanonical, TypeOK
  <2>2. d.participants \in Keys /\ d # None  BY <2>1, NoneAssumption DEF Dialog
  <2>. QED  BY <2>1, <2>2, StoresGrow
<1>2. CASE d \notin cards[u] \cup lists[u]
  <2>1. PICK c \in Calls :
          /\ canonical[c] # None /\ UNCHANGED dialogs
          /\ \A v \in Users : v # Member(c) => cards'[v] = cards[v] /\ lists'[v] = lists[v]
          /\ cards'[Member(c)] \subseteq cards[Member(c)] \cup {canonical[c]}
          /\ lists'[Member(c)] \subseteq lists[Member(c)] \cup {canonical[c]}
    BY <1>2, ProjectionsEffect
  <2>2. u = Member(c) /\ d = canonical[c]  BY <1>2, <2>1
  <2>3. Key(c) \in Keys /\ Member(c) \in UsersOf(Key(c))
    BY MemberOfKey DEF CreationInv
  <2>4. d = dialogs[Key(c)] /\ d.participants = Key(c)
    BY <2>1, <2>2, <2>3 DEF CreationInv, OneWinner, StoredUnderKey
  <2>. QED  BY <2>1, <2>2, <2>3, <2>4
<1>. QED  BY <1>1, <1>2
------------------------------------------------------------------------------
(* The answers *)

\* What a step of a call makes of the dialog it goes on with and answers with.
LEMMA AnswersEffect ==
    ASSUME CreationInv, NEW c \in Calls, CallStep(c)
    PROVE  /\ canonical'[c] \in {canonical[c], None, dialogs'[Key(c)]}
           /\ reply'[c] \in {reply[c], None, canonical[c]}
           /\ created'[c] => \/ created[c]
                             \/ dialogs[Key(c)] = None
<1>0. TypeOK /\ Key(c) \in Keys  BY MemberOfKey DEF CreationInv
<1>. USE <1>0 DEF TypeOK
<1>1. CASE Lookup(c)  BY <1>1 DEF Lookup, stores, locals, Finish, Adopt
<1>2. CASE Verify(c)  BY <1>2 DEF Verify, locals, Finish
<1>3. CASE Create(c)  BY <1>3 DEF Create, Adopt
<1>4. CASE Project(c)  BY <1>4 DEF Project, Finish
<1>5. CASE LoseProjection(c)
  <2>1. Finish(c, "DialogProjectionsIncomplete", canonical[c]) /\ UNCHANGED locals
    BY <1>5 DEF LoseProjection
  <2>. QED  BY <2>1 DEF Finish, locals
<1>6. CASE Unavailable(c) \/ LoseCreate(c) \/ Land(c)
  BY <1>6 DEF Unavailable, LoseCreate, Land, Finish, locals
<1>7. CASE Repeat(c)  BY <1>7 DEF Repeat
<1>. QED  BY <1>1, <1>2, <1>3, <1>4, <1>5, <1>6, <1>7 DEF CallStep, Step

LEMMA RestingCalls ==
    ASSUME CreationInv, RepeatedNext
    PROVE  \/ \A d \in Calls : SameCall(d)
           \/ \E c \in Calls : CallStep(c) /\ \A d \in Calls \ {c} : SameCall(d)
<1>1. CASE \E c \in Calls : CallStep(c)  BY <1>1, OthersKept DEF SameCall
<1>2. CASE ~\E c \in Calls : CallStep(c)
  BY <1>2 DEF RepeatedNext, Next, CallStep, Register, Settled, vars, locals, SameCall
<1>. QED  BY <1>1, <1>2

LEMMA OneWinnerStep ==
    ASSUME CreationInv, RepeatedNext
    PROVE  OneWinner'
<1>1. OneWinner /\ \A d \in Calls : CallOK(d)  BY DEF CreationInv
<1>2. \A d \in Calls : Key(d)' = Key(d) /\ Key(d) \in Keys
  BY StoresGrow, KeyType DEF Key, CreationInv, TypeOK
<1>3. \A k \in Keys : dialogs[k] # None => dialogs'[k] = dialogs[k]  BY StoresGrow
<1>4. ASSUME NEW d \in Calls, SameCall(d)
      PROVE  /\ reply'[d] # None => reply'[d] = dialogs'[Key(d)]
             /\ canonical'[d] # None => canonical'[d] = dialogs'[Key(d)]
  BY <1>1, <1>2, <1>3, <1>4 DEF OneWinner, SameCall
<1>5. ASSUME NEW c \in Calls, CallStep(c)
      PROVE  /\ reply'[c] # None => reply'[c] = dialogs'[Key(c)]
             /\ canonical'[c] # None => canonical'[c] = dialogs'[Key(c)]
  BY <1>1, <1>2, <1>3, <1>5, AnswersEffect DEF OneWinner
<1>6. \A d \in Calls : created[d] => dialogs[Key(d)] # None
  BY <1>1 DEF OneWinner, CallOK
<1>7. ASSUME NEW d \in Calls, NEW e \in Calls, created'[d], created'[e], Key(d) = Key(e)
      PROVE  d = e
  <2>1. CASE \A f \in Calls : SameCall(f)  BY <1>1, <1>7, <2>1 DEF OneWinner, SameCall
  <2>2. ASSUME NEW c \in Calls, CallStep(c), \A f \in Calls \ {c} : SameCall(f)
        PROVE  d = e
    <3>1. created'[c] => created[c] \/ dialogs[Key(c)] = None  BY <2>2, AnswersEffect
    <3>2. \A f \in Calls \ {c} : created'[f] = created[f]  BY <2>2 DEF SameCall
    <3>. QED  BY <1>1, <1>6, <1>7, <3>1, <3>2 DEF OneWinner
  <2>. QED  BY <2>1, <2>2, RestingCalls
<1>. QED  BY <1>2, <1>4, <1>5, <1>7, RestingCalls DEF OneWinner

\* A call that succeeds has been through all its users.
LEMMA AllProjected ==
    ASSUME CreationInv, NEW c \in Calls, Project(c), AtLast(c)
    PROVE  \A u \in UsersOf(Key(c)) : canonical[c] \in cards'[u] \cap lists'[u]
<1>1. CallOK(c) /\ TypeOK  BY DEF CreationInv
<1>2. Key(c) \in Keys /\ Len(Key(c)) \in 1..2 /\ turn[c] \in 1..Len(Key(c))
  BY <1>1, MemberOfKey
<1>3. \A i \in 1..Len(Key(c)) : i = turn[c] \/ i \in 1..(turn[c] - 1)
  BY <1>2 DEF AtLast
<1>4. \A i \in 1..Len(Key(c)) : Key(c)[i] \in Users  BY <1>2, KeyParts
<1>5. /\ cards' = [cards EXCEPT ![Member(c)] = @ \cup {canonical[c]}]
      /\ lists' = [lists EXCEPT ![Member(c)] = @ \cup {canonical[c]}]
      /\ pc[c] = "project"
  BY DEF Project
<1>6. ASSUME NEW i \in 1..Len(Key(c))
      PROVE  canonical[c] \in cards'[Key(c)[i]] \cap lists'[Key(c)[i]]
  <2>1. CASE i = turn[c]  BY <1>1, <1>4, <1>5, <2>1 DEF Member, TypeOK
  <2>2. CASE i \in 1..(turn[c] - 1)
    BY <1>1, <1>4, <1>5, <2>2 DEF CallOK, TypeOK
  <2>. QED  BY <1>3, <2>1, <2>2
<1>. QED  BY <1>2, <1>6, KeyParts

\* Only the last projection makes a call succeed.
LEMMA SuccessEffect ==
    ASSUME CreationInv, NEW c \in Calls, CallStep(c), status'[c] = "ok"
    PROVE  /\ Project(c) /\ AtLast(c) /\ reply'[c] = canonical[c]
           /\ canonical[c] # None
<1>0. TypeOK /\ CallOK(c)  BY DEF CreationInv
<1>. USE <1>0 DEF TypeOK
<1>1. CASE Project(c)
  <2>1. AtLast(c)  BY <1>1 DEF Project, CallOK, Running
  <2>. QED  BY <1>1, <2>1 DEF Project, Finish
<1>2. ~Lookup(c)  BY DEF Lookup, locals, Finish, Adopt, CallOK, Running
<1>3. ~Verify(c)  BY DEF Verify, locals, Finish, CallOK, Running
<1>4. ~Create(c)  BY DEF Create, Adopt, CallOK, Running
<1>5. ~LoseProjection(c)  BY DEF LoseProjection, Finish
<1>6. ~Unavailable(c) /\ ~LoseCreate(c) /\ ~Land(c) /\ ~Repeat(c)
  BY DEF Unavailable, LoseCreate, Land, Repeat, Finish, CallOK
<1>. QED  BY <1>1, <1>2, <1>3, <1>4, <1>5, <1>6 DEF CallStep, Step

LEMMA AnsweredStep ==
    ASSUME CreationInv, RepeatedNext
    PROVE  AnsweredProjected'
<1>1. AnsweredProjected /\ \A d \in Calls : CallOK(d)  BY DEF CreationInv
<1>2. \A d \in Calls : Key(d)' = Key(d) /\ Key(d) \in Keys
  BY StoresGrow, KeyType DEF Key, CreationInv, TypeOK
<1>3. \A d \in Calls : \A u \in UsersOf(Key(d)) : u \in Users
  BY <1>2, KeyParts
<1>4. ASSUME NEW d \in Calls, SameCall(d), status'[d] = "ok"
      PROVE  \A u \in UsersOf(Key(d)) : reply'[d] \in cards'[u] \cap lists'[u]
  BY <1>1, <1>3, <1>4, StoresGrow DEF AnsweredProjected, SameCall
<1>5. ASSUME NEW c \in Calls, CallStep(c), status'[c] = "ok"
      PROVE  \A u \in UsersOf(Key(c)) : reply'[c] \in cards'[u] \cap lists'[u]
  BY <1>5, SuccessEffect, AllProjected
<1>. QED  BY <1>2, <1>4, <1>5, RestingCalls DEF AnsweredProjected

LEMMA CreationStep == CreationInv /\ [RepeatedNext]_vars => CreationInv'
<1>. SUFFICES ASSUME CreationInv, [RepeatedNext]_vars PROVE CreationInv'
  OBVIOUS
<1>1. CASE RepeatedNext
  <2>1. \A d \in Calls : CallOK(d)'  BY <1>1, RestingCalls, RestingCall, CallStepOK
  <2>. QED
    BY <1>1, <2>1, TypeStep, DialogsStep, OneWinnerStep, ProjectionsStep, AnsweredStep
    DEF CreationInv
<1>2. CASE UNCHANGED vars
  BY <1>2 DEF CreationInv, TypeOK, CallOK, Running, StoredUnderKey, OneWinner,
         ProjectionsCanonical, AnsweredProjected, OnlyRegistered, Key, vars, locals, stores
<1>. QED  BY <1>1, <1>2

LEMMA RepeatedInv == RepeatedSpec => []CreationInv
  BY InitCreation, CreationStep, PTL DEF RepeatedSpec

\* Clients that never repeat are a case of clients that may: what follows is theirs too.
LEMMA SpecRepeated == Spec => RepeatedSpec
<1>1. [Next]_vars => [RepeatedNext]_vars  BY DEF RepeatedNext
<1>. QED  BY <1>1, PTL DEF Spec, RepeatedSpec

\* Locals and stores keep their types, whatever fails, lands late or is repeated.
THEOREM CreationTypes == RepeatedSpec => []TypeOK
<1>1. CreationInv => TypeOK  BY DEF CreationInv
<1>. QED  BY <1>1, RepeatedInv, PTL

\* One canonical dialog and one creator for each key, for any number of calls.
THEOREM OneWinnerCorrect == RepeatedSpec => []OneWinner
<1>1. CreationInv => OneWinner  BY DEF CreationInv
<1>. QED  BY <1>1, RepeatedInv, PTL

\* Users see canonical dialogs only, and success means that all of them do.
THEOREM ProjectionsCorrect == RepeatedSpec => [](ProjectionsCanonical /\ AnsweredProjected)
<1>1. CreationInv => ProjectionsCanonical /\ AnsweredProjected  BY DEF CreationInv
<1>. QED  BY <1>1, RepeatedInv, PTL

\* No dialog is stored for a user whose registration was never complete.
THEOREM RegisteredCorrect == RepeatedSpec => []OnlyRegistered
<1>1. CreationInv => OnlyRegistered  BY DEF CreationInv
<1>. QED  BY <1>1, RepeatedInv, PTL

\* A stored dialog is never replaced, and no projection of it taken back.
THEOREM StableCorrect == RepeatedSpec => DialogsStable
<1>. DEFINE Stable ==
       /\ \A k \in Keys : dialogs[k] # None => dialogs'[k] = dialogs[k]
       /\ \A u \in Users : cards[u] \subseteq cards'[u] /\ lists[u] \subseteq lists'[u]
<1>1. CreationInv /\ [RepeatedNext]_vars => [Stable]_vars  BY StoresGrow
<1>. QED  BY <1>1, RepeatedInv, PTL DEF RepeatedSpec, DialogsStable
------------------------------------------------------------------------------
(* What becomes of a failed call. *)

\* A call that is under way, or that its client can repeat.
Pending(c) ==
    \/ Running(c)
    \/ status[c] \in {"Unavailable", "DialogProjectionsIncomplete"}

SeenByAll(k) == \A u \in UsersOf(k) : dialogs[k] \in cards[u] \cap lists[u]

CaredFor(k) == SeenByAll(k) \/ \E c \in Calls : ~WithSelf(c) /\ Key(c) = k /\ Pending(c)

NoneAbandoned == \A k \in Keys : dialogs[k] # None => CaredFor(k)

\* Once the dialog of a call is stored, its users are registered, and the call can
\* only go on, fail in a way that repeating mends, or show the dialog to all.
LEMMA PendingStays ==
    ASSUME CreationInv, CreationInv', NEW c \in Calls, CallStep(c),
           ~WithSelf(c), dialogs[Key(c)] # None, Pending(c)
    PROVE  Pending(c)' \/ SeenByAll(Key(c))'
<1>1. TypeOK /\ CallOK(c) /\ Key(c) \in Keys /\ Key(c)' = Key(c)
  BY KeyType, StoresGrow DEF CreationInv, TypeOK, RepeatedNext, Next, CallStep, Key
<1>2. pc'[c] \in {"lookup", "verify", "create", "project"} => Pending(c)'
  BY DEF Pending, Running
<1>3. status'[c] \in {"Unavailable", "DialogProjectionsIncomplete"} => Pending(c)'
  BY DEF Pending
<1>. USE DEF TypeOK, Goto, Finish, Adopt
<1>4. CASE Lookup(c)  BY <1>1, <1>2, <1>4 DEF Lookup
<1>5. CASE Verify(c)
  <2>1. ~Refused(c)
    BY <1>1, MemberOfKey DEF CreationInv, OnlyRegistered, Refused
  <2>. QED  BY <1>1, <1>2, <1>5, <2>1 DEF Verify
<1>6. CASE Create(c)  BY <1>1, <1>2, <1>6 DEF Create
<1>7. CASE Project(c)
  <2>1. CASE AtLast(c)
    <3>1. \A u \in UsersOf(Key(c)) : canonical[c] \in cards'[u] \cap lists'[u]
      BY <1>7, <2>1, AllProjected
    <3>2. canonical[c] = dialogs[Key(c)] /\ dialogs' = dialogs
      BY <1>1, <1>7 DEF Project, CreationInv, OneWinner
    <3>. QED  BY <1>1, <3>1, <3>2 DEF SeenByAll
  <2>2. CASE ~AtLast(c)  BY <1>1, <1>2, <1>7, <2>2 DEF Project
  <2>. QED  BY <2>1, <2>2
<1>8. CASE LoseProjection(c)  BY <1>1, <1>3, <1>8 DEF LoseProjection
<1>9. CASE Unavailable(c) \/ LoseCreate(c)
  BY <1>1, <1>3, <1>9 DEF Unavailable, LoseCreate
<1>10. CASE Land(c)  BY <1>1, <1>3, <1>10 DEF Land, CallOK
<1>11. CASE Repeat(c)  BY <1>1, <1>2, <1>11 DEF Repeat
<1>. QED  BY <1>4, <1>5, <1>6, <1>7, <1>8, <1>9, <1>10, <1>11 DEF CallStep, Step

LEMMA SeenStays ==
    ASSUME CreationInv, RepeatedNext, NEW k \in Keys, dialogs[k] # None, SeenByAll(k)
    PROVE  SeenByAll(k)'
<1>1. \A u \in UsersOf(k) : u \in Users  BY KeyParts
<1>2. dialogs'[k] = dialogs[k]  BY StoresGrow
<1>3. \A u \in Users : cards[u] \subseteq cards'[u] /\ lists[u] \subseteq lists'[u]
  BY StoresGrow
<1>. QED  BY <1>1, <1>2, <1>3 DEF SeenByAll

\* Whoever stores a dialog answers for it.
LEMMA StoringCall ==
    ASSUME CreationInv, NEW c \in Calls, CallStep(c), NEW k \in Keys,
           dialogs[k] = None, dialogs'[k] # None
    PROVE  Key(c) = k /\ ~WithSelf(c) /\ Pending(c)'
<1>1. TypeOK /\ CallOK(c) /\ Key(c) \in Keys
  BY KeyType DEF CreationInv, TypeOK
<1>2. Create(c) \/ Land(c)
  BY DEF CallStep, Step, Lookup, Verify, Project, Unavailable, LoseCreate,
     LoseProjection, Repeat, stores
<1>3. Key(c) = k /\ ~WithSelf(c)
  <2>1. dialogs' = [dialogs EXCEPT ![Key(c)] = Winner(c)] /\ pc[c] \in {"create", "limbo"}
    BY <1>2 DEF Create, Land
  <2>2. Key(c) = k
    BY <1>1, <2>1 DEF TypeOK
  <2>. QED  BY <1>1, <2>1, <2>2 DEF CallOK
<1>4. CASE Create(c)
  <2>1. pc' = [pc EXCEPT ![c] = "project"]  BY <1>4 DEF Create, Adopt, Goto
  <2>2. pc'[c] = "project"  BY <1>1, <2>1 DEF TypeOK
  <2>3. Pending(c)'  BY <2>2 DEF Pending, Running
  <2>. QED  BY <1>3, <2>3
<1>5. CASE Land(c)
  <2>1. status'[c] = "Unavailable"  BY <1>1, <1>5 DEF Land, CallOK
  <2>2. Pending(c)'  BY <2>1 DEF Pending
  <2>. QED  BY <1>3, <2>2
<1>. QED  BY <1>2, <1>3, <1>4, <1>5

LEMMA NoneAbandonedStep ==
    ASSUME CreationInv, NoneAbandoned, [RepeatedNext]_vars
    PROVE  NoneAbandoned'
<1>1. CASE UNCHANGED vars
  BY <1>1 DEF vars, stores, locals, NoneAbandoned, CaredFor, SeenByAll, Pending, Running, Key
<1>. SUFFICES ASSUME RepeatedNext, NEW k \in Keys, dialogs'[k] # None
              PROVE  CaredFor(k)'
  BY <1>1 DEF NoneAbandoned
<1>2. CreationInv'  BY CreationStep
<1>3. \A d \in Calls : Key(d)' = Key(d) /\ WithSelf(d)' = WithSelf(d)
  BY StoresGrow DEF Key
<1>4. \A d \in Calls : SameCall(d) => Pending(d)' = Pending(d)
  BY DEF SameCall, Pending, Running
<1>5. CASE dialogs[k] = None
  <2>1. PICK c \in Calls : CallStep(c)
    BY <1>5 DEF RepeatedNext, Next, CallStep, Register, Settled, vars, stores
  <2>2. Key(c) = k /\ ~WithSelf(c) /\ Pending(c)'
    BY <1>5, <2>1, StoringCall
  <2>. QED  BY <1>3, <2>2 DEF CaredFor
<1>6. CASE dialogs[k] # None /\ SeenByAll(k)
  BY <1>6, SeenStays DEF CaredFor
<1>7. CASE dialogs[k] # None /\ ~SeenByAll(k)
  <2>1. PICK c \in Calls : ~WithSelf(c) /\ Key(c) = k /\ Pending(c)
    BY <1>7 DEF NoneAbandoned, CaredFor
  <2>2. CASE SameCall(c)
    BY <1>3, <1>4, <2>1, <2>2 DEF CaredFor
  <2>3. CASE CallStep(c)
    <3>1. Pending(c)' \/ SeenByAll(k)'
      <4>1. Pending(c)' \/ SeenByAll(Key(c))'
        BY <1>2, <1>7, <2>1, <2>3, PendingStays
      <4>. QED  BY <1>3, <2>1, <4>1 DEF SeenByAll
    <3>. QED  BY <1>3, <2>1, <3>1 DEF CaredFor
  <2>. QED  BY <2>2, <2>3, RestingCalls
<1>. QED  BY <1>5, <1>6, <1>7

\* A stored dialog that some participant does not see is never given up: a call for
\* it is under way, or ended in an error after which its client may repeat it, and
\* no refusal can meet it on the way (create_or_get, ensure_dialog_projections).
THEOREM NoneAbandonedCorrect == RepeatedSpec => []NoneAbandoned
<1>1. Init => NoneAbandoned  BY DEF Init, NoneAbandoned
<1>. QED  BY <1>1, RepeatedInv, NoneAbandonedStep, PTL DEF RepeatedSpec

\* The awaits a call can still pass, from the one it is at.
AwaitsFrom(label, n) ==
    CASE label = "lookup" -> 6
      [] label = "verify" -> 6 - n
      [] label = "create" -> 3
      [] label = "project" -> 3 - n
      [] OTHER -> 0

Awaits(c) == AwaitsFrom(pc[c], turn[c])

LEMMA AwaitsValues ==
    ASSUME NEW n \in 1..2
    PROVE  /\ AwaitsFrom("lookup", n) = 6 /\ AwaitsFrom("verify", n) = 6 - n
           /\ AwaitsFrom("create", n) = 3 /\ AwaitsFrom("project", n) = 3 - n
           /\ AwaitsFrom("limbo", n) = 0 /\ AwaitsFrom("done", n) = 0
  BY DEF AwaitsFrom

LEMMA AwaitsRange ==
    ASSUME NEW label \in {"lookup", "verify", "create", "project", "limbo", "done"},
           NEW n \in 1..2
    PROVE  AwaitsFrom(label, n) \in 0..6
  BY AwaitsValues

LEMMA AwaitsType ==
    ASSUME TypeOK, NEW c \in Calls
    PROVE  Awaits(c) \in 0..6
<1>1. /\ pc[c] \in {"lookup", "verify", "create", "project", "limbo", "done"}
      /\ turn[c] \in 1..2
  BY DEF TypeOK
<1>. QED  BY <1>1, AwaitsRange DEF Awaits

LEMMA AwaitsFall ==
    ASSUME CreationInv, CreationInv', NEW c \in Calls, Step(c) \/ Fails(c)
    PROVE  Awaits(c)' < Awaits(c)
<1>1. /\ Len(Key(c)) \in 1..2 /\ turn[c] \in 1..Len(Key(c))
      /\ pc \in [Calls -> {"lookup", "verify", "create", "project", "limbo", "done"}]
      /\ turn \in [Calls -> 1..2] /\ turn' \in [Calls -> 1..2]
  BY MemberOfKey DEF CreationInv, TypeOK
<1>2. ASSUME pc'[c] \in {"done", "limbo"},
             pc[c] \in {"lookup", "verify", "create", "project"}
      PROVE  Awaits(c)' < Awaits(c)
  <2>1. Awaits(c)' = AwaitsFrom(pc'[c], turn'[c]) /\ turn[c] \in 1..2 /\ turn'[c] \in 1..2
    BY <1>1 DEF Awaits, AwaitsFrom
  <2>2. AwaitsFrom(pc'[c], turn'[c]) = 0
    BY <1>2, <2>1, AwaitsValues
  <2>3. Awaits(c) = AwaitsFrom(pc[c], turn[c])  BY DEF Awaits
  <2>4. AwaitsFrom(pc[c], turn[c]) \in {6 - turn[c], 3 - turn[c], 6, 3}
    BY <1>2, <2>1, AwaitsValues
  <2>. QED  BY <2>1, <2>2, <2>3, <2>4
<1>3. ASSUME NEW label \in {"verify", "create", "project"}, NEW n \in 1..2,
             pc'[c] = label, turn'[c] = n,
             AwaitsFrom(label, n) < AwaitsFrom(pc[c], turn[c])
      PROVE  Awaits(c)' < Awaits(c)
  BY <1>3 DEF Awaits, AwaitsFrom
<1>4. turn[c] \in 1..2
  BY <1>1
<1>. USE DEF Goto, Finish, Adopt
<1>5. CASE Lookup(c)
  <2>1. pc[c] = "lookup" /\ AwaitsFrom(pc[c], turn[c]) = 6
    BY <1>4, <1>5, AwaitsValues DEF Lookup
  <2>2. CASE pc'[c] = "done"  BY <1>2, <2>1, <2>2
  <2>3. CASE pc'[c] = "project" /\ turn'[c] = 1
    BY <1>3, <2>1, <2>3, AwaitsValues
  <2>4. CASE pc'[c] = "verify" /\ turn'[c] = turn[c]
    BY <1>3, <1>4, <2>1, <2>4, AwaitsValues
  <2>. QED  BY <1>1, <1>5, <2>2, <2>3, <2>4 DEF Lookup, locals
<1>6. CASE Verify(c)
  <2>1. pc[c] = "verify" /\ AwaitsFrom(pc[c], turn[c]) = 6 - turn[c]
    BY <1>4, <1>6, AwaitsValues DEF Verify
  <2>2. CASE pc'[c] = "done"  BY <1>2, <2>1, <2>2
  <2>3. CASE pc'[c] = "verify" /\ turn'[c] = turn[c] + 1
    <3>1. turn'[c] \in 1..2  BY <1>1
    <3>2. AwaitsFrom("verify", turn'[c]) = 6 - turn'[c]  BY <3>1, AwaitsValues
    <3>. QED  BY <1>3, <1>4, <2>1, <2>3, <3>1, <3>2
  <2>4. CASE pc'[c] = "create" /\ turn'[c] = turn[c]
    BY <1>3, <1>4, <2>1, <2>4, AwaitsValues
  <2>. QED  BY <1>1, <1>6, <2>2, <2>3, <2>4 DEF Verify
<1>7. CASE Create(c)
  <2>1. pc[c] = "create" /\ pc'[c] = "project" /\ turn'[c] = 1
    BY <1>1, <1>7 DEF Create
  <2>. QED  BY <1>3, <1>4, <2>1, AwaitsValues
<1>8. CASE Project(c)
  <2>1. pc[c] = "project" /\ AwaitsFrom(pc[c], turn[c]) = 3 - turn[c]
    BY <1>4, <1>8, AwaitsValues DEF Project
  <2>2. CASE pc'[c] = "done"  BY <1>2, <2>1, <2>2
  <2>3. CASE pc'[c] = "project" /\ turn'[c] = turn[c] + 1
    <3>1. turn'[c] \in 1..2  BY <1>1
    <3>2. AwaitsFrom("project", turn'[c]) = 3 - turn'[c]  BY <3>1, AwaitsValues
    <3>. QED  BY <1>3, <1>4, <2>1, <2>3, <3>1, <3>2
  <2>. QED  BY <1>1, <1>8, <2>1, <2>2, <2>3 DEF Project
<1>9. CASE Fails(c)
  <2>1. /\ pc'[c] \in {"done", "limbo"}
        /\ pc[c] \in {"lookup", "verify", "create", "project"}
    BY <1>1, <1>9 DEF Fails, Unavailable, LoseCreate, LoseProjection
  <2>. QED  BY <1>2, <2>1
<1>. QED  BY <1>5, <1>6, <1>7, <1>8, <1>9 DEF Step

\* A creation takes at most six steps of its own, lost races, late writes and
\* failures included: only its client's repeating gives it more.
THEOREM CreationBounded ==
    RepeatedSpec =>
      /\ [](\A c \in Calls : Awaits(c) \in 0..6)
      /\ [][\A c \in Calls :
              /\ Step(c) \/ Fails(c) => Awaits(c)' < Awaits(c)
              /\ Awaits(c)' > Awaits(c) => Repeat(c)]_vars
<1>. DEFINE Bounded == \A c \in Calls : Awaits(c) \in 0..6
            Falls == \A c \in Calls :
                       /\ Step(c) \/ Fails(c) => Awaits(c)' < Awaits(c)
                       /\ Awaits(c)' > Awaits(c) => Repeat(c)
<1>1. CreationInv => Bounded  BY AwaitsType DEF CreationInv
<1>2. CreationInv /\ [RepeatedNext]_vars => [Falls]_vars
  <2>. SUFFICES ASSUME CreationInv, RepeatedNext, NEW c \in Calls
                PROVE  /\ Step(c) \/ Fails(c) => Awaits(c)' < Awaits(c)
                       /\ Awaits(c)' > Awaits(c) => Repeat(c)
    OBVIOUS
  <2>1. CreationInv'  BY CreationStep
  <2>2. Awaits(c) \in 0..6 /\ Awaits(c)' \in 0..6
    <3>1. TypeOK /\ TypeOK'  BY <2>1 DEF CreationInv
    <3>2. /\ pc'[c] \in {"lookup", "verify", "create", "project", "limbo", "done"}
          /\ turn'[c] \in 1..2
      BY <3>1 DEF TypeOK
    <3>3. Awaits(c)' = AwaitsFrom(pc'[c], turn'[c])  BY DEF Awaits, AwaitsFrom
    <3>. QED  BY <3>1, <3>2, <3>3, AwaitsRange, AwaitsType
  <2>3. Step(c) \/ Fails(c) => Awaits(c)' < Awaits(c)
    BY <2>1, AwaitsFall
  <2>4. SameCall(c) => Awaits(c)' = Awaits(c)
    BY DEF SameCall, Awaits, AwaitsFrom
  <2>5. Land(c) => Awaits(c)' = Awaits(c)
    BY DEF Land, Goto, Awaits, AwaitsFrom, CreationInv, TypeOK
  <2>. QED  BY <2>2, <2>3, <2>4, <2>5, RestingCalls DEF CallStep, Fails
<1>. QED  BY <1>1, <1>2, RepeatedInv, PTL DEF RepeatedSpec
------------------------------------------------------------------------------
(* The directory: every step of the handlers, of the failures and of the *)
(* repeating clients is a step of DialogDirectory or changes nothing in it. *)

HIDE DialogsAssumption DEF WithSelf

asked == [c \in Calls |-> IF WithSelf(c) THEN None ELSE Key(c)]
shown == ShownBy(dialogs, cards, lists)
answers == [c \in Calls |-> [status |-> status[c], dialog |-> reply[c]]]

LEMMA AskedKey ==
    ASSUME CreationInv, NEW c \in Calls, ~WithSelf(c)
    PROVE  asked[c] = Key(c) /\ asked[c] # None /\ asked[c] \in Keys
  BY MemberOfKey, NoneAssumption DEF asked, CreationInv

LEMMA AskedStays ==
    ASSUME CreationInv, RepeatedNext
    PROVE  asked' = asked
<1>1. \A c \in Calls : WithSelf(c)' = WithSelf(c) /\ Key(c)' = Key(c)
  BY StoresGrow DEF Key, WithSelf
<1>. QED  BY <1>1 DEF asked

LEMMA InitDirectory == Init => Directory!Init
<1>. SUFFICES ASSUME Init PROVE Directory!Init
  OBVIOUS
<1>1. CreationInv  BY InitCreation
<1>2. asked \in [Calls -> Keys \cup {None}]
  BY <1>1, MemberOfKey DEF asked, CreationInv
<1>3. ShownBy(dialogs, cards, lists) = {}  BY DEF Init, ShownBy
<1>4. answers = [c \in Calls |-> [status |-> "pending", dialog |-> None]]
  BY DEF Init, answers
<1>. QED  BY <1>2, <1>3, <1>4 DEF Init, Directory!Init, asked, answers

\* A call that ends answers its caller, and nobody else.
LEMMA Answered ==
    ASSUME TypeOK, NEW c \in Calls, NEW s, NEW r,
           status' = [status EXCEPT ![c] = s], reply' = [reply EXCEPT ![c] = r]
    PROVE  answers' = [answers EXCEPT ![c] = [status |-> s, dialog |-> r]]
<1>. DEFINE changed == [answers EXCEPT ![c] = [status |-> s, dialog |-> r]]
<1>1. \A d \in Calls : answers'[d] = changed[d]  BY DEF answers, TypeOK
<1>2. DOMAIN answers' = Calls /\ DOMAIN changed = Calls  BY DEF answers
<1>3. answers' = [d \in Calls |-> answers'[d]] /\ changed = [d \in Calls |-> changed[d]]
  BY <1>2 DEF answers
<1>. QED  BY <1>1, <1>3

LEMMA AnsweredCanonical ==
    ASSUME TypeOK, NEW c \in Calls, NEW s,
           status' = [status EXCEPT ![c] = s], reply' = [reply EXCEPT ![c] = canonical[c]]
    PROVE  answers' = [answers EXCEPT ![c] = [status |-> s, dialog |-> canonical[c]]]
<1>1. PICK r : r = canonical[c]  OBVIOUS
<1>2. reply' = [reply EXCEPT ![c] = r]  BY <1>1
<1>3. answers' = [answers EXCEPT ![c] = [status |-> s, dialog |-> r]]
  BY <1>2, Answered
<1>. QED  BY <1>1, <1>3

LEMMA NotAnswered ==
    ASSUME UNCHANGED <<status, reply>>
    PROVE  answers' = answers
  BY DEF answers

\* A refusal changes nothing but the answer.
LEMMA Refusal ==
    ASSUME CreationInv, RepeatedNext, NEW c \in Calls, Running(c), NEW s,
           status' = [status EXCEPT ![c] = s], reply' = [reply EXCEPT ![c] = None],
           UNCHANGED <<dialogs, cards, lists, registered>>,
           IF WithSelf(c) THEN s = "SelfDialogNotAllowed"
           ELSE \/ s = "UserNotRegistered" /\ ~(UsersOf(Key(c)) \subseteq registered)
                \/ s = "Unavailable"
    PROVE  Directory!Refuse(c)
<1>1. TypeOK /\ CallOK(c)  BY DEF CreationInv
<1>2. answers' = [answers EXCEPT ![c] = [status |-> s, dialog |-> None]]
  BY <1>1, Answered
<1>3. answers[c].status = "pending"  BY <1>1 DEF answers, CallOK
<1>4. asked' = asked /\ shown' = shown  BY AskedStays DEF shown, ShownBy
<1>5. IF asked[c] = None THEN s = "SelfDialogNotAllowed"
      ELSE \/ s = "UserNotRegistered" /\ ~(UsersOf(asked[c]) \subseteq registered)
           \/ s = "Unavailable"
  <2>1. CASE WithSelf(c)  BY <2>1 DEF asked
  <2>2. CASE ~WithSelf(c)  BY <2>2, AskedKey
  <2>. QED  BY <2>1, <2>2
<1>. QED
  BY <1>2, <1>3, <1>4, <1>5
  DEF Directory!Refuse, Directory!Pending, Directory!Answer, Directory!Members, UsersOf,
      asked, shown, answers

\* The first dialog stored under a key is not visible yet.
LEMMA Founding ==
    ASSUME CreationInv, RepeatedNext, NEW c \in Calls, pc[c] \in {"create", "limbo"},
           Stores(c), UNCHANGED <<cards, lists, registered, status, reply>>
    PROVE  Directory!Found(c) \/ UNCHANGED <<asked, dialogs, shown, registered, answers>>
<1>1. TypeOK /\ CallOK(c) /\ ~WithSelf(c)  BY DEF CreationInv, CallOK
<1>2. asked[c] = Key(c) /\ asked[c] # None /\ Key(c) \in Keys  BY <1>1, AskedKey
<1>3. asked' = asked /\ answers' = answers  BY AskedStays, NotAnswered
<1>4. CASE dialogs[Key(c)] # None
  <2>1. UNCHANGED dialogs  BY <1>1, <1>2, <1>4 DEF Stores, Winner, TypeOK
  <2>. QED  BY <1>3, <2>1 DEF shown, ShownBy
<1>5. CASE dialogs[Key(c)] = None
  <2>1. Winner(c) = candidate[c] /\ candidate[c] \in Dialog
        /\ candidate[c].participants = Key(c) /\ UsersOf(Key(c)) \subseteq registered
    BY <1>1, <1>5, WinnerUnderKey DEF Winner, TypeOK
  <2>2. \A u \in Users : candidate[c] \notin cards[u]
    BY <1>5, <2>1, NoneAssumption DEF CreationInv, ProjectionsCanonical
  <2>3. /\ \A k \in Keys \ {Key(c)} : dialogs'[k] = dialogs[k]
        /\ dialogs'[Key(c)] = candidate[c] /\ candidate[c] # None
    BY <1>1, <1>2, <2>1, NoneAssumption DEF Stores, TypeOK
  <2>4. shown' = shown
    <3>1. \A u \in Users, k \in Keys :
            (/\ dialogs'[k] # None /\ dialogs'[k] \in cards'[u] \cap lists'[u])
              <=> (/\ dialogs[k] # None /\ dialogs[k] \in cards[u] \cap lists[u])
      BY <1>5, <2>2, <2>3
    <3>. QED  BY <3>1 DEF shown, ShownBy
  <2>5. answers[c].status \in {"pending", "Unavailable"}
    BY <1>1 DEF CallOK, Running, answers
  <2>6. dialogs' = [dialogs EXCEPT ![asked[c]] = candidate[c]]
    BY <1>2, <2>1 DEF Stores
  <2>. QED
    BY <1>2, <1>3, <1>5, <2>1, <2>4, <2>5, <2>6
    DEF Directory!Found, Directory!Members, UsersOf, asked, shown, answers
<1>. QED  BY <1>4, <1>5

\* A projection shows the dialog to the user the call is at, at most.
LEMMA Showing ==
    ASSUME CreationInv, RepeatedNext, NEW c \in Calls,
           Project(c) \/ LoseProjection(c),
           \/ UNCHANGED <<status, reply>>
           \/ /\ status' = [status EXCEPT ![c] = "DialogProjectionsIncomplete"]
              /\ reply' = [reply EXCEPT ![c] = canonical[c]]
           \/ /\ status' = [status EXCEPT ![c] = "ok"]
              /\ reply' = [reply EXCEPT ![c] = canonical[c]]
              /\ Project(c) /\ AtLast(c)
    PROVE  Directory!Show(c)
<1>1. pc[c] = "project" /\ UNCHANGED <<dialogs, registered>>
  BY DEF Project, LoseProjection
<1>2. TypeOK /\ CallOK(c) /\ ~WithSelf(c) /\ canonical[c] # None
  BY <1>1 DEF CreationInv, CallOK, TypeOK
<1>3. /\ asked[c] = Key(c) /\ asked[c] # None /\ Key(c) \in Keys
      /\ Member(c) \in Users /\ Member(c) \in UsersOf(Key(c))
  BY <1>2, AskedKey, MemberOfKey
<1>4. canonical[c] = dialogs[Key(c)] /\ canonical[c].participants = Key(c)
  BY <1>2, <1>3 DEF CreationInv, OneWinner, StoredUnderKey
<1>5. /\ \A u \in Users : u # Member(c) => cards'[u] = cards[u] /\ lists'[u] = lists[u]
      /\ cards'[Member(c)] \subseteq cards[Member(c)] \cup {canonical[c]}
      /\ lists'[Member(c)] \subseteq lists[Member(c)] \cup {canonical[c]}
  <2>1. CASE Project(c)  BY <1>2, <1>3, <2>1 DEF Project, TypeOK
  <2>2. CASE LoseProjection(c)
    <3>1. PICK card, list \in {{}, {canonical[c]}} :
            /\ cards' = [cards EXCEPT ![Member(c)] = @ \cup card]
            /\ lists' = [lists EXCEPT ![Member(c)] = @ \cup list]
      BY <2>2 DEF LoseProjection
    <3>. QED  BY <1>2, <1>3, <3>1 DEF TypeOK
  <2>. QED  BY <2>1, <2>2
<1>6. \A u \in Users : cards[u] \subseteq cards'[u] /\ lists[u] \subseteq lists'[u]
  BY StoresGrow
<1>7. shown \subseteq shown'  BY <1>1, <1>6 DEF shown, ShownBy
<1>8. shown' \subseteq shown \cup {<<Member(c), Key(c)>>}
  <2>. SUFFICES ASSUME NEW u \in Users, NEW k \in Keys, dialogs[k] # None,
                       dialogs[k] \in cards'[u] \cap lists'[u],
                       u # Member(c) \/ k # Key(c)
                PROVE  dialogs[k] \in cards[u] \cap lists[u]
    BY <1>1 DEF shown, ShownBy
  <2>1. CASE u # Member(c)  BY <1>5, <2>1
  <2>2. CASE k # Key(c)
    <3>1. dialogs[k] # canonical[c]  BY <1>4, <2>2 DEF CreationInv, StoredUnderKey
    <3>. QED  BY <1>5, <3>1
  <2>. QED  BY <2>1, <2>2
<1>9. \E users \in SUBSET UsersOf(Key(c)) : shown' = shown \cup (users \X {Key(c)})
  <2>1. CASE shown' = shown
    <3>1. shown' = shown \cup ({} \X {Key(c)})  BY <2>1
    <3>. QED  BY <3>1
  <2>2. CASE shown' # shown
    <3>1. shown' = shown \cup {<<Member(c), Key(c)>>}  BY <1>7, <1>8, <2>2
    <3>2. {<<Member(c), Key(c)>>} = {Member(c)} \X {Key(c)}  OBVIOUS
    <3>. QED  BY <1>3, <3>1, <3>2
  <2>. QED  BY <2>1, <2>2
<1>10. answers[c].status = "pending"
  BY <1>1, <1>2 DEF CallOK, Running, answers
<1>11. Directory!Reveal(c)
  BY <1>1, <1>3, <1>4, <1>9, <1>10, <1>2
  DEF Directory!Reveal, Directory!Pending, Directory!Members, UsersOf, asked, shown, answers
<1>12. asked' = asked  BY AskedStays
<1>13. CASE UNCHANGED <<status, reply>>
  BY <1>1, <1>11, <1>12, <1>13, NotAnswered DEF Directory!Show, asked, shown, answers
<1>14. CASE /\ status' = [status EXCEPT ![c] = "DialogProjectionsIncomplete"]
            /\ reply' = [reply EXCEPT ![c] = canonical[c]]
  <2>1. answers' = [answers EXCEPT ![c] = [status |-> "DialogProjectionsIncomplete",
                                           dialog |-> canonical[c]]]
    BY <1>2, <1>14, AnsweredCanonical
  <2>2. canonical[c] = dialogs[asked[c]]  BY <1>3, <1>4
  <2>. QED  BY <1>1, <1>11, <1>12, <2>1, <2>2
            DEF Directory!Show, Directory!Answer, asked, shown, answers
<1>15. CASE /\ status' = [status EXCEPT ![c] = "ok"]
            /\ reply' = [reply EXCEPT ![c] = canonical[c]]
            /\ Project(c) /\ AtLast(c)
  <2>1. answers' = [answers EXCEPT ![c] = [status |-> "ok", dialog |-> canonical[c]]]
    BY <1>2, <1>15, AnsweredCanonical
  <2>4. canonical[c] = dialogs[asked[c]]  BY <1>3, <1>4
  <2>2. \A u \in UsersOf(Key(c)) : u \in Users /\ canonical[c] \in cards'[u] \cap lists'[u]
    BY <1>3, <1>15, AllProjected, KeyParts
  <2>3. UsersOf(Key(c)) \X {Key(c)} \subseteq shown'
    BY <1>1, <1>2, <1>3, <1>4, <2>2 DEF shown, ShownBy
  <2>. QED
    BY <1>1, <1>3, <1>11, <1>12, <2>1, <2>3, <2>4
    DEF Directory!Show, Directory!ShownTo, Directory!Members, UsersOf, Directory!Answer,
        asked, shown, answers
<1>. QED  BY <1>13, <1>14, <1>15
------------------------------------------------------------------------------
Unseen == UNCHANGED <<asked, dialogs, shown, registered, answers>>

LEMMA UnseenStep ==
    ASSUME CreationInv, RepeatedNext,
           UNCHANGED <<dialogs, cards, lists, registered, status, reply>>
    PROVE  Unseen
  BY AskedStays, NotAnswered DEF Unseen, shown, ShownBy

LEMMA CallRefines ==
    ASSUME CreationInv, RepeatedNext, NEW c \in Calls, CallStep(c)
    PROVE  Directory!Next \/ Unseen
<1>0. TypeOK /\ CallOK(c)  BY DEF CreationInv
<1>. USE DEF Directory!Next
<1>1. CASE Lookup(c)
  <2>0. UNCHANGED <<dialogs, cards, lists, registered>> /\ pc[c] = "lookup"
    BY <1>1 DEF Lookup, stores
  <2>1. CASE WithSelf(c)
    <3>1. Directory!Refuse(c)
      BY <1>0, <1>1, <2>0, <2>1, Refusal DEF Lookup, Finish, Running, CallOK
    <3>. QED  BY <3>1
  <2>2. CASE ~WithSelf(c)
    BY <1>1, <2>0, <2>2, UnseenStep DEF Lookup, Adopt
  <2>. QED  BY <2>1, <2>2
<1>2. CASE Verify(c)
  <2>0. UNCHANGED <<dialogs, cards, lists, registered>> /\ pc[c] = "verify"
    BY <1>2 DEF Verify, stores
  <2>1. CASE Refused(c)
    <3>1. ~WithSelf(c) /\ ~(UsersOf(Key(c)) \subseteq registered)
      BY <1>0, <2>0, <2>1, MemberOfKey DEF CallOK, Refused
    <3>2. Directory!Refuse(c)
      BY <1>0, <1>2, <2>0, <2>1, <3>1, Refusal DEF Verify, Finish, Running, CallOK
    <3>. QED  BY <3>2
  <2>2. CASE ~Refused(c)  BY <1>2, <2>0, <2>2, UnseenStep DEF Verify
  <2>. QED  BY <2>1, <2>2
<1>3. CASE Create(c) \/ Land(c)
  <2>1. /\ pc[c] \in {"create", "limbo"} /\ Stores(c)
        /\ UNCHANGED <<cards, lists, registered, status, reply>>
    BY <1>3 DEF Create, Land, Adopt, Stores, locals
  <2>. QED  BY <2>1, Founding DEF Unseen
<1>4. CASE Project(c)
  <2>1. \/ UNCHANGED <<status, reply>>
        \/ /\ status' = [status EXCEPT ![c] = "ok"]
           /\ reply' = [reply EXCEPT ![c] = canonical[c]]
           /\ AtLast(c)
    BY <1>4 DEF Project, Finish
  <2>. QED  BY <1>4, <2>1, Showing
<1>5. CASE LoseProjection(c)
  <2>1. /\ status' = [status EXCEPT ![c] = "DialogProjectionsIncomplete"]
        /\ reply' = [reply EXCEPT ![c] = canonical[c]]
    BY <1>5 DEF LoseProjection, Finish
  <2>. QED  BY <1>5, <2>1, Showing
<1>6. CASE Unavailable(c)
  <2>1. Directory!Refuse(c)
    BY <1>6, Refusal DEF Unavailable, Finish, Running, stores
  <2>. QED  BY <2>1
<1>7. CASE LoseCreate(c)
  <2>1. /\ pc[c] = "create" /\ status' = [status EXCEPT ![c] = "Unavailable"]
        /\ UNCHANGED <<dialogs, cards, lists, registered>> /\ reply' = reply
    BY <1>7 DEF LoseCreate, stores
  <2>2. reply' = [reply EXCEPT ![c] = None] /\ ~WithSelf(c)
    BY <1>0, <2>1 DEF CallOK, Running, TypeOK
  <2>3. Directory!Refuse(c)  BY <2>1, <2>2, Refusal DEF Running
  <2>. QED  BY <2>3
<1>8. CASE Repeat(c)
  <2>1. /\ status[c] \in {"Unavailable", "DialogProjectionsIncomplete"}
        /\ status' = [status EXCEPT ![c] = "pending"]
        /\ reply' = [reply EXCEPT ![c] = None]
        /\ UNCHANGED <<dialogs, cards, lists, registered>>
    BY <1>8 DEF Repeat, stores
  <2>2. answers' = [answers EXCEPT ![c] = [status |-> "pending", dialog |-> None]]
    BY <1>0, <2>1, Answered
  <2>3. asked' = asked /\ shown' = shown  BY <2>1, AskedStays DEF shown, ShownBy
  <2>4. answers[c].status \in {"Unavailable", "DialogProjectionsIncomplete"}
    BY <2>1 DEF answers
  <2>5. Directory!AskAgain(c)
    BY <2>1, <2>2, <2>3, <2>4
    DEF Directory!AskAgain, Directory!Answer, asked, shown, answers
  <2>. QED  BY <2>5
<1>. QED
  BY <1>1, <1>2, <1>3, <1>4, <1>5, <1>6, <1>7, <1>8 DEF CallStep, Step

LEMMA NextDirectory ==
    CreationInv /\ [RepeatedNext]_vars => [Directory!Next]_Directory!vars
<1>. SUFFICES ASSUME CreationInv, [RepeatedNext]_vars
              PROVE  Directory!Next \/ UNCHANGED Directory!vars
  OBVIOUS
<1>0. Unseen => UNCHANGED Directory!vars
  BY DEF Unseen, Directory!vars, asked, shown, answers
<1>1. CASE RepeatedNext
  <2>1. CASE \E c \in Calls : CallStep(c)  BY <1>0, <1>1, <2>1, CallRefines
  <2>2. ASSUME NEW u \in Users, Register(u) PROVE Directory!Next
    <3>1. UNCHANGED <<dialogs, cards, lists, status, reply>>  BY <2>2 DEF Register
    <3>2. asked' = asked /\ shown' = shown /\ answers' = answers
      BY <1>1, <3>1, AskedStays, NotAnswered DEF shown, ShownBy
    <3>3. Directory!Register(u)
      BY <2>2, <3>1, <3>2 DEF Register, Directory!Register, asked, shown, answers
    <3>. QED  BY <3>3 DEF Directory!Next
  <2>3. CASE Settled
    BY <1>0, <1>1, <2>3, UnseenStep DEF Settled, vars, stores
  <2>. QED  BY <1>1, <2>1, <2>2, <2>3 DEF RepeatedNext, Next, CallStep
<1>2. CASE UNCHANGED vars
  <2>1. UNCHANGED <<dialogs, cards, lists, registered, request, status, reply>>
    BY <1>2 DEF vars, stores
  <2>2. asked' = asked /\ shown' = shown /\ answers' = answers
    BY <2>1 DEF asked, shown, ShownBy, answers, WithSelf, Key
  <2>. QED  BY <2>1, <2>2 DEF Directory!vars, asked, shown, answers
<1>. QED  BY <1>1, <1>2

\* For any number of users and calls, with any failures and repetitions, dialog
\* creation is a directory with at most one dialog per key.
THEOREM DirectoryCorrect == RepeatedSpec => ImplementsDirectory
  BY InitDirectory, NextDirectory, RepeatedInv, PTL
  DEF RepeatedSpec, ImplementsDirectory, Directory!Spec
==============================================================================
