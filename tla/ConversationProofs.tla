--------------------------- MODULE ConversationProofs ---------------------------
(***************************************************************************)
(* The store of conversations stays within convMax, and a conversation     *)
(* keeps its session, for every number of requests, objects, exits and     *)
(* attempts.                                                               *)
(***************************************************************************)
EXTENDS Conversation, FiniteSetTheorems, SequenceTheorems, TLAPS

\* Entries are only added one at a time.
StoreFits ==
    /\ IsFiniteSet(DOMAIN store)
    /\ Cardinality(DOMAIN store) <= ConvMax

\* A handler refers to an object exactly while it is serving, so that an
\* object is only made anew when nobody uses it.
ServingHoldsConv ==
    /\ DOMAIN req = Handlers
    /\ \A r \in Handlers :
          /\ DOMAIN req[r] = DOMAIN Idle
          /\ IF req[r].pc = "idle" THEN req[r].conv = None ELSE req[r].conv \in Convs

ConvsKnown ==
    /\ DOMAIN conv = Convs
    /\ \A c \in Convs : DOMAIN conv[c] = DOMAIN NewConv(None)
    /\ Points(store) \subseteq Convs

HoldInv == ServingHoldsConv /\ ConvsKnown

\* What convPut keeps fits, if it was one too many at most.
LEMMA KeptFits ==
  ASSUME NEW full, NEW order, NEW late,
         IsFiniteSet(DOMAIN full), Cardinality(DOMAIN full) <= ConvMax + 1,
         NEW keys \in Kept(full, order, late)
  PROVE  /\ keys \subseteq DOMAIN full
         /\ IsFiniteSet(keys)
         /\ Cardinality(keys) <= ConvMax
<1> DEFINE young == {k \in DOMAIN full : full[k] \notin late}
<1>1. ConvMax \in Nat
  BY ConstantsAssumption
<1>2. /\ young \subseteq DOMAIN full
      /\ IsFiniteSet(young)
      /\ Cardinality(young) <= Cardinality(DOMAIN full)
      /\ Cardinality(young) \in Nat
      /\ Cardinality(DOMAIN full) \in Nat
  BY FS_Subset, FS_CardinalityType
<1>3. CASE Cardinality(DOMAIN full) <= ConvMax
  <2>1. keys = DOMAIN full
    BY <1>3 DEF Kept
  <2> QED
    BY <2>1, <1>3
<1>4. CASE ~(Cardinality(DOMAIN full) <= ConvMax) /\ Cardinality(young) <= ConvMax
  <2>1. keys = young
    BY <1>4 DEF Kept
  <2> QED
    BY <2>1, <1>2, <1>4
<1>5. CASE ~(Cardinality(DOMAIN full) <= ConvMax) /\ ~(Cardinality(young) <= ConvMax)
  <2>1. PICK k \in young : keys = young \ {k}
    BY <1>5 DEF Kept, Oldest
  <2>2. IsFiniteSet(keys) /\ Cardinality(keys) = Cardinality(young) - 1
    BY <2>1, <1>2, FS_RemoveElement
  <2> QED
    BY <2>1, <2>2, <1>1, <1>2
<1> QED
  BY <1>3, <1>4, <1>5

\* convDelete
LEMMA DeleteFits ==
  ASSUME StoreFits, NEW key, Delete(key)
  PROVE  StoreFits'
<1>1. DOMAIN store' = DOMAIN store \ {key}
  BY DEF Delete, StoreBecomes
<1>2. ConvMax \in Nat
  BY ConstantsAssumption
<1>3. /\ IsFiniteSet(DOMAIN store')
      /\ Cardinality(DOMAIN store') <= Cardinality(DOMAIN store)
  BY <1>1, FS_Subset DEF StoreFits
<1>4. Cardinality(DOMAIN store') \in Nat /\ Cardinality(DOMAIN store) \in Nat
  BY <1>3, FS_CardinalityType DEF StoreFits
<1> QED
  BY <1>2, <1>3, <1>4 DEF StoreFits

\* convPut
LEMMA PutFits ==
  ASSUME StoreFits, NEW key, NEW c, Put(key, c)
  PROVE  StoreFits'
<1> DEFINE full == [k \in DOMAIN store \cup {key} |-> IF k = key THEN c ELSE store[k]]
           order == Touched(c)
           late == expired \ {c}
<1>1. PICK keys \in Kept(full, order, late) :
         StoreBecomes([k \in keys |-> full[k]], order, late)
  BY DEF Put
<1>2. DOMAIN full = DOMAIN store \cup {key}
  OBVIOUS
<1>3. /\ IsFiniteSet(DOMAIN full)
      /\ Cardinality(DOMAIN full) <= ConvMax + 1
  <2>1. Cardinality(DOMAIN store) \in Nat /\ ConvMax \in Nat
    BY FS_CardinalityType, ConstantsAssumption DEF StoreFits
  <2>2. /\ IsFiniteSet(DOMAIN store \cup {key})
        /\ \/ Cardinality(DOMAIN store \cup {key}) = Cardinality(DOMAIN store)
           \/ Cardinality(DOMAIN store \cup {key}) = Cardinality(DOMAIN store) + 1
    BY FS_AddElement DEF StoreFits
  <2> HIDE DEF full
  <2> QED
    BY <1>2, <2>1, <2>2 DEF StoreFits
<1>4. DOMAIN store' = keys
  BY <1>1 DEF StoreBecomes
<1> HIDE DEF full, order, late
<1>5. IsFiniteSet(keys) /\ Cardinality(keys) <= ConvMax
  BY <1>3, KeptFits
<1> QED
  BY <1>4, <1>5 DEF StoreFits

\* A request that ends with an error.
LEMMA FailFits ==
  ASSUME StoreFits, NEW r \in Handlers, Fail(r)
  PROVE  StoreFits'
<1>1. CASE UNCHANGED store
  BY <1>1 DEF StoreFits
<1>2. CASE Delete(ParentKey(req[r].messages))
  BY <1>2, DeleteFits
<1> QED
  BY <1>1, <1>2 DEF Fail

\* A request that gives its exit up, or ends because no change is left.
LEMMA GiveUpExitFits ==
  ASSUME StoreFits, NEW r \in Handlers, GiveUpExit(r)
  PROVE  StoreFits'
<1>1. CASE UNCHANGED store
  BY <1>1 DEF StoreFits
<1>2. CASE Fail(r)
  BY <1>2, FailFits
<1> QED
  BY <1>1, <1>2 DEF GiveUpExit

\* The store never holds more than convMax entries (conversation.go:82-99),
\* whatever requests come, fail, expire or are lost by a restart.
THEOREM StoreStaysBounded == Spec => []StoreBounded
<1>1. Init => StoreFits
  <2> SUFFICES ASSUME Init PROVE StoreFits
    OBVIOUS
  <2>1. DOMAIN store = {}
    BY DEF Init, Empty
  <2> QED
    BY <2>1, FS_EmptySet, ConstantsAssumption DEF StoreFits
<1>2. StoreFits /\ [Next]_vars => StoreFits'
  <2> SUFFICES ASSUME StoreFits, [Next]_vars PROVE StoreFits'
    OBVIOUS
  <2>1. CASE UNCHANGED store
    BY <2>1 DEF StoreFits
  <2>2. ASSUME NEW r \in Handlers, Begin(r) PROVE StoreFits'
    <3>1. PICK history \in answered, message \in Messages :
             Hit(r, history, message) \/ Miss(r, history, message)
      BY <2>2 DEF Begin
    <3>2. UNCHANGED store \/ Delete(Canonical(history))
      BY <3>1 DEF Hit, Miss
    <3> QED
      BY <2>1, <3>2, DeleteFits
  <2>3. ASSUME NEW r \in Handlers, NoExit(r) PROVE StoreFits'
    BY <2>3, FailFits DEF NoExit
  <2>4. ASSUME NEW r \in Handlers, SessionFails(r) PROVE StoreFits'
    BY <2>4, GiveUpExitFits DEF SessionFails
  <2>5. ASSUME NEW r \in Handlers, AttemptFails(r) PROVE StoreFits'
    <3>1. Fail(r) \/ GiveUpExit(r) \/ UNCHANGED store
      BY <2>5 DEF AttemptFails
    <3> QED
      BY <3>1, <2>1, FailFits, GiveUpExitFits
  <2>6. ASSUME NEW r \in Handlers, Store(r) PROVE StoreFits'
    BY <2>6, PutFits DEF Store
  <2>7. ASSUME NEW r \in Handlers, NothingToStore(r) PROVE StoreFits'
    BY <2>7, FailFits DEF NothingToStore
  <2>8. ASSUME NEW r \in Handlers, TakeExit(r) \/ Build(r) \/ Answered(r)
        PROVE StoreFits'
    BY <2>1, <2>8 DEF TakeExit, Build, Answered
  <2>9. CASE Expires
    BY <2>1, <2>9 DEF Expires
  <2>10. CASE Restart
    <3>1. DOMAIN store' = {}
      BY <2>10 DEF Restart, StoreBecomes, Empty
    <3> QED
      BY <3>1, FS_EmptySet, ConstantsAssumption DEF StoreFits
  <2>11. CASE UNCHANGED vars
    BY <2>1, <2>11 DEF vars
  <2> QED
    BY <2>2, <2>3, <2>4, <2>5, <2>6, <2>7, <2>8, <2>9, <2>10, <2>11
       DEF Next, Step
<1>3. StoreFits => StoreBounded
  BY DEF StoreFits, StoreBounded
<1> QED
  BY <1>1, <1>2, <1>3, PTL DEF Spec

-------------------------------------------------------------------------------
\* What a step of a handler leaves it with: nothing, or the object it had.
LEMMA FailHolds ==
  ASSUME HoldInv, NEW r \in Handlers, Fail(r)
  PROVE  ServingHoldsConv' /\ Points(store') \subseteq Convs
<1>1. ServingHoldsConv'
  BY DEF HoldInv, ServingHoldsConv, Fail, Idle
<1>2. Points(store') \subseteq Points(store)
  BY DEF Fail, Delete, StoreBecomes, Points
<1> QED
  BY <1>1, <1>2 DEF HoldInv, ConvsKnown

\* The same when it gives its exit up.
LEMMA GiveUpExitHolds ==
  ASSUME HoldInv, NEW r \in Handlers, req[r].pc # "idle", GiveUpExit(r)
  PROVE  ServingHoldsConv' /\ Points(store') \subseteq Convs
<1>1. CASE req[r].switch < MaxProxySwitches
  <2>1. ServingHoldsConv'
    BY <1>1, ZenonT(60) DEF HoldInv, ServingHoldsConv, GiveUpExit, Idle
  <2> QED
    BY <1>1, <2>1 DEF HoldInv, ConvsKnown, GiveUpExit
<1>2. CASE ~(req[r].switch < MaxProxySwitches)
  BY <1>2, FailHolds DEF GiveUpExit
<1> QED
  BY <1>1, <1>2

\* Garbage is made anew, everything else stays as it is.
LEMMA CollectedKnown ==
  ASSUME NEW objects, \A c \in Convs : DOMAIN objects[c] = DOMAIN NewConv(None),
         conv' = Collected(objects)
  PROVE  /\ DOMAIN conv' = Convs
         /\ \A c \in Convs : DOMAIN conv'[c] = DOMAIN NewConv(None)
BY DEF Collected, NewConv

\* Every step keeps to it: who refers to an object, and that it is one.
LEMMA HoldStep ==
  ASSUME HoldInv, [Next]_vars
  PROVE  HoldInv'
<1>1. ASSUME NEW r \in Handlers, Begin(r) PROVE HoldInv'
  <2>1. PICK history \in answered, message \in Messages :
           Hit(r, history, message) \/ Miss(r, history, message)
    BY <1>1 DEF Begin
  <2>2. CASE Hit(r, history, message)
    <3>1. store[Canonical(history)] \in Convs
      BY <2>2 DEF Hit, Known, HoldInv, ConvsKnown, Points
    <3>2. ServingHoldsConv'
      BY <2>2, <3>1 DEF Hit, NewRequest, Idle, HoldInv, ServingHoldsConv
    <3>3. ConvsKnown'
      BY <2>2 DEF Hit, HoldInv, ConvsKnown, NewConv
    <3> QED
      BY <3>2, <3>3 DEF HoldInv
  <2>3. CASE Miss(r, history, message)
    <3>1. PICK account \in Accounts \cup {None}, c \in Free :
             /\ req' = [req EXCEPT ![r] =
                          NewRequest(Append(history, message), c, TRUE)]
             /\ conv' = Collected([conv EXCEPT ![c] = NewConv(account)])
      BY <2>3 DEF Miss
    <3>2. ServingHoldsConv'
      BY <3>1 DEF Free, NewRequest, Idle, HoldInv, ServingHoldsConv
    <3>3. Points(store') \subseteq Convs
      BY <2>3 DEF Miss, Delete, StoreBecomes, Points, HoldInv, ConvsKnown
    <3>4. \A d \in Convs :
             DOMAIN [conv EXCEPT ![c] = NewConv(account)][d] = DOMAIN NewConv(None)
      BY DEF HoldInv, ConvsKnown, NewConv
    <3>5. /\ DOMAIN conv' = Convs
          /\ \A d \in Convs : DOMAIN conv'[d] = DOMAIN NewConv(None)
      BY <3>1, <3>4, CollectedKnown
    <3> QED
      BY <3>2, <3>3, <3>5 DEF HoldInv, ConvsKnown
  <2> QED
    BY <2>1, <2>2, <2>3
<1>2. ASSUME NEW r \in Handlers, TakeExit(r) PROVE HoldInv'
  BY <1>2 DEF TakeExit, HoldInv, ServingHoldsConv, ConvsKnown, Points, Idle
<1>3. ASSUME NEW r \in Handlers, Build(r) PROVE HoldInv'
  <2>1. ServingHoldsConv'
    BY <1>3 DEF Build, HoldInv, ServingHoldsConv, Idle
  <2>2. ConvsKnown'
    BY <1>3 DEF Build, HoldInv, ConvsKnown, NewConv
  <2> QED
    BY <2>1, <2>2 DEF HoldInv
<1>4. ASSUME NEW r \in Handlers, Answered(r) PROVE HoldInv'
  <2>1. ServingHoldsConv'
    BY <1>4 DEF Answered, HoldInv, ServingHoldsConv, Idle
  <2>2. ConvsKnown'
    BY <1>4 DEF Answered, HoldInv, ConvsKnown, NewConv
  <2> QED
    BY <2>1, <2>2 DEF HoldInv
<1>5. ASSUME ServingHoldsConv', Points(store') \subseteq Convs, conv' = Collected(conv)
      PROVE HoldInv'
  <2>1. \A c \in Convs : DOMAIN conv[c] = DOMAIN NewConv(None)
    BY DEF HoldInv, ConvsKnown
  <2> QED
    BY <1>5, <2>1, CollectedKnown DEF HoldInv, ConvsKnown
<1>6. ASSUME NEW r \in Handlers, NoExit(r) PROVE HoldInv'
  BY <1>6, <1>5, FailHolds DEF NoExit
<1>7. ASSUME NEW r \in Handlers, SessionFails(r) PROVE HoldInv'
  BY <1>7, <1>5, GiveUpExitHolds DEF SessionFails
<1>8. ASSUME NEW r \in Handlers, AttemptFails(r) PROVE HoldInv'
  <2>1. CASE Fail(r)
    BY <1>8, <2>1, <1>5, FailHolds DEF AttemptFails
  <2>2. CASE GiveUpExit(r)
    BY <1>8, <2>2, <1>5, GiveUpExitHolds DEF AttemptFails
  <2>3. CASE UNCHANGED store /\ req' = [req EXCEPT ![r].attempt = @ + 1]
    <3>1. ServingHoldsConv'
      BY <2>3 DEF HoldInv, ServingHoldsConv, Idle
    <3>2. Points(store') \subseteq Convs
      BY <2>3 DEF HoldInv, ConvsKnown
    <3> QED
      BY <1>8, <3>1, <3>2, <1>5 DEF AttemptFails
  <2> QED
    BY <1>8, <2>1, <2>2, <2>3 DEF AttemptFails
<1>9. ASSUME NEW r \in Handlers, Store(r) PROVE HoldInv'
  <2>1. ServingHoldsConv'
    BY <1>9 DEF Store, HoldInv, ServingHoldsConv, Idle
  <2>2. req[r].conv \in Convs
    BY <1>9 DEF Store, HoldInv, ServingHoldsConv
  <2>3. Points(store') \subseteq Points(store) \cup {req[r].conv}
    <3> DEFINE key == ChildKey(req[r].messages, req[r].reply)
               full == [k \in DOMAIN store \cup {key} |->
                           IF k = key THEN req[r].conv ELSE store[k]]
               order == Touched(req[r].conv)
               late == expired \ {req[r].conv}
    <3>1. PICK keys \in Kept(full, order, late) : store' = [k \in keys |-> full[k]]
      BY <1>9 DEF Store, Put, StoreBecomes
    <3>2. keys \subseteq DOMAIN full
      <4> HIDE DEF full, order, late
      <4> QED
        BY <3>1 DEF Kept
    <3> QED
      BY <3>1, <3>2 DEF Points
  <2>4. \A c \in Convs :
           DOMAIN [conv EXCEPT ![req[r].conv].told = Append(req[r].messages, req[r].reply)][c]
             = DOMAIN NewConv(None)
    BY <2>2 DEF HoldInv, ConvsKnown, NewConv
  <2>5. /\ DOMAIN conv' = Convs
        /\ \A c \in Convs : DOMAIN conv'[c] = DOMAIN NewConv(None)
    BY <1>9, <2>4, CollectedKnown DEF Store
  <2> QED
    BY <2>1, <2>2, <2>3, <2>5 DEF HoldInv, ConvsKnown
<1>10. ASSUME NEW r \in Handlers, NothingToStore(r) PROVE HoldInv'
  BY <1>10, <1>5, FailHolds DEF NothingToStore
<1>11. CASE Expires
  BY <1>11 DEF Expires, HoldInv, ServingHoldsConv, ConvsKnown, Points
<1>12. CASE Restart
  BY <1>12 DEF Restart, StoreBecomes, Points, Empty, HoldInv, ServingHoldsConv,
               ConvsKnown, Idle, NewConv
<1>13. CASE UNCHANGED vars
  BY <1>13 DEF vars, HoldInv, ServingHoldsConv, ConvsKnown, Points
<1> QED
  BY <1>1, <1>2, <1>3, <1>4, <1>6, <1>7, <1>8, <1>9, <1>10, <1>11, <1>12, <1>13
     DEF Next, Step

\* What SessionStays says of one handler.
Stays(r) ==
    LET c == req[r].conv
    IN  c # None /\ c = req'[r].conv /\ conv[c].session # None =>
           conv'[c].session = conv[c].session

\* Collecting garbage leaves the session of an object in use.
LEMMA CollectedStays ==
  ASSUME HoldInv, NEW r \in Handlers, NEW objects, conv' = Collected(objects),
         \/ objects = conv
         \/ /\ req[r].conv \in Convs => req[r].conv \in DOMAIN objects
            /\ objects[req[r].conv].session = conv[req[r].conv].session
  PROVE  Stays(r)
<1> SUFFICES ASSUME req[r].conv # None, req[r].conv = req'[r].conv
             PROVE  conv'[req[r].conv].session = conv[req[r].conv].session
  BY DEF Stays
<1>1. req[r].conv \in Convs
  BY DEF HoldInv, ServingHoldsConv
<1>2. conv'[req[r].conv] = objects[req[r].conv]
  BY <1>1 DEF Collected
<1> QED
  BY <1>2

\* No step, of the handler itself or of another, changes the session of the
\* object it uses.
LEMMA StaysStep ==
  ASSUME HoldInv, [Next]_vars, NEW r \in Handlers
  PROVE  Stays(r)
<1>1. ASSUME NEW s \in Handlers, Begin(s) PROVE Stays(r)
  <2>1. PICK history \in answered, message \in Messages :
           Hit(s, history, message) \/ Miss(s, history, message)
    BY <1>1 DEF Begin
  <2>2. CASE Hit(s, history, message)
    BY <2>2 DEF Hit, Stays, HoldInv, ServingHoldsConv, ConvsKnown, NewConv
  <2>3. CASE Miss(s, history, message)
    <3>1. PICK account \in Accounts \cup {None}, c \in Free :
             conv' = Collected([conv EXCEPT ![c] = NewConv(account)])
      BY <2>3 DEF Miss
    <3>2. req[r].conv # c
      BY <3>1 DEF Free, InUse
    <3>3. req[r].conv \in Convs =>
             [conv EXCEPT ![c] = NewConv(account)][req[r].conv] = conv[req[r].conv]
      BY <3>2 DEF HoldInv, ConvsKnown
    <3>4. req[r].conv \in Convs \/ req[r].conv = None
      BY DEF HoldInv, ServingHoldsConv
    <3>5. CASE req[r].conv = None
      BY <3>5 DEF Stays
    <3>6. CASE req[r].conv \in Convs
      BY <3>1, <3>3, <3>6, CollectedStays DEF HoldInv, ConvsKnown
    <3> QED
      BY <3>4, <3>5, <3>6
  <2> QED
    BY <2>1, <2>2, <2>3
<1>2. CASE UNCHANGED conv
  BY <1>2 DEF Stays
<1>3. ASSUME NEW s \in Handlers, Build(s) PROVE Stays(r)
  BY <1>3 DEF Build, Stays, HoldInv, ServingHoldsConv, ConvsKnown, NewConv
<1>4. ASSUME NEW s \in Handlers, Answered(s) PROVE Stays(r)
  BY <1>4 DEF Answered, Stays, HoldInv, ServingHoldsConv, ConvsKnown, NewConv
<1>5. CASE conv' = Collected(conv)
  BY <1>5, CollectedStays
<1>6. ASSUME NEW s \in Handlers, Store(s) PROVE Stays(r)
  <2> DEFINE objects ==
        [conv EXCEPT ![req[s].conv].told = Append(req[s].messages, req[s].reply)]
  <2>1. conv' = Collected(objects)
    BY <1>6 DEF Store
  <2>2. CASE req[r].conv = None
    BY <2>2 DEF Stays
  <2>3. CASE req[r].conv \in Convs
    <3>1. /\ req[r].conv \in DOMAIN objects
          /\ objects[req[r].conv].session = conv[req[r].conv].session
      BY <2>3 DEF HoldInv, ConvsKnown, NewConv
    <3> QED
      BY <2>1, <3>1, CollectedStays
  <2> QED
    BY <2>2, <2>3 DEF HoldInv, ServingHoldsConv
<1>7. CASE Restart
  BY <1>7 DEF Restart, Stays, Idle
<1>8. ASSUME NEW s \in Handlers,
             NoExit(s) \/ SessionFails(s) \/ AttemptFails(s) \/ NothingToStore(s)
      PROVE  Stays(r)
  BY <1>5, <1>8 DEF NoExit, SessionFails, AttemptFails, NothingToStore
<1>9. ASSUME NEW s \in Handlers, TakeExit(s) PROVE Stays(r)
  BY <1>2, <1>9 DEF TakeExit
<1> QED
  BY <1>1, <1>2, <1>3, <1>4, <1>6, <1>7, <1>8, <1>9 DEF Next, Step, Expires, vars

\* A conversation keeps its account or its anonymous session
\* (conversation.go:20-21): no request ever changes the one it has, nor that
\* of a conversation another request is using.
THEOREM SessionsStay == Spec => SessionStays
<1>1. Init => HoldInv
  BY DEF Init, HoldInv, ServingHoldsConv, ConvsKnown, Points, Empty, Idle, NewConv
<1>2. HoldInv /\ [Next]_vars => HoldInv'
  BY HoldStep
<1>3. HoldInv /\ [Next]_vars =>
        [\A r \in Handlers :
            LET c == req[r].conv
            IN  c # None /\ c = req'[r].conv /\ conv[c].session # None =>
                   conv'[c].session = conv[c].session]_vars
  BY StaysStep DEF Stays
<1> QED
  BY <1>1, <1>2, <1>3, PTL DEF Spec, SessionStays

-------------------------------------------------------------------------------
(***************************************************************************)
(* Types and places.  Good(q) is what holds of the local variables of one  *)
(* handler: it has a place at an exit exactly while it fetches its session *)
(* and while it waits for the answer.                                      *)
(***************************************************************************)
Good(q) ==
    /\ q \in HandlerState
    /\ q.pc = "idle" => q.conv = None
    /\ q.pc # "idle" => q.conv \in Convs /\ q.messages # <<>>
    /\ q.exit # None <=> q.pc \in {"session", "send"}
    /\ q.pc = "store" => q.reply \in Replies \cup {NoText}

AllGood == req \in [Handlers -> HandlerState] /\ \A r \in Handlers : Good(req[r])

\* A handler without a request is in order.
LEMMA GoodIdle == Good(Idle)
<1>1. /\ 0 \in 0 .. MaxProxySwitches /\ 0 \in 0 .. RetryAttempts - 1
      /\ <<>> \in Seq(Said) /\ {} \in SUBSET Exits
  BY ConstantsAssumption
<1> QED
  BY <1>1 DEF Good, Idle, HandlerState

\* A request that has arrived is in order.
LEMMA GoodNew ==
  ASSUME NEW messages \in Seq(Said), messages # <<>>, NEW c \in Convs,
         NEW fresh \in BOOLEAN
  PROVE  Good(NewRequest(messages, c, fresh))
<1>1. /\ 0 \in 0 .. MaxProxySwitches /\ 0 \in 0 .. RetryAttempts - 1
      /\ <<>> \in Seq(Said) /\ {} \in SUBSET Exits
  BY ConstantsAssumption
<1>2. None \notin Accounts \cup Exits \cup Convs \cup Replies
  BY ConstantsAssumption
<1> QED
  BY <1>1, <1>2 DEF Good, HandlerState, NewRequest, Idle

\* TakeExit, Build, Answered, another attempt, another exit: what they make of
\* the handler's variables.
LEMMA GoodUpdates ==
  ASSUME NEW q, Good(q)
  PROVE  /\ \A e \in Exits : q.pc = "exit" =>
               Good([q EXCEPT !.exit = e, !.pc = "session", !.attempt = 0])
         /\ \A base \in Seq(Said) : q.pc = "session" =>
               Good([q EXCEPT !.base = base, !.pc = "send"])
         /\ \A reply \in Replies \cup {NoText} : q.pc = "send" =>
               Good([q EXCEPT !.pc = "store", !.reply = reply, !.exit = None])
         /\ q.attempt + 1 < RetryAttempts => Good([q EXCEPT !.attempt = @ + 1])
         /\ q.exit # None /\ q.switch < MaxProxySwitches =>
               Good([q EXCEPT !.pc = "exit", !.exit = None, !.switch = @ + 1,
                              !.excluded = @ \cup {q.exit}])
<1>1. /\ 0 \in 0 .. RetryAttempts - 1
      /\ RetryAttempts \in Nat /\ MaxProxySwitches \in Nat
      /\ None \notin Accounts \cup Exits \cup Convs \cup Replies
  BY ConstantsAssumption
<1>2. q \in HandlerState
  BY DEF Good
<1>3. ASSUME NEW e \in Exits, q.pc = "exit"
      PROVE  Good([q EXCEPT !.exit = e, !.pc = "session", !.attempt = 0])
  BY <1>1, <1>2, <1>3 DEF Good, HandlerState
<1>4. ASSUME NEW base \in Seq(Said), q.pc = "session"
      PROVE  Good([q EXCEPT !.base = base, !.pc = "send"])
  BY <1>2, <1>4 DEF Good, HandlerState
<1>5. ASSUME NEW reply \in Replies \cup {NoText}, q.pc = "send"
      PROVE  Good([q EXCEPT !.pc = "store", !.reply = reply, !.exit = None])
  BY <1>1, <1>2, <1>5 DEF Good, HandlerState
<1>6. ASSUME q.attempt + 1 < RetryAttempts
      PROVE  Good([q EXCEPT !.attempt = @ + 1])
  <2>1. q.attempt + 1 \in 0 .. RetryAttempts - 1
    BY <1>1, <1>2, <1>6 DEF HandlerState
  <2> DEFINE n == q.attempt + 1
  <2> HIDE DEF n
  <2>2. [q EXCEPT !.attempt = n] \in HandlerState
    BY <1>2, <2>1 DEF HandlerState, n
  <2>3. Good([q EXCEPT !.attempt = n])
    BY <1>2, <2>2 DEF Good, HandlerState
  <2> QED
    BY <2>3 DEF n
<1>7. ASSUME q.exit # None, q.switch < MaxProxySwitches
      PROVE  Good([q EXCEPT !.pc = "exit", !.exit = None, !.switch = @ + 1,
                            !.excluded = @ \cup {q.exit}])
  <2> DEFINE n == q.switch + 1
             x == q.excluded \cup {q.exit}
  <2>1. n \in 0 .. MaxProxySwitches /\ x \in SUBSET Exits
    BY <1>1, <1>2, <1>7 DEF HandlerState
  <2> HIDE DEF n, x
  <2>2. Good([q EXCEPT !.pc = "exit", !.exit = None, !.switch = n, !.excluded = x])
    BY <1>2, <1>7, <2>1 DEF Good, HandlerState
  <2> QED
    BY <2>2 DEF n, x
<1> QED
  BY <1>3, <1>4, <1>5, <1>6, <1>7

-------------------------------------------------------------------------------
\* What the store must be: typed, and ordered by the last update.
StoreOK ==
    /\ \A k \in DOMAIN store : k \in Seq(Said) /\ store[k] \in Convs
    /\ StrictOrder(older, Points(store))
    /\ expired \subseteq Points(store)

\* The store stays in order when its entries point to objects of the heap that are ordered.
LEMMA StoreBecomesOK ==
  ASSUME NEW s, NEW order, NEW late, NEW P, StoreBecomes(s, order, late),
         StrictOrder(order, P), Points(s) \subseteq P,
         \A k \in DOMAIN s : k \in Seq(Said) /\ s[k] \in Convs
  PROVE  StoreOK'
<1>1. store' = s /\ older' = order \cap (Points(s) \X Points(s))
      /\ expired' = late \cap Points(s)
  BY DEF StoreBecomes
<1>2. Points(store)' = Points(s)
  BY <1>1 DEF Points
<1>3. StrictOrder(order \cap (Points(s) \X Points(s)), Points(s))
  <2> DEFINE S == Points(s)
  <2> HIDE DEF S
  <2> SUFFICES ASSUME StrictOrder(order, P), S \subseteq P
               PROVE  StrictOrder(order \cap (S \X S), S)
    BY DEF S
  <2> QED
    BY DEF StrictOrder
<1> QED
  BY <1>1, <1>2, <1>3 DEF StoreOK

\* Taking an entry out keeps the store in order.
LEMMA DeleteOK ==
  ASSUME StoreOK, NEW key, Delete(key)
  PROVE  StoreOK'
<1> DEFINE s == [k \in DOMAIN store \ {key} |-> store[k]]
<1>1. StoreBecomes(s, older, expired)
  BY DEF Delete
<1>2. Points(s) \subseteq Points(store)
  BY DEF Points
<1>3. \A k \in DOMAIN s : k \in Seq(Said) /\ s[k] \in Convs
  BY DEF StoreOK
<1> HIDE DEF s
<1> QED
  BY <1>1, <1>2, <1>3, StoreBecomesOK DEF StoreOK

\* An object that is updated becomes the youngest.
LEMMA TouchedOrder ==
  ASSUME NEW c, StrictOrder(older, Points(store))
  PROVE  StrictOrder(Touched(c), Points(store) \cup {c})
<1> DEFINE S == Points(store)
           P == S \cup {c}
           kept == {p \in older : p[1] # c /\ p[2] # c}
           new == {<<d, c>> : d \in S \ {c}}
<1>1. older \subseteq S \X S
  BY DEF StrictOrder
<1>2. \A d, f : <<d, f>> \in kept <=> <<d, f>> \in older /\ d # c /\ f # c
  OBVIOUS
<1>3. \A d, f : <<d, f>> \in new <=> d \in S \ {c} /\ f = c
  OBVIOUS
<1>4. Touched(c) = kept \cup new
  BY DEF Touched
<1>5. kept \cup new \subseteq P \X P
  <2>1. kept \subseteq S \X S
    BY <1>1
  <2>2. new \subseteq P \X P
    OBVIOUS
  <2> QED
    BY <2>1, <2>2
<1> HIDE DEF S, kept, new
<1>6. \A d, f : <<d, f>> \in Touched(c) <=>
                   \/ <<d, f>> \in older /\ d # c /\ f # c
                   \/ d \in S \ {c} /\ f = c
  BY <1>2, <1>3, <1>4
<1>7. /\ \A d, f \in S : <<d, f>> \in older <=> d # f /\ <<f, d>> \notin older
      /\ \A d, f, g \in S :
            <<d, f>> \in older /\ <<f, g>> \in older => <<d, g>> \in older
  BY DEF StrictOrder, S
<1>8. \A d, f \in P : <<d, f>> \in Touched(c) <=> d # f /\ <<f, d>> \notin Touched(c)
  <2> SUFFICES ASSUME NEW d \in P, NEW f \in P
               PROVE  <<d, f>> \in Touched(c) <=> d # f /\ <<f, d>> \notin Touched(c)
    OBVIOUS
  <2>1. CASE d = c \/ f = c
    BY <1>6, <2>1
  <2>2. CASE d # c /\ f # c
    BY <1>6, <1>7, <2>2
  <2> QED
    BY <2>1, <2>2
<1>9. \A d, f, g \in P :
         <<d, f>> \in Touched(c) /\ <<f, g>> \in Touched(c) => <<d, g>> \in Touched(c)
  <2> SUFFICES ASSUME NEW d \in P, NEW f \in P, NEW g \in P,
                      <<d, f>> \in Touched(c), <<f, g>> \in Touched(c)
               PROVE  <<d, g>> \in Touched(c)
    OBVIOUS
  <2>1. f # c /\ d # c
    BY <1>6
  <2>2. CASE g = c
    BY <1>6, <2>1, <2>2
  <2>3. CASE g # c
    BY <1>6, <1>7, <2>1, <2>3
  <2> QED
    BY <2>2, <2>3
<1> QED
  BY <1>4, <1>5, <1>8, <1>9 DEF StrictOrder, S

\* Storing an object as the one last updated keeps the store in order.
LEMMA PutOK ==
  ASSUME StoreOK, NEW key \in Seq(Said), NEW c \in Convs, Put(key, c)
  PROVE  StoreOK'
<1> DEFINE full == [k \in DOMAIN store \cup {key} |-> IF k = key THEN c ELSE store[k]]
           order == Touched(c)
           late == expired \ {c}
<1>1. PICK keys \in Kept(full, order, late) :
         StoreBecomes([k \in keys |-> full[k]], order, late)
  BY DEF Put
<1>2. keys \subseteq DOMAIN full
  <2> HIDE DEF full, order, late
  <2> QED
    BY <1>1 DEF Kept, Oldest
<1>3. \A k \in DOMAIN full : k \in Seq(Said) /\ full[k] \in Convs
  BY DEF StoreOK
<1>4. \A k \in DOMAIN full : full[k] \in Points(store) \cup {c}
  BY DEF Points
<1> DEFINE s == [k \in keys |-> full[k]]
<1>5. /\ DOMAIN s = keys
      /\ Points(s) \subseteq Points(store) \cup {c}
      /\ \A k \in DOMAIN s : k \in Seq(Said) /\ s[k] \in Convs
  <2> HIDE DEF full
  <2> QED
    BY <1>2, <1>3, <1>4 DEF Points
<1> HIDE DEF full, s, late
<1>6. StrictOrder(order, Points(store) \cup {c})
  BY TouchedOrder DEF StoreOK
<1> HIDE DEF order
<1> QED
  BY <1>1, <1>5, <1>6, StoreBecomesOK DEF s

-------------------------------------------------------------------------------
\* Histories: a message is appended and taken off again.
LEMMA AppendFront ==
  ASSUME NEW S, NEW h \in Seq(S), NEW m \in S
  PROVE  /\ Append(h, m) \in Seq(S) /\ Append(h, m) # <<>>
         /\ Front(Append(h, m)) = h /\ Last(Append(h, m)) = m
<1> DEFINE a == Append(h, m)
           n == Len(h)
<1>1. /\ a \in Seq(S) /\ Len(a) = n + 1 /\ n \in Nat
      /\ a[n + 1] = m /\ \A i \in 1..n : a[i] = h[i] /\ h[i] \in S
  BY AppendProperties, LenProperties, ElementOfSeq
<1> HIDE DEF a, n
<1>2. a # <<>>
  BY <1>1, EmptySeq
<1>3. Last(a) = m
  BY <1>1 DEF Last
<1>4. Front(a) = SubSeq(a, 1, n)
  BY <1>1 DEF Front
<1>5. /\ SubSeq(a, 1, n) \in Seq(S)
      /\ Len(SubSeq(a, 1, n)) = IF 1 <= n THEN n - 1 + 1 ELSE 0
      /\ \A i \in 1..n - 1 + 1 : SubSeq(a, 1, n)[i] = a[1 + i - 1]
  BY <1>1, SubSeqProperties
<1>6. Len(SubSeq(a, 1, n)) = n /\ \A i \in 1..n : SubSeq(a, 1, n)[i] = h[i]
  BY <1>1, <1>5
<1>7. SubSeq(a, 1, n) = h
  BY <1>5, <1>6, SeqEqual DEF n
<1> QED
  BY <1>1, <1>2, <1>3, <1>4, <1>7 DEF a

\* A history is its messages but the last, and the last.
LEMMA FrontLast ==
  ASSUME NEW S, NEW s \in Seq(S), s # <<>>
  PROVE  /\ Front(s) \in Seq(S) /\ Last(s) \in S
         /\ Front(s) \o <<Last(s)>> = s
<1> DEFINE n == Len(s)
           f == Front(s)
<1>1. n \in Nat \ {0} /\ \A i \in 1..n : s[i] \in S
  BY EmptySeq, ElementOfSeq
<1>2. f = SubSeq(s, 1, n - 1) /\ Last(s) = s[n]
  BY DEF Front, Last
<1> HIDE DEF n, f
<1>3. /\ f \in Seq(S)
      /\ Len(f) = n - 1
      /\ \A i \in 1..n - 1 : f[i] = s[i]
  <2>1. /\ SubSeq(s, 1, n - 1) \in Seq(S)
        /\ Len(SubSeq(s, 1, n - 1)) = IF 1 <= n - 1 THEN (n - 1) - 1 + 1 ELSE 0
        /\ \A i \in 1..(n - 1) - 1 + 1 : SubSeq(s, 1, n - 1)[i] = s[1 + i - 1]
    BY <1>1, SubSeqProperties
  <2> QED
    BY <1>1, <1>2, <2>1
<1>4. Last(s) \in S
  BY <1>1, <1>2
<1> DEFINE l == <<Last(s)>>
           c == f \o l
<1>5. l \in Seq(S) /\ Len(l) = 1 /\ l[1] = s[n]
  BY <1>2, <1>4
<1> HIDE DEF l
<1>6. c \in Seq(S) /\ Len(c) = n
      /\ \A i \in 1..n : c[i] = IF i <= n - 1 THEN f[i] ELSE l[i - (n - 1)]
  <2>1. Len(f) + Len(l) = n
    BY <1>1, <1>3, <1>5
  <2>2. /\ c \in Seq(S) /\ Len(c) = Len(f) + Len(l)
        /\ \A i \in 1..Len(f) + Len(l) :
              c[i] = IF i <= Len(f) THEN f[i] ELSE l[i - Len(f)]
    BY <1>3, <1>5, ConcatProperties
  <2> HIDE DEF c
  <2> QED
    BY <1>3, <2>1, <2>2
<1>7. \A i \in 1..n : c[i] = s[i]
  BY <1>1, <1>3, <1>5, <1>6
<1> HIDE DEF c
<1>8. c = s
  BY <1>6, <1>7, SeqEqual DEF n
<1> QED
  BY <1>3, <1>4, <1>8 DEF c, l, f

\* A key is a history.
LEMMA CanonicalType ==
  ASSUME NEW h \in Seq(Said)
  PROVE  Canonical(h) \in Seq(Said)
<1>1. Len(h) \in Nat /\ \A i \in 1..Len(h) : h[i] \in Said
  BY LenProperties, ElementOfSeq
<1>2. Blank \in Said
  BY DEF Said
<1>3. Canonical(h) \in [1..Len(h) -> Said]
  BY <1>1, <1>2 DEF Canonical
<1> QED
  BY <1>1, <1>3, SeqDef

\* What Google holds after an answer to all of the client's history, or to
\* the new message behind the rest of it, is the client's history with the
\* answer.
LEMMA UpstreamIs ==
  ASSUME NEW q, q \in HandlerState, q.messages # <<>>, NEW reply \in Said
  PROVE  /\ Upstream(q, reply) \in Seq(Said)
         /\ q.base = (IF q.fresh THEN <<>> ELSE Front(q.messages)) =>
               Upstream(q, reply) = Append(q.messages, reply)
<1>1. /\ q.messages \in Seq(Said) /\ q.base \in Seq(Said) /\ q.fresh \in BOOLEAN
  BY DEF HandlerState
<1>2. /\ Front(q.messages) \in Seq(Said) /\ Last(q.messages) \in Said
      /\ Front(q.messages) \o <<Last(q.messages)>> = q.messages
  BY <1>1, FrontLast
<1> DEFINE t == IF q.fresh THEN q.messages ELSE <<Last(q.messages)>>
<1>3. t \in Seq(Said) /\ <<reply>> \in Seq(Said)
  BY <1>1, <1>2
<1>4. Upstream(q, reply) = q.base \o t \o <<reply>>
  BY DEF Upstream
<1>5. ASSUME q.base = (IF q.fresh THEN <<>> ELSE Front(q.messages))
      PROVE  q.base \o t = q.messages
  <2>1. CASE q.fresh
    BY <1>1, <1>5, <2>1, ConcatEmptySeq
  <2>2. CASE ~q.fresh
    BY <1>2, <1>5, <2>2
  <2> QED
    BY <2>1, <2>2
<1>6. q.messages \o <<reply>> = Append(q.messages, reply)
  BY <1>1, AppendIsConcat
<1> HIDE DEF t
<1>7. q.base \o t \in Seq(Said)
  BY <1>1, <1>3, ConcatProperties
<1>8. q.base \o t \o <<reply>> \in Seq(Said)
  BY <1>3, <1>7, ConcatProperties
<1> QED
  BY <1>4, <1>5, <1>6, <1>8

-------------------------------------------------------------------------------
\* The places at exit e are the requests on it, for one exit.
OnExit(e) == {r \in Handlers : req[r].exit = e}

Balance == \A e \in Exits : inflight[e] = Cardinality(OnExit(e))

TInv == TypeOK /\ AllGood /\ Balance

\* The handlers on an exit can be counted.
LEMMA OnExitFinite ==
  ASSUME NEW e
  PROVE  IsFiniteSet(OnExit(e)) /\ Cardinality(OnExit(e)) \in Nat
BY ConstantsAssumption, FS_Subset, FS_CardinalityType DEF OnExit

\* A step that changes one handler, and the places by what the handler takes
\* or gives back.
LEMMA OneHandler ==
  ASSUME AllGood, Balance, inflight \in [Exits -> Nat], NEW r \in Handlers,
         NEW q, Good(q), req' = [req EXCEPT ![r] = q],
         \/ inflight' = inflight /\ q.exit = req[r].exit
         \/ inflight' = FreedBy(req[r].exit) /\ q.exit = None
         \/ /\ req[r].exit = None /\ q.exit \in Exits
            /\ inflight' = [inflight EXCEPT ![q.exit] = @ + 1]
  PROVE  AllGood' /\ Balance' /\ inflight' \in [Exits -> Nat]
<1>1. req \in [Handlers -> HandlerState] /\ q \in HandlerState
  BY DEF AllGood, Good
<1>2. AllGood'
  BY <1>1 DEF AllGood
<1>3. req[r].exit \in Exits \cup {None} /\ q.exit \in Exits \cup {None} /\ None \notin Exits
  BY <1>1, ConstantsAssumption DEF HandlerState
<1>4. ASSUME NEW e \in Exits
      PROVE  inflight'[e] = Cardinality(OnExit(e)') /\ inflight'[e] \in Nat
  <2>1. OnExit(e)' = IF q.exit = e THEN OnExit(e) \cup {r} ELSE OnExit(e) \ {r}
    BY <1>1 DEF OnExit
  <2>2. r \in OnExit(e) <=> req[r].exit = e
    BY DEF OnExit
  <2>3. /\ IsFiniteSet(OnExit(e)) /\ Cardinality(OnExit(e)) \in Nat
        /\ inflight[e] = Cardinality(OnExit(e))
    BY OnExitFinite DEF Balance
  <2>4. IsFiniteSet(OnExit(e)') /\ Cardinality(OnExit(e)') \in Nat
    BY ConstantsAssumption, FS_Subset, FS_CardinalityType DEF OnExit
  <2>5. CASE q.exit = req[r].exit
    <3>1. OnExit(e)' = OnExit(e)
      BY <2>1, <2>2, <2>5
    <3>2. inflight'[e] = inflight[e]
      BY <1>3, <2>5 DEF FreedBy
    <3> QED
      BY <2>3, <3>1, <3>2
  <2>6. CASE q.exit = None /\ req[r].exit # None
    <3>1. inflight' = [inflight EXCEPT ![req[r].exit] = @ - 1]
      BY <1>3, <2>6 DEF FreedBy
    <3>2. CASE req[r].exit = e
      <4>1. OnExit(e)' = OnExit(e) \ {r} /\ r \in OnExit(e)
        BY <1>3, <2>1, <2>2, <2>6, <3>2
      <4>2. Cardinality(OnExit(e)') = Cardinality(OnExit(e)) - 1
        BY <2>3, <4>1, FS_RemoveElement
      <4>3. inflight'[e] = inflight[e] - 1
        BY <3>1, <3>2
      <4> QED
        BY <2>3, <2>4, <4>2, <4>3
    <3>3. CASE req[r].exit # e
      <4>1. OnExit(e)' = OnExit(e)
        BY <1>3, <2>1, <2>2, <2>6, <3>3
      <4> QED
        BY <2>3, <3>1, <3>3, <4>1
    <3> QED
      BY <3>2, <3>3
  <2>7. CASE req[r].exit = None /\ q.exit \in Exits
    <3>1. inflight' = [inflight EXCEPT ![q.exit] = @ + 1]
      BY <1>3, <2>7
    <3>2. CASE q.exit = e
      <4>1. OnExit(e)' = OnExit(e) \cup {r} /\ r \notin OnExit(e)
        BY <1>3, <2>1, <2>2, <2>7, <3>2
      <4>2. Cardinality(OnExit(e)') = Cardinality(OnExit(e)) + 1
        BY <2>3, <4>1, FS_AddElement
      <4>3. inflight'[e] = inflight[e] + 1
        BY <3>1, <3>2
      <4> QED
        BY <2>3, <4>2, <4>3
    <3>3. CASE q.exit # e
      <4>1. OnExit(e)' = OnExit(e)
        BY <1>3, <2>1, <2>2, <2>7, <3>3
      <4> QED
        BY <2>3, <3>1, <3>3, <4>1
    <3> QED
      BY <3>2, <3>3
  <2> QED
    BY <1>3, <2>5, <2>6, <2>7
<1>5. inflight' \in [Exits -> Nat]
  <2>1. DOMAIN inflight' = Exits /\ inflight' = [e \in Exits |-> inflight'[e]]
    BY DEF FreedBy
  <2> QED
    BY <1>4, <2>1
<1> QED
  BY <1>2, <1>4, <1>5 DEF Balance

\* Handlers, places and store: what the ways a request can end disturb.
Handled ==
    AllGood /\ Balance /\ inflight \in [Exits -> Nat] /\ StoreOK

TInvParts ==
    /\ Handled
    /\ conv \in [Convs -> ConvState]
    /\ answered \subseteq Seq(Said)
    /\ started \in 0 .. MaxRequests

\* The invariant in parts that steps can be looked at by.
LEMMA TInvIsParts == TInv <=> TInvParts
BY DEF TInv, TInvParts, Handled, TypeOK, StoreOK, AllGood

\* A step that leaves store and order alone keeps them in order.
LEMMA StoreSame ==
  ASSUME StoreOK, UNCHANGED <<store, older, expired>>
  PROVE  StoreOK'
<1>1. Points(store)' = Points(store)
  BY DEF Points
<1>2. StrictOrder(older, Points(store))'
  BY <1>1 DEF StoreOK, StrictOrder
<1> QED
  BY <1>1, <1>2 DEF StoreOK

\* A request that fails gives its place back and keeps the types.
LEMMA FailTypes ==
  ASSUME Handled, NEW r \in Handlers, Fail(r)
  PROVE  Handled'
<1>1. StoreOK'
  BY StoreSame, DeleteOK DEF Fail, Handled
<1>2. req' = [req EXCEPT ![r] = Idle] /\ inflight' = FreedBy(req[r].exit)
  BY DEF Fail
<1>3. Idle.exit = None
  BY DEF Idle
<1>4. AllGood' /\ Balance' /\ inflight' \in [Exits -> Nat]
  BY <1>2, <1>3, GoodIdle, OneHandler DEF Handled
<1> QED
  BY <1>1, <1>4 DEF Handled

\* A request that gives its exit up keeps the types.
LEMMA GiveUpExitTypes ==
  ASSUME Handled, NEW r \in Handlers, req[r].pc \in {"session", "send"}, GiveUpExit(r)
  PROVE  Handled'
<1>1. CASE req[r].switch < MaxProxySwitches
  <2> DEFINE q == [req[r] EXCEPT !.pc = "exit", !.exit = None, !.switch = @ + 1,
                                 !.excluded = @ \cup {req[r].exit}]
  <2>1. /\ req' = [req EXCEPT ![r] = q] /\ inflight' = FreedBy(req[r].exit)
        /\ UNCHANGED <<store, older, expired>>
    BY <1>1 DEF GiveUpExit
  <2>2. Good(req[r]) /\ req[r] \in HandlerState /\ req[r].exit # None
    BY DEF Handled, AllGood, Good
  <2>3. Good(q)
    BY <1>1, <2>2, GoodUpdates
  <2>4. q.exit = None
    BY <2>2 DEF HandlerState
  <2>5. StoreOK'
    BY <2>1, StoreSame DEF Handled
  <2> HIDE DEF q
  <2>6. AllGood' /\ Balance' /\ inflight' \in [Exits -> Nat]
    BY <2>1, <2>3, <2>4, OneHandler DEF Handled
  <2> QED
    BY <2>5, <2>6 DEF Handled
<1>2. CASE ~(req[r].switch < MaxProxySwitches)
  BY <1>2, FailTypes DEF GiveUpExit
<1> QED
  BY <1>1, <1>2

\* The object of a new conversation has the type of objects.
LEMMA NewConvType ==
  ASSUME NEW session \in Accounts \cup Exits \cup {None}
  PROVE  NewConv(session) \in ConvState
BY DEF NewConv, ConvState

\* Collecting objects nothing points to keeps the types of the heap.
LEMMA CollectedType ==
  ASSUME NEW objects \in [Convs -> ConvState], conv' = Collected(objects)
  PROVE  conv' \in [Convs -> ConvState]
<1>1. NewConv(None) \in ConvState
  BY NewConvType
<1> QED
  BY <1>1 DEF Collected

\* Every step keeps types, places and order.
LEMMA TypesStep ==
  ASSUME TInvParts, [Next]_vars
  PROVE  TInvParts'
<1>1. ASSUME NEW r \in Handlers
      PROVE  Good(req[r]) /\ req[r] \in HandlerState /\ req \in [Handlers -> HandlerState]
  BY DEF TInvParts, Handled, AllGood, Good
<1>2. ASSUME NEW r \in Handlers, Begin(r) PROVE TInvParts'
  <2>1. PICK history \in answered, message \in Messages :
           Hit(r, history, message) \/ Miss(r, history, message)
    BY <1>2 DEF Begin
  <2>2. /\ req[r].pc = "idle" /\ req[r].exit = None /\ started' = started + 1
        /\ started' \in 0 .. MaxRequests
        /\ UNCHANGED <<inflight, answered>>
    <3>1. req[r].pc = "idle" /\ started < MaxRequests /\ started' = started + 1
          /\ UNCHANGED <<inflight, answered>>
      BY <1>2 DEF Begin
    <3>2. req[r].exit = None
      BY <1>1, <3>1 DEF Good
    <3>3. started' \in 0 .. MaxRequests
      BY <3>1, ConstantsAssumption DEF TInvParts
    <3> QED
      BY <3>1, <3>2, <3>3
  <2> DEFINE messages == Append(history, message)
  <2>3. messages \in Seq(Said) /\ messages # <<>>
    <3>1. history \in Seq(Said) /\ message \in Said
      BY DEF TInvParts, Said
    <3> QED
      BY <3>1, AppendProperties
  <2>4. ASSUME NEW c \in Convs, NEW fresh \in BOOLEAN,
               req' = [req EXCEPT ![r] = NewRequest(messages, c, fresh)]
        PROVE  AllGood' /\ Balance' /\ inflight' \in [Exits -> Nat]
    <3>1. Good(NewRequest(messages, c, fresh))
      BY <2>3, GoodNew
    <3>2. NewRequest(messages, c, fresh).exit = None
      BY DEF NewRequest, Idle
    <3> QED
      BY <2>2, <2>4, <3>1, <3>2, OneHandler DEF TInvParts, Handled
  <2>5. CASE Hit(r, history, message)
    <3> DEFINE c == store[Canonical(history)]
    <3>1. /\ c \in Convs
          /\ req' = [req EXCEPT ![r] = NewRequest(messages, c, FALSE)]
          /\ conv' = [conv EXCEPT ![c].strayed =
                         @ \/ conv[c].told # history \/ InUse(c)]
          /\ UNCHANGED <<store, older, expired>>
      BY <2>5 DEF Hit, Known, TInvParts, Handled, StoreOK
    <3>2. conv' \in [Convs -> ConvState]
      <4> DEFINE b == conv[c].strayed \/ conv[c].told # history \/ InUse(c)
      <4>1. b \in BOOLEAN
        OBVIOUS
      <4>2. conv' = [conv EXCEPT ![c].strayed = b]
        BY <3>1
      <4> HIDE DEF b, c
      <4> QED
        BY <3>1, <4>1, <4>2, ZenonT(40) DEF TInvParts, ConvState
    <3>3. StoreOK'
      BY <3>1, StoreSame DEF TInvParts, Handled
    <3> HIDE DEF c, messages
    <3> QED
      BY <2>2, <2>4, <3>1, <3>2, <3>3 DEF TInvParts, Handled
  <2>6. CASE Miss(r, history, message)
    <3>1. PICK account \in Accounts \cup {None}, c \in Free :
             /\ req' = [req EXCEPT ![r] = NewRequest(messages, c, TRUE)]
             /\ conv' = Collected([conv EXCEPT ![c] = NewConv(account)])
      BY <2>6 DEF Miss
    <3>2. c \in Convs
      BY DEF Free
    <3>3. [conv EXCEPT ![c] = NewConv(account)] \in [Convs -> ConvState]
      BY NewConvType DEF TInvParts
    <3>4. conv' \in [Convs -> ConvState]
      BY <3>1, <3>3, CollectedType
    <3>5. StoreOK'
      BY <2>6, StoreSame, DeleteOK DEF Miss, TInvParts, Handled
    <3> HIDE DEF messages
    <3> QED
      BY <2>2, <2>4, <3>1, <3>2, <3>4, <3>5 DEF TInvParts, Handled
  <2> QED
    BY <2>1, <2>5, <2>6
<1>3. ASSUME NEW r \in Handlers, TakeExit(r) PROVE TInvParts'
  <2>1. PICK e \in Exits :
           /\ req' = [req EXCEPT ![r] =
                         [req[r] EXCEPT !.exit = e, !.pc = "session", !.attempt = 0]]
           /\ inflight' = [inflight EXCEPT ![e] = @ + 1]
    BY <1>1, <1>3 DEF TakeExit
  <2> DEFINE q == [req[r] EXCEPT !.exit = e, !.pc = "session", !.attempt = 0]
  <2>2. Good(q) /\ q.exit = e /\ req[r].exit = None
    <3>1. Good(q)
      BY <1>1, <1>3, GoodUpdates DEF TakeExit
    <3> QED
      BY <1>1, <1>3, <3>1 DEF TakeExit, Good, HandlerState
  <2>3. UNCHANGED <<conv, store, older, expired, answered, started>>
    BY <1>3 DEF TakeExit
  <2> HIDE DEF q
  <2>4. AllGood' /\ Balance' /\ inflight' \in [Exits -> Nat]
    BY <2>1, <2>2, OneHandler DEF TInvParts, Handled, q
  <2> QED
    BY <2>3, <2>4, StoreSame DEF TInvParts, Handled
<1>4. ASSUME Handled', conv' \in [Convs -> ConvState], UNCHANGED <<answered, started>>
      PROVE  TInvParts'
  BY <1>4 DEF TInvParts
<1>5. ASSUME NEW r \in Handlers, NoExit(r) \/ NothingToStore(r) PROVE TInvParts'
  <2>1. Fail(r) /\ conv' = Collected(conv) /\ UNCHANGED <<answered, started>>
    BY <1>5 DEF NoExit, NothingToStore
  <2> QED
    BY <1>4, <2>1, FailTypes, CollectedType DEF TInvParts
<1>6. ASSUME NEW r \in Handlers, SessionFails(r) PROVE TInvParts'
  <2>1. /\ req[r].pc = "session" /\ GiveUpExit(r) /\ conv' = Collected(conv)
        /\ UNCHANGED <<answered, started>>
    BY <1>6 DEF SessionFails
  <2> QED
    BY <1>4, <2>1, GiveUpExitTypes, CollectedType DEF TInvParts
<1>7. ASSUME NEW r \in Handlers, Build(r) PROVE TInvParts'
  <2> DEFINE c == req[r].conv
             q == [req[r] EXCEPT !.base = conv[c].node, !.pc = "send"]
             s == IF conv[c].session = None THEN req[r].exit ELSE conv[c].session
  <2>1. /\ req[r].pc = "session"
        /\ req' = [req EXCEPT ![r] = q]
        /\ conv' = [conv EXCEPT ![c].session = s]
        /\ UNCHANGED <<store, older, expired, inflight, answered, started>>
    BY <1>1, <1>7 DEF Build
  <2>2. c \in Convs /\ conv[c] \in ConvState /\ req[r].exit \in Exits
    BY <1>1, <2>1 DEF Good, HandlerState, TInvParts
  <2>3. conv[c].node \in Seq(Said) /\ s \in Accounts \cup Exits \cup {None}
    BY <2>2 DEF ConvState
  <2>4. Good(q) /\ q.exit = req[r].exit
    <3>1. Good(q)
      BY <1>1, <2>1, <2>3, GoodUpdates
    <3> QED
      BY <1>1, <3>1 DEF HandlerState
  <2> HIDE DEF q, s, c
  <2>5. AllGood' /\ Balance' /\ inflight' \in [Exits -> Nat]
    BY <2>1, <2>4, OneHandler DEF TInvParts, Handled
  <2>6. conv' \in [Convs -> ConvState]
    BY <2>1, <2>2, <2>3 DEF TInvParts, ConvState
  <2> QED
    BY <2>1, <2>5, <2>6, StoreSame DEF TInvParts, Handled
<1>8. ASSUME NEW r \in Handlers, Answered(r) PROVE TInvParts'
  <2>1. req[r].pc = "send"
    BY <1>8 DEF Answered
  <2>2. PICK reply \in Replies \cup {NoText} :
           /\ conv' = [conv EXCEPT ![req[r].conv].node = Upstream(req[r], reply)]
           /\ req' = [req EXCEPT ![r] = [req[r] EXCEPT !.pc = "store", !.reply = reply,
                                                       !.exit = None]]
    BY <1>1, <1>8 DEF Answered
  <2> DEFINE q == [req[r] EXCEPT !.pc = "store", !.reply = reply, !.exit = None]
  <2>3. Good(q) /\ q.exit = None
    <3>1. Good(q)
      BY <1>1, <2>1, GoodUpdates
    <3> QED
      BY <1>1, <3>1 DEF HandlerState
  <2>4. /\ inflight' = FreedBy(req[r].exit)
        /\ UNCHANGED <<store, older, expired, answered, started>>
    BY <1>8 DEF Answered
  <2>5. conv' \in [Convs -> ConvState]
    <3> DEFINE n == Upstream(req[r], reply)
    <3>1. reply \in Said /\ req[r].messages # <<>>
      BY <1>1, <2>1 DEF Said, Good
    <3>2. n \in Seq(Said)
      BY <1>1, <3>1, UpstreamIs
    <3> HIDE DEF n
    <3>3. conv' = [conv EXCEPT ![req[r].conv].node = n]
      BY <2>2 DEF n
    <3> QED
      BY <3>2, <3>3 DEF TInvParts, ConvState
  <2> HIDE DEF q
  <2>6. AllGood' /\ Balance' /\ inflight' \in [Exits -> Nat]
    BY <2>2, <2>3, <2>4, OneHandler DEF TInvParts, Handled, q
  <2> QED
    BY <2>4, <2>5, <2>6, StoreSame DEF TInvParts, Handled
<1>9. ASSUME NEW r \in Handlers, AttemptFails(r) PROVE TInvParts'
  <2>1. /\ req[r].pc = "send" /\ conv' = Collected(conv)
        /\ UNCHANGED <<answered, started>>
    BY <1>9 DEF AttemptFails
  <2>2. conv' \in [Convs -> ConvState]
    BY <2>1, CollectedType DEF TInvParts
  <2>3. CASE Fail(r)
    BY <1>4, <2>1, <2>2, <2>3, FailTypes DEF TInvParts
  <2>4. CASE GiveUpExit(r)
    BY <1>4, <2>1, <2>2, <2>4, GiveUpExitTypes DEF TInvParts
  <2>5. CASE /\ req[r].attempt + 1 < RetryAttempts
             /\ req' = [req EXCEPT ![r].attempt = @ + 1]
             /\ UNCHANGED <<store, older, expired, inflight>>
    <3> DEFINE q == [req[r] EXCEPT !.attempt = @ + 1]
    <3>1. Good(q) /\ q.exit = req[r].exit /\ req' = [req EXCEPT ![r] = q]
      <4>1. Good(q)
        BY <1>1, <2>5, GoodUpdates
      <4> QED
        BY <1>1, <2>5, <4>1 DEF HandlerState
    <3> HIDE DEF q
    <3>2. AllGood' /\ Balance' /\ inflight' \in [Exits -> Nat]
      BY <2>5, <3>1, OneHandler DEF TInvParts, Handled
    <3> QED
      BY <2>1, <2>2, <2>5, <3>2, StoreSame DEF TInvParts, Handled
  <2> QED
    BY <1>9, <2>3, <2>4, <2>5 DEF AttemptFails
<1>10. ASSUME NEW r \in Handlers, Store(r) PROVE TInvParts'
  <2> DEFINE q == req[r]
             history == Append(q.messages, q.reply)
  <2>1. /\ q.pc = "store" /\ q.reply # NoText
        /\ Put(ChildKey(q.messages, q.reply), q.conv)
        /\ answered' \subseteq answered \cup {history}
        /\ req' = [req EXCEPT ![r] = Idle]
        /\ conv' = Collected([conv EXCEPT ![q.conv].told = history])
        /\ UNCHANGED <<inflight, started>>
    BY <1>10 DEF Store
  <2>2. /\ q.conv \in Convs /\ q.messages \in Seq(Said) /\ q.reply \in Said
        /\ q.exit = None
    BY <1>1, <2>1 DEF Good, HandlerState, Said
  <2>3. history \in Seq(Said)
    BY <2>2, AppendFront
  <2>4. StoreOK'
    <3>1. ChildKey(q.messages, q.reply) \in Seq(Said)
      BY <2>3, CanonicalType DEF ChildKey
    <3> HIDE DEF q, history
    <3> QED
      BY <2>1, <2>2, <3>1, PutOK DEF TInvParts, Handled
  <2> HIDE DEF history
  <2>5. [conv EXCEPT ![q.conv].told = history] \in [Convs -> ConvState]
    BY <2>2, <2>3 DEF TInvParts, ConvState
  <2>6. conv' \in [Convs -> ConvState]
    BY <2>1, <2>5, CollectedType
  <2>7. AllGood' /\ Balance' /\ inflight' \in [Exits -> Nat]
    <3>1. Idle.exit = None
      BY DEF Idle
    <3> QED
      BY <2>1, <2>2, <3>1, GoodIdle, OneHandler DEF TInvParts, Handled
  <2> QED
    BY <2>1, <2>3, <2>4, <2>6, <2>7 DEF TInvParts, Handled
<1>11. CASE Expires
  <2>1. PICK c \in Points(store) : expired' = expired \cup {c}
    BY <1>11 DEF Expires
  <2>2. UNCHANGED <<req, conv, store, older, inflight, answered, started>>
    BY <1>11 DEF Expires
  <2>3. StoreOK'
    <3>1. Points(store)' = Points(store)
      BY <2>2 DEF Points
    <3>2. StrictOrder(older, Points(store))'
      BY <2>2, <3>1 DEF TInvParts, Handled, StoreOK, StrictOrder
    <3> QED
      BY <2>1, <2>2, <3>1, <3>2 DEF TInvParts, Handled, StoreOK
  <2> QED
    BY <2>2, <2>3 DEF TInvParts, Handled, AllGood, Good, Balance, OnExit
<1>12. CASE Restart
  <2>1. /\ req' = [r \in Handlers |-> Idle]
        /\ conv' = [c \in Convs |-> NewConv(None)]
        /\ StoreBecomes(Empty, older, expired)
        /\ inflight' = [e \in Exits |-> 0]
        /\ UNCHANGED <<answered, started>>
    BY <1>12 DEF Restart
  <2>2. AllGood'
    BY <2>1, GoodIdle DEF AllGood, Good
  <2>3. Balance'
    <3>1. \A e \in Exits : OnExit(e)' = {}
      BY <2>1, ConstantsAssumption DEF OnExit, Idle
    <3> QED
      BY <2>1, <3>1, FS_EmptySet DEF Balance
  <2>4. StoreOK'
    <3>1. DOMAIN Empty = {} /\ Points(Empty) = {}
      BY DEF Empty, Points
    <3> QED
      BY <2>1, <3>1, StoreBecomesOK DEF TInvParts, Handled, StoreOK
  <2>5. conv' \in [Convs -> ConvState]
    BY <2>1, NewConvType
  <2> QED
    BY <2>1, <2>2, <2>3, <2>4, <2>5 DEF TInvParts, Handled
<1>13. CASE UNCHANGED vars
  <2>1. UNCHANGED <<req, conv, store, older, expired, inflight, answered, started>>
    BY <1>13 DEF vars
  <2> QED
    BY <2>1, StoreSame DEF TInvParts, Handled, AllGood, Good, Balance, OnExit
<1> QED
  BY <1>2, <1>3, <1>5, <1>6, <1>7, <1>8, <1>9, <1>10, <1>11, <1>12, <1>13
     DEF Next, Step


\* Types, places and order hold for ever.
LEMMA TypesInvariance == Spec => []TInvParts
<1>1. Init => TInvParts
  <2> SUFFICES ASSUME Init PROVE TInvParts
    OBVIOUS
  <2>1. AllGood
    BY GoodIdle DEF Init, AllGood, Good
  <2>2. Balance
    <3>1. \A e \in Exits : OnExit(e) = {}
      BY ConstantsAssumption DEF Init, OnExit, Idle
    <3> QED
      BY <3>1, FS_EmptySet DEF Init, Balance
  <2>3. StoreOK
    <3>1. Points(store) = {} /\ DOMAIN store = {}
      BY DEF Init, Empty, Points
    <3> QED
      BY <3>1 DEF Init, StoreOK, StrictOrder
  <2>4. conv \in [Convs -> ConvState] /\ inflight \in [Exits -> Nat]
    BY NewConvType DEF Init
  <2>5. answered \subseteq Seq(Said) /\ started \in 0 .. MaxRequests
    BY ConstantsAssumption DEF Init
  <2> QED
    BY <2>1, <2>2, <2>3, <2>4, <2>5 DEF TInvParts, Handled
<1>2. TInvParts /\ [Next]_vars => TInvParts'
  BY TypesStep
<1> QED
  BY <1>1, <1>2, PTL DEF Spec

\* The state of conversations keeps its types; the objects in the store are
\* strictly ordered by their last update, whatever is evicted or expires.
THEOREM ConversationTypes == Spec => []TypeOK
<1>1. TInvParts => TypeOK
  BY TInvIsParts DEF TInv
<1> QED
  BY <1>1, TypesInvariance, PTL

\* Every place a request takes at an exit is given back exactly once
\* (conversation.go:258-264), for every number of requests, exits, exit
\* changes and attempts, and on every way a request can end.
THEOREM PlacesReturned == Spec => []SlotsReturned
<1>1. TInvParts => SlotsReturned
  BY DEF TInvParts, Handled, Balance, OnExit, SlotsReturned
<1> QED
  BY <1>1, TypesInvariance, PTL

-------------------------------------------------------------------------------
\* Making room does not cost the newest entry its place while an older object
\* keeps one: nothing is younger than what was just updated.
LEMMA PutKeepsNewest ==
  ASSUME NEW key, NEW c, Put(key, c), DOMAIN store' # {}
  PROVE  key \in DOMAIN store' \/ Points(store)' = {c}
<1> DEFINE full == [k \in DOMAIN store \cup {key} |-> IF k = key THEN c ELSE store[k]]
           late == expired \ {c}
           young == {k \in DOMAIN full : full[k] \notin late}
<1>1. PICK keys \in Kept(full, Touched(c), late) :
         StoreBecomes([k \in keys |-> full[k]], Touched(c), late)
  BY DEF Put
<1>2. store' = [k \in keys |-> full[k]] /\ DOMAIN store' = keys
  BY <1>1 DEF StoreBecomes
<1>3. key \in DOMAIN full /\ full[key] = c /\ key \in young
  OBVIOUS
<1>4. \A d : <<c, d>> \notin Touched(c)
  BY DEF Touched
<1> HIDE DEF full, late
<1>5. CASE keys = DOMAIN full \/ keys = young
  BY <1>2, <1>3, <1>5
<1>6. CASE \E k \in Oldest(full, Touched(c), young) : keys = young \ {k}
  <2>1. PICK k \in Oldest(full, Touched(c), young) : keys = young \ {k}
    BY <1>6
  <2>2. CASE k # key
    BY <1>2, <1>3, <2>1, <2>2
  <2>3. CASE k = key
    <3>1. \A j \in young : full[j] = c
      BY <1>3, <1>4, <2>3 DEF Oldest
    <3>2. Points(store)' = {c}
      BY <1>2, <2>1, <3>1 DEF Points
    <3> QED
      BY <3>2
  <2> QED
    BY <2>2, <2>3
<1>7. keys = DOMAIN full \/ keys = young
         \/ \E k \in Oldest(full, Touched(c), young) : keys = young \ {k}
  BY <1>1 DEF Kept
<1> QED
  BY <1>5, <1>6, <1>7

\* What NewestSurvives says of one handler.
Survives(r) ==
    LET q == req[r]
    IN  q.pc = "store" /\ q.reply # NoText /\ req'[r].pc = "idle"
           /\ DOMAIN store' # {} =>
        \/ ChildKey(q.messages, q.reply) \in DOMAIN store'
        \/ Points(store') = {q.conv}

\* A handler that stores its answer is not stepped over: only its own step
\* and a restart take it back to idle.
LEMMA SurvivesStep ==
  ASSUME AllGood, [Next]_vars, NEW r \in Handlers
  PROVE  Survives(r)
<1> SUFFICES ASSUME req[r].pc = "store", req[r].reply # NoText, req'[r].pc = "idle",
                    DOMAIN store' # {}
             PROVE  \/ ChildKey(req[r].messages, req[r].reply) \in DOMAIN store'
                    \/ Points(store') = {req[r].conv}
  BY DEF Survives
<1>1. req \in [Handlers -> HandlerState]
  BY DEF AllGood
<1>2. ASSUME NEW s \in Handlers, Step(s), s # r PROVE FALSE
  <2>1. \E q : req' = [req EXCEPT ![s] = q]
    BY <1>2 DEF Step, Begin, Hit, Miss, TakeExit, NoExit, Build, SessionFails, Answered,
                AttemptFails, Store, NothingToStore, Fail, GiveUpExit
  <2> QED
    BY <1>1, <1>2, <2>1
<1>3. CASE Store(r)
  BY <1>3, PutKeepsNewest DEF Store, Points
<1>4. CASE Step(r) /\ ~Store(r)
  BY <1>4 DEF Step, Begin, TakeExit, NoExit, Build, SessionFails, Answered,
              AttemptFails, NothingToStore
<1>5. CASE Expires \/ UNCHANGED vars
  BY <1>5 DEF Expires, vars
<1>6. CASE Restart
  BY <1>6 DEF Restart, StoreBecomes, Empty
<1> QED
  BY <1>2, <1>3, <1>4, <1>5, <1>6 DEF Next

\* convPut never evicts the entry it was called for while an older object
\* stays (conversation.go:83-98), for every size of the store: the client
\* that was just answered can continue.
THEOREM NewestStays == Spec => NewestSurvives
<1>1. TInvParts => AllGood
  BY DEF TInvParts, Handled
<1>2. AllGood /\ [Next]_vars =>
        [\A r \in Handlers :
            LET q == req[r]
            IN  q.pc = "store" /\ q.reply # NoText /\ req'[r].pc = "idle"
                   /\ DOMAIN store' # {} =>
                \/ ChildKey(q.messages, q.reply) \in DOMAIN store'
                \/ Points(store') = {q.conv}]_vars
  BY SurvivesStep DEF Survives
<1> QED
  BY <1>1, <1>2, TypesInvariance, PTL DEF Spec, NewestSurvives

-------------------------------------------------------------------------------
(***************************************************************************)
(* What Google holds.  As long as a conversation has not strayed, it has   *)
(* one user at a time, and its ids name the history its last stored answer *)
(* ended.  A failed request may leave more at Google than clients know of; *)
(* then the key of that history is gone, and whoever continues the object  *)
(* from an older history makes it stray.                                   *)
(***************************************************************************)
Past(q) == IF q.fresh THEN <<>> ELSE Front(q.messages)

\* A conversation that is begun is not in the store before its first answer.
FreshAlone(r) ==
    LET q == req[r]
    IN  q.pc # "idle" /\ q.fresh =>
            ~conv[q.conv].strayed /\ q.conv \notin Points(store)

Follows(r) ==
    LET q == req[r]
        c == conv[q.conv]
    IN  q.pc # "idle" /\ ~c.strayed =>
            /\ c.told = Past(q)
            /\ q.pc # "store" => c.node = Past(q)
            /\ q.pc = "store" => c.node = Append(q.messages, q.reply)
            /\ q.pc = "send" => q.base = Past(q)

OneUser ==
    \A r, s \in Handlers :
        r # s /\ req[r].pc # "idle" /\ req[s].pc # "idle" /\ req[r].conv = req[s].conv =>
            conv[req[r].conv].strayed

Resting(k) ==
    LET c == store[k]
    IN  ~InUse(c) /\ ~conv[c].strayed /\ k = Canonical(conv[c].told) =>
            conv[c].node = conv[c].told

Upheld ==
    /\ \A r \in Handlers : FreshAlone(r) /\ Follows(r)
    /\ OneUser
    /\ \A k \in DOMAIN store : Resting(k)

CInv == TInvParts /\ Upheld

\* What the history variables and the ids of object c say stays as it is.
Same(c) ==
    /\ conv'[c].node = conv[c].node
    /\ conv'[c].told = conv[c].told
    /\ conv'[c].strayed = conv[c].strayed

\* A handler with a request refers to an object of the heap.
LEMMA UsersKnown ==
  ASSUME TInvParts
  PROVE  /\ req \in [Handlers -> HandlerState]
         /\ \A r \in Handlers :
               /\ req[r].pc = "idle" => req[r].conv = None
               /\ req[r].pc # "idle" => req[r].conv \in Convs /\ req[r].conv # None
               /\ req[r].pc # "idle" => req[r].messages # <<>> /\ InUse(req[r].conv)
         /\ \A c \in Convs : InUse(c) <=>
               \E r \in Handlers : req[r].pc # "idle" /\ req[r].conv = c
         /\ \A k \in DOMAIN store : store[k] \in Convs /\ store[k] \in Points(store)
<1>1. None \notin Convs
  BY ConstantsAssumption
<1> QED
  BY <1>1 DEF TInvParts, Handled, AllGood, Good, StoreOK, InUse, Points

\* Another exit, another attempt, a session, the body: the handler goes on
\* with the same object and the same messages.
LEMMA GoesOn ==
  ASSUME CInv, NEW r \in Handlers, NEW q, req' = [req EXCEPT ![r] = q],
         req[r].pc \notin {"idle", "store"}, q.pc \notin {"idle", "store"},
         q.conv = req[r].conv, q.messages = req[r].messages, q.fresh = req[r].fresh,
         \/ q.pc # "send"
         \/ q.base = conv[req[r].conv].node
         \/ q.base = req[r].base /\ req[r].pc = "send",
         UNCHANGED store,
         \A c \in Convs : InUse(c) \/ c \in Points(store) => Same(c)
  PROVE  Upheld'
<1>1. /\ req \in [Handlers -> HandlerState]
      /\ \A s \in Handlers :
            /\ req[s].pc # "idle" => req[s].conv \in Convs /\ InUse(req[s].conv)
      /\ \A k \in DOMAIN store : store[k] \in Convs /\ store[k] \in Points(store)
  BY UsersKnown DEF CInv
<1>2. \A s \in Handlers : s # r => req'[s] = req[s]
  BY <1>1
<1>3. req'[r] = q
  BY <1>1
<1>4. Points(store)' = Points(store)
  BY DEF Points
<1>5. \A s \in Handlers : req[s].pc # "idle" => Same(req[s].conv)
  BY <1>1
<1>6. ASSUME NEW s \in Handlers
      PROVE  /\ req'[s].pc # "idle" <=> req[s].pc # "idle"
             /\ req'[s].conv = req[s].conv /\ req'[s].messages = req[s].messages
             /\ req'[s].fresh = req[s].fresh
             /\ Past(req'[s]) = Past(req[s])
  BY <1>2, <1>3 DEF Past
<1>7. ASSUME NEW s \in Handlers PROVE FreshAlone(s)'
  BY <1>4, <1>5, <1>6 DEF CInv, Upheld, FreshAlone, Same
<1>8. ASSUME NEW s \in Handlers PROVE Follows(s)'
  <2> SUFFICES ASSUME req'[s].pc # "idle", ~conv'[req'[s].conv].strayed
               PROVE  /\ conv'[req'[s].conv].told = Past(req'[s])
                      /\ req'[s].pc # "store" => conv'[req'[s].conv].node = Past(req'[s])
                      /\ req'[s].pc = "store" =>
                            conv'[req'[s].conv].node = Append(req'[s].messages, req'[s].reply)
                      /\ req'[s].pc = "send" => req'[s].base = Past(req'[s])
    BY DEF Follows, Past
  <2>1. req[s].pc # "idle" /\ Same(req[s].conv) /\ ~conv[req[s].conv].strayed
    BY <1>5, <1>6 DEF Same
  <2>2. /\ conv[req[s].conv].told = Past(req[s])
        /\ req[s].pc # "store" => conv[req[s].conv].node = Past(req[s])
        /\ req[s].pc = "store" =>
              conv[req[s].conv].node = Append(req[s].messages, req[s].reply)
        /\ req[s].pc = "send" => req[s].base = Past(req[s])
    BY <2>1 DEF CInv, Upheld, Follows
  <2>3. CASE s = r
    BY <1>3, <1>6, <2>1, <2>2, <2>3, SMTT(20) DEF Same
  <2>4. CASE s # r
    BY <1>2, <1>6, <2>1, <2>2, <2>4, ZenonT(40) DEF Same
  <2> QED
    BY <2>3, <2>4
<1>9. OneUser'
  BY <1>5, <1>6 DEF CInv, Upheld, OneUser, Same
<1>10. ASSUME NEW k \in DOMAIN store' PROVE Resting(k)'
  <2>1. k \in DOMAIN store /\ store'[k] = store[k] /\ Same(store[k])
    BY <1>1
  <2>2. InUse(store[k])' <=> InUse(store[k])
    BY <1>6 DEF InUse
  <2>3. Resting(k)
    BY <2>1 DEF CInv, Upheld
  <2> QED
    BY <2>1, <2>2, <2>3 DEF Resting, Same
<1> QED
  BY <1>7, <1>8, <1>9, <1>10 DEF Upheld


\* What Collected leaves alone: objects in the store or in use after the step.
LEMMA CollectedKeeps ==
  ASSUME NEW objects, conv' = Collected(objects), NEW c \in Convs,
         c \in Points(store') \/ \E s \in Handlers : req'[s].conv = c
  PROVE  conv'[c] = objects[c]
BY DEF Collected

\* A request that ends without an answer.
LEMMA EndsUpheld ==
  ASSUME CInv, NEW r \in Handlers, req[r].pc # "idle", Fail(r), conv' = Collected(conv)
  PROVE  Upheld'
<1>1. /\ req \in [Handlers -> HandlerState]
      /\ \A s \in Handlers :
            /\ req[s].pc # "idle" => req[s].conv \in Convs /\ InUse(req[s].conv)
      /\ \A c \in Convs : InUse(c) <=>
            \E s \in Handlers : req[s].pc # "idle" /\ req[s].conv = c
      /\ \A k \in DOMAIN store : store[k] \in Convs /\ store[k] \in Points(store)
  BY UsersKnown DEF CInv
<1>2. req' = [req EXCEPT ![r] = Idle]
  BY DEF Fail
<1>3. req'[r].pc = "idle" /\ \A s \in Handlers : s # r => req'[s] = req[s]
  BY <1>1, <1>2 DEF Idle
<1>4. /\ DOMAIN store' \subseteq DOMAIN store
      /\ \A k \in DOMAIN store' : store'[k] = store[k]
      /\ ~req[r].fresh => ParentKey(req[r].messages) \notin DOMAIN store'
  BY DEF Fail, Delete, StoreBecomes
<1>5. Points(store') \subseteq Points(store) /\ Points(store)' = Points(store')
  BY <1>4 DEF Points
<1>6. ASSUME NEW s \in Handlers, s # r, req[s].pc # "idle"
      PROVE  conv'[req[s].conv] = conv[req[s].conv]
  BY <1>1, <1>3, <1>6, CollectedKeeps
<1>7. ASSUME NEW s \in Handlers PROVE FreshAlone(s)' /\ Follows(s)'
  <2>1. CASE s = r
    BY <1>3, <2>1 DEF FreshAlone, Follows
  <2>2. CASE s # r
    <3>1. req'[s] = req[s] /\ FreshAlone(s) /\ Follows(s)
      BY <1>3, <2>2 DEF CInv, Upheld
    <3>2. FreshAlone(s)'
      BY <1>5, <1>6, <2>2, <3>1 DEF FreshAlone
    <3>3. Follows(s)'
      BY <1>6, <2>2, <3>1 DEF Follows, Past
    <3> QED
      BY <3>2, <3>3
  <2> QED
    BY <2>1, <2>2
<1>8. OneUser'
  <2> SUFFICES ASSUME NEW s \in Handlers, NEW t \in Handlers, s # t,
                      req'[s].pc # "idle", req'[t].pc # "idle",
                      req'[s].conv = req'[t].conv
               PROVE  conv'[req'[s].conv].strayed
    BY DEF OneUser
  <2>1. s # r /\ t # r /\ req'[s] = req[s] /\ req'[t] = req[t]
    BY <1>3
  <2>2. conv[req[s].conv].strayed
    BY <2>1 DEF CInv, Upheld, OneUser
  <2> QED
    BY <1>6, <2>1, <2>2
<1>9. ASSUME NEW k \in DOMAIN store' PROVE Resting(k)'
  <2> PICK c : c = store[k]
    OBVIOUS
  <2>1. /\ k \in DOMAIN store /\ store[k] = c /\ store'[k] = c /\ c \in Convs /\ c \in Points(store)
        /\ c \in Points(store')
    BY <1>1, <1>4 DEF Points
  <2>2. conv'[c] = conv[c]
    BY <2>1, CollectedKeeps
  <2> SUFFICES ASSUME ~InUse(c)', ~conv[c].strayed, k = Canonical(conv[c].told)
               PROVE  conv[c].node = conv[c].told
    BY <2>1, <2>2 DEF Resting
  <2>3. CASE ~InUse(c)
    BY <2>1, <2>3 DEF CInv, Upheld, Resting
  <2>4. CASE InUse(c)
    <3>1. PICK s \in Handlers : req[s].pc # "idle" /\ req[s].conv = c
      BY <1>1, <2>1, <2>4
    <3>2. s = r
      BY <1>3, <3>1 DEF InUse
    <3>3. FreshAlone(r) /\ Follows(r)
      BY DEF CInv, Upheld
    <3>4. ~req[r].fresh
      BY <2>1, <3>1, <3>2, <3>3 DEF FreshAlone
    <3>5. conv[c].told = Front(req[r].messages)
      BY <3>1, <3>2, <3>3, <3>4 DEF Follows, Past
    <3>6. k = ParentKey(req[r].messages)
      BY <3>5 DEF ParentKey
    <3> QED
      BY <1>4, <3>4, <3>6
  <2> QED
    BY <2>3, <2>4
<1> QED
  BY <1>7, <1>8, <1>9 DEF Upheld

\* An exit is given up.
LEMMA GiveUpExitUpheld ==
  ASSUME CInv, NEW r \in Handlers, req[r].pc \in {"session", "send"}, GiveUpExit(r),
         conv' = Collected(conv)
  PROVE  Upheld'
<1>1. CASE req[r].switch < MaxProxySwitches
  <2> DEFINE q == [req[r] EXCEPT !.pc = "exit", !.exit = None, !.switch = @ + 1,
                                 !.excluded = @ \cup {req[r].exit}]
  <2>1. req' = [req EXCEPT ![r] = q] /\ UNCHANGED store
    BY <1>1 DEF GiveUpExit
  <2>2. req \in [Handlers -> HandlerState]
    BY UsersKnown DEF CInv
  <2>3. /\ q.pc = "exit" /\ q.conv = req[r].conv /\ q.messages = req[r].messages
        /\ q.fresh = req[r].fresh
    BY <2>2 DEF HandlerState
  <2> HIDE DEF q
  <2>4. \A c \in Convs : InUse(c) \/ c \in Points(store) => Same(c)
    <3> SUFFICES ASSUME NEW c \in Convs, InUse(c) \/ c \in Points(store)
                 PROVE  conv'[c] = conv[c]
      BY DEF Same
    <3>1. c \in Points(store') \/ \E s \in Handlers : req'[s].conv = c
      <4>1. \A s \in Handlers : req'[s].conv = req[s].conv
        BY <2>1, <2>2, <2>3
      <4> QED
        BY <2>1, <4>1 DEF InUse
    <3> QED
      BY <3>1, CollectedKeeps
  <2> QED
    BY <2>1, <2>3, <2>4, GoesOn
<1>2. CASE ~(req[r].switch < MaxProxySwitches)
  BY <1>2, EndsUpheld DEF GiveUpExit
<1> QED
  BY <1>1, <1>2


\* An answer puts the conversation where the client's history is with it.
LEMMA AnsweredUpheld ==
  ASSUME CInv, NEW r \in Handlers, Answered(r)
  PROVE  Upheld'
<1> DEFINE c == req[r].conv
<1>1. /\ req \in [Handlers -> HandlerState] /\ conv \in [Convs -> ConvState]
      /\ \A s \in Handlers :
            /\ req[s].pc # "idle" => req[s].conv \in Convs /\ InUse(req[s].conv)
      /\ \A k \in DOMAIN store : store[k] \in Convs /\ store[k] \in Points(store)
  BY UsersKnown DEF CInv, TInvParts
<1>2. PICK reply \in Replies \cup {NoText} :
         /\ conv' = [conv EXCEPT ![c].node = Upstream(req[r], reply)]
         /\ req' = [req EXCEPT ![r] = [req[r] EXCEPT !.pc = "store", !.reply = reply,
                                                     !.exit = None]]
  BY <1>1 DEF Answered
<1>3. req[r].pc = "send" /\ UNCHANGED store
  BY DEF Answered
<1> DEFINE n == Upstream(req[r], reply)
           q == [req[r] EXCEPT !.pc = "store", !.reply = reply, !.exit = None]
<1>4. /\ req'[r] = q /\ q.pc = "store" /\ q.conv = c /\ q.reply = reply
      /\ q.messages = req[r].messages /\ q.fresh = req[r].fresh
      /\ Past(q) = Past(req[r])
  BY <1>1, <1>2 DEF HandlerState, Past
<1>5. ~conv[c].strayed =>
         conv[c].told = Past(req[r]) /\ n = Append(req[r].messages, reply)
  <2> SUFFICES ASSUME ~conv[c].strayed
               PROVE  conv[c].told = Past(req[r]) /\ n = Append(req[r].messages, reply)
    OBVIOUS
  <2>1. conv[c].told = Past(req[r]) /\ req[r].base = Past(req[r])
    BY <1>3 DEF CInv, Upheld, Follows
  <2>2. req[r].messages # <<>> /\ reply \in Said
    BY <1>3, UsersKnown DEF CInv, Said
  <2> QED
    BY <1>1, <2>1, <2>2, UpstreamIs DEF Past
<1> HIDE DEF n, q
<1>6. conv' = [conv EXCEPT ![c].node = n] /\ c \in Convs
  BY <1>1, <1>2, <1>3 DEF n
<1> HIDE DEF c
<1>7. /\ conv'[c].node = n /\ conv'[c].told = conv[c].told
      /\ conv'[c].strayed = conv[c].strayed
      /\ \A d \in Convs \ {c} : conv'[d] = conv[d]
  BY <1>1, <1>6 DEF ConvState
<1>8. \A s \in Handlers : s # r => req'[s] = req[s]
  BY <1>1, <1>2
<1>9. Points(store)' = Points(store)
  BY <1>3 DEF Points
<1>10. \A s \in Handlers : req'[s].pc # "idle" => req[s].pc # "idle"
  BY <1>3, <1>8
<1>11. \A s \in Handlers : req'[s].conv = req[s].conv /\ req'[s].fresh = req[s].fresh
  BY <1>4, <1>8 DEF c
<1>12. \A d \in Convs : conv'[d].strayed = conv[d].strayed /\ conv'[d].told = conv[d].told
  BY <1>7
<1>13. ASSUME NEW s \in Handlers PROVE FreshAlone(s)'
  BY <1>1, <1>9, <1>10, <1>11, <1>12 DEF CInv, Upheld, FreshAlone
<1>14. ASSUME NEW s \in Handlers PROVE Follows(s)'
  <2>1. CASE s = r
    BY <1>4, <1>5, <1>7, <2>1 DEF Follows, Past
  <2>2. CASE s # r /\ req[s].conv = c /\ req[s].pc # "idle"
    <3>1. conv[c].strayed
      BY <1>3, <2>2 DEF CInv, Upheld, OneUser, c
    <3> QED
      BY <1>7, <1>8, <2>2, <3>1 DEF Follows
  <2>3. CASE s # r /\ req[s].conv # c /\ req[s].pc # "idle"
    <3>1. req'[s] = req[s] /\ conv'[req[s].conv] = conv[req[s].conv]
      BY <1>1, <1>7, <1>8, <2>3
    <3>2. Follows(s)
      BY DEF CInv, Upheld
    <3> QED
      BY <3>1, <3>2 DEF Follows, Past
  <2>4. CASE s # r /\ req[s].pc = "idle"
    BY <1>8, <2>4 DEF Follows
  <2> QED
    BY <2>1, <2>2, <2>3, <2>4
<1>15. OneUser'
  BY <1>1, <1>10, <1>11, <1>12 DEF CInv, Upheld, OneUser
<1>16. ASSUME NEW k \in DOMAIN store' PROVE Resting(k)'
  <2>1. k \in DOMAIN store /\ store'[k] = store[k] /\ store[k] \in Convs
    BY <1>1, <1>3
  <2>2. InUse(store[k])' <=> InUse(store[k])
    BY <1>3, <1>11 DEF InUse
  <2>3. Resting(k)
    BY <2>1 DEF CInv, Upheld
  <2>4. CASE store[k] = c
    BY <1>1, <1>3, <2>1, <2>2, <2>4 DEF Resting, c
  <2>5. CASE store[k] # c
    BY <1>7, <2>1, <2>2, <2>3, <2>5 DEF Resting
  <2> QED
    BY <2>4, <2>5
<1> QED
  BY <1>13, <1>14, <1>15, <1>16 DEF Upheld

\* What convPut leaves in the store: the entries it had, and the new one.
LEMMA PutEntries ==
  ASSUME NEW key, NEW c, Put(key, c)
  PROVE  \A k \in DOMAIN store' :
            \/ store'[k] = c
            \/ k \in DOMAIN store /\ store'[k] = store[k]
<1> DEFINE full == [k \in DOMAIN store \cup {key} |-> IF k = key THEN c ELSE store[k]]
           late == expired \ {c}
<1>1. PICK keys \in Kept(full, Touched(c), late) : store' = [k \in keys |-> full[k]]
  BY DEF Put, StoreBecomes
<1>2. keys \subseteq DOMAIN full
  <2> HIDE DEF full, late
  <2> QED
    BY <1>1 DEF Kept, Oldest
<1> QED
  BY <1>1, <1>2

\* An answer is stored.
LEMMA StoreUpheld ==
  ASSUME CInv, NEW r \in Handlers, Store(r)
  PROVE  Upheld'
<1> DEFINE c == req[r].conv
           history == Append(req[r].messages, req[r].reply)
           objects == [conv EXCEPT ![c].told = history]
<1>1. /\ req \in [Handlers -> HandlerState] /\ conv \in [Convs -> ConvState]
      /\ \A s \in Handlers :
            /\ req[s].pc # "idle" => req[s].conv \in Convs /\ InUse(req[s].conv)
      /\ \A k \in DOMAIN store : store[k] \in Convs /\ store[k] \in Points(store)
      /\ \A d \in Convs : InUse(d) <=>
            \E s \in Handlers : req[s].pc # "idle" /\ req[s].conv = d
  BY UsersKnown DEF CInv, TInvParts
<1>2. /\ req[r].pc = "store"
      /\ Put(ChildKey(req[r].messages, req[r].reply), c)
      /\ req' = [req EXCEPT ![r] = Idle]
      /\ conv' = Collected(objects)
  BY DEF Store
<1>3. c \in Convs
  BY <1>1, <1>2
<1>4. ~conv[c].strayed => conv[c].node = history
  BY <1>2 DEF CInv, Upheld, Follows
<1> HIDE DEF history
<1>5. /\ \A d \in Convs \ {c} : objects[d] = conv[d]
      /\ objects[c].told = history /\ objects[c].node = conv[c].node
      /\ \A d \in Convs : objects[d].strayed = conv[d].strayed
  BY <1>1, <1>3 DEF ConvState
<1> HIDE DEF c, objects
<1>6. req'[r].pc = "idle" /\ \A s \in Handlers : s # r => req'[s] = req[s]
  BY <1>1, <1>2 DEF Idle
<1>7. \A k \in DOMAIN store' :
         \/ store'[k] = c
         \/ k \in DOMAIN store /\ store'[k] = store[k]
  BY <1>2, PutEntries
<1>8. Points(store)' = Points(store') /\ Points(store') \subseteq Points(store) \cup {c}
  BY <1>7 DEF Points
<1>9. ASSUME NEW s \in Handlers, s # r, req[s].pc # "idle"
      PROVE  conv'[req[s].conv] = objects[req[s].conv]
  BY <1>1, <1>2, <1>6, <1>9, CollectedKeeps
<1>10. ASSUME NEW s \in Handlers, s # r, req[s].pc # "idle", req[s].conv = c
       PROVE  conv[c].strayed /\ ~req[s].fresh
  <2>1. conv[c].strayed
    BY <1>2, <1>10 DEF CInv, Upheld, OneUser, c
  <2>2. FreshAlone(s)
    BY DEF CInv, Upheld
  <2> QED
    BY <1>1, <1>10, <2>1, <2>2 DEF FreshAlone, HandlerState
<1>11. ASSUME NEW s \in Handlers PROVE FreshAlone(s)' /\ Follows(s)'
  <2>1. CASE s = r \/ req[s].pc = "idle"
    BY <1>6, <2>1 DEF FreshAlone, Follows
  <2>2. CASE s # r /\ req[s].pc # "idle" /\ req[s].conv = c
    <3>1. req'[s] = req[s] /\ conv[c].strayed /\ ~req[s].fresh
      BY <1>6, <1>10, <2>2
    <3>2. conv'[c].strayed
      BY <1>3, <1>5, <1>9, <2>2, <3>1
    <3> QED
      BY <2>2, <3>1, <3>2 DEF FreshAlone, Follows
  <2>3. CASE s # r /\ req[s].pc # "idle" /\ req[s].conv # c
    <3>1. req'[s] = req[s] /\ conv'[req[s].conv] = conv[req[s].conv]
      BY <1>1, <1>5, <1>6, <1>9, <2>3
    <3>2. FreshAlone(s) /\ Follows(s)
      BY DEF CInv, Upheld
    <3>3. FreshAlone(s)'
      BY <1>8, <2>3, <3>1, <3>2 DEF FreshAlone
    <3>4. Follows(s)'
      BY <3>1, <3>2 DEF Follows, Past
    <3> QED
      BY <3>3, <3>4
  <2> QED
    BY <2>1, <2>2, <2>3
<1>12. OneUser'
  <2> SUFFICES ASSUME NEW s \in Handlers, NEW t \in Handlers, s # t,
                      req'[s].pc # "idle", req'[t].pc # "idle",
                      req'[s].conv = req'[t].conv
               PROVE  conv'[req'[s].conv].strayed
    BY DEF OneUser
  <2>1. s # r /\ t # r /\ req'[s] = req[s] /\ req'[t] = req[t]
    BY <1>6
  <2>2. conv[req[s].conv].strayed /\ req[s].conv \in Convs
    BY <1>1, <2>1 DEF CInv, Upheld, OneUser
  <2> QED
    BY <1>5, <1>9, <2>1, <2>2
<1>13. ASSUME NEW k \in DOMAIN store' PROVE Resting(k)'
  <2> PICK d : d = store'[k]
    OBVIOUS
  <2>1. d \in Convs /\ d \in Points(store')
    BY <1>1, <1>3, <1>7 DEF Points
  <2>2. conv'[d] = objects[d]
    BY <1>2, <2>1, CollectedKeeps
  <2>3. CASE d = c
    BY <1>4, <1>5, <1>3, <2>2, <2>3 DEF Resting
  <2>4. CASE d # c
    <3>1. k \in DOMAIN store /\ store[k] = d
      BY <1>7, <2>4
    <3>2. Resting(k)
      BY <3>1 DEF CInv, Upheld
    <3>3. InUse(d) => \E s \in Handlers : req'[s].conv = d
      <4> SUFFICES ASSUME InUse(d) PROVE \E s \in Handlers : req'[s].conv = d
        OBVIOUS
      <4>1. PICK s \in Handlers : req[s].pc # "idle" /\ req[s].conv = d
        BY <1>1, <2>1
      <4>2. s # r
        BY <2>4, <4>1 DEF c
      <4> QED
        BY <1>6, <4>1, <4>2
    <3>4. conv'[d] = conv[d]
      BY <1>5, <2>1, <2>2, <2>4
    <3> SUFFICES ASSUME ~\E s \in Handlers : req'[s].conv = d,
                        ~conv[d].strayed, k = Canonical(conv[d].told)
                 PROVE  conv[d].node = conv[d].told
      BY <3>4 DEF Resting, InUse
    <3> QED
      BY <3>1, <3>2, <3>3 DEF Resting
  <2> QED
    BY <2>3, <2>4
<1> QED
  BY <1>11, <1>12, <1>13 DEF Upheld


\* A request comes: it continues a stored conversation or begins one.
LEMMA BeginUpheld ==
  ASSUME CInv, NEW r \in Handlers, Begin(r)
  PROVE  Upheld'
<1>1. /\ req \in [Handlers -> HandlerState] /\ conv \in [Convs -> ConvState]
      /\ \A s \in Handlers :
            /\ req[s].pc = "idle" => req[s].conv = None
            /\ req[s].pc # "idle" => req[s].conv \in Convs /\ InUse(req[s].conv)
      /\ \A k \in DOMAIN store : store[k] \in Convs /\ store[k] \in Points(store)
      /\ \A d \in Convs : InUse(d) <=>
            \E s \in Handlers : req[s].pc # "idle" /\ req[s].conv = d
  BY UsersKnown DEF CInv, TInvParts
<1>2. PICK history \in answered, message \in Messages :
         Hit(r, history, message) \/ Miss(r, history, message)
  BY DEF Begin
<1>3. req[r].pc = "idle"
  BY DEF Begin
<1> DEFINE messages == Append(history, message)
<1>4. messages \in Seq(Said) /\ Front(messages) = history
  <2>1. history \in Seq(Said) /\ message \in Said
    BY DEF CInv, TInvParts, Said
  <2> QED
    BY <2>1, AppendFront
<1> HIDE DEF messages
<1>5. ASSUME NEW c \in Convs, NEW fresh \in BOOLEAN
      PROVE  LET q == NewRequest(messages, c, fresh)
             IN  /\ q.pc = "exit" /\ q.conv = c /\ q.fresh = fresh
                 /\ Past(q) = IF fresh THEN <<>> ELSE history
  BY <1>4 DEF NewRequest, Idle, Past
<1>6. CASE Hit(r, history, message)
  <2> DEFINE key == Canonical(history)
             q == NewRequest(messages, store[key], FALSE)
             b == conv[store[key]].strayed \/ conv[store[key]].told # history
                    \/ InUse(store[key])
  <2> PICK c : c = store[key]
    OBVIOUS
  <2>1. /\ key \in DOMAIN store /\ UNCHANGED store
        /\ req' = [req EXCEPT ![r] = q]
        /\ conv' = [conv EXCEPT ![c].strayed = b]
    BY <1>6 DEF Hit, Known, messages
  <2>2. c \in Convs /\ c \in Points(store)
    BY <1>1, <2>1
  <2>3. q.pc = "exit" /\ q.conv = c /\ ~q.fresh /\ Past(q) = history
    BY <1>5, <2>2
  <2>4. b <=> conv[c].strayed \/ conv[c].told # history \/ InUse(c)
    OBVIOUS
  <2> HIDE DEF q, b
  <2>5. req'[r] = q /\ \A s \in Handlers : s # r => req'[s] = req[s]
    BY <1>1, <2>1
  <2>6. /\ conv'[c].strayed = b /\ conv'[c].told = conv[c].told
        /\ conv'[c].node = conv[c].node
        /\ \A d \in Convs \ {c} : conv'[d] = conv[d]
    BY <1>1, <2>1, <2>2 DEF ConvState
  <2>7. Points(store)' = Points(store)
    BY <2>1 DEF Points
  <2>8. ASSUME NEW s \in Handlers PROVE FreshAlone(s)'
    <3>1. CASE s = r
      BY <2>3, <2>5, <3>1 DEF FreshAlone
    <3>2. CASE s # r
      <4>1. req'[s] = req[s] /\ FreshAlone(s)
        BY <2>5, <3>2 DEF CInv, Upheld
      <4>2. req[s].pc # "idle" /\ req[s].fresh => req[s].conv # c
        BY <2>2, <4>1 DEF FreshAlone
      <4> QED
        BY <1>1, <2>6, <2>7, <4>1, <4>2 DEF FreshAlone
    <3> QED
      BY <3>1, <3>2
  <2>9. ASSUME NEW s \in Handlers PROVE Follows(s)'
    <3>1. CASE s = r
      <4>1. ~b => conv[c].told = history /\ conv[c].node = history
        <5> SUFFICES ASSUME ~b
                     PROVE  conv[c].told = history /\ conv[c].node = history
          OBVIOUS
        <5>1. ~conv[c].strayed /\ conv[c].told = history /\ ~InUse(c)
          BY <2>4
        <5>2. Resting(key)
          BY <2>1 DEF CInv, Upheld
        <5> QED
          BY <5>1, <5>2 DEF Resting
      <4>2. /\ req'[r].pc = "exit" /\ req'[r].conv = c
            /\ Past(req'[r]) = history /\ Past(req[r])' = Past(req'[r])
        BY <2>3, <2>5 DEF Past
      <4>3. ~conv'[c].strayed => conv'[c].told = history /\ conv'[c].node = history
        BY <2>6, <4>1
      <4> QED
        BY <3>1, <4>2, <4>3 DEF Follows
    <3>2. CASE s # r /\ req[s].pc # "idle" /\ req[s].conv = c
      <4>1. conv'[c].strayed
        BY <1>1, <2>2, <2>4, <2>6, <3>2
      <4> QED
        BY <2>5, <3>2, <4>1 DEF Follows
    <3>3. CASE s # r /\ req[s].pc # "idle" /\ req[s].conv # c
      <4>1. req'[s] = req[s] /\ conv'[req[s].conv] = conv[req[s].conv] /\ Follows(s)
        BY <1>1, <2>5, <2>6, <3>3 DEF CInv, Upheld
      <4> QED
        BY <4>1 DEF Follows, Past
    <3>4. CASE s # r /\ req[s].pc = "idle"
      BY <2>5, <3>4 DEF Follows
    <3> QED
      BY <3>1, <3>2, <3>3, <3>4
  <2>10. OneUser'
    <3> SUFFICES ASSUME NEW s \in Handlers, NEW t \in Handlers, s # t,
                        req'[s].pc # "idle", req'[t].pc # "idle",
                        req'[s].conv = req'[t].conv
                 PROVE  conv'[req'[s].conv].strayed
      BY DEF OneUser
    <3>1. CASE s # r /\ t # r
      <4>1. req'[s] = req[s] /\ req'[t] = req[t] /\ conv[req[s].conv].strayed
            /\ req[s].conv \in Convs
        BY <1>1, <2>5, <3>1 DEF CInv, Upheld, OneUser
      <4> QED
        BY <2>4, <2>6, <4>1
    <3>2. CASE s = r \/ t = r
      <4>1. InUse(c) /\ req'[s].conv = c
        BY <1>1, <2>2, <2>3, <2>5, <3>2
      <4> QED
        BY <2>4, <2>6, <4>1
    <3> QED
      BY <3>1, <3>2
  <2>11. ASSUME NEW k \in DOMAIN store' PROVE Resting(k)'
    <3> PICK d : d = store[k]
      OBVIOUS
    <3>1. k \in DOMAIN store /\ store'[k] = d /\ d \in Convs /\ Resting(k)
      BY <1>1, <2>1 DEF CInv, Upheld
    <3>2. CASE d = c
      BY <2>3, <2>5, <3>1, <3>2 DEF Resting, InUse
    <3>3. CASE d # c
      <4>1. conv'[d] = conv[d]
        BY <2>6, <3>1, <3>3
      <4>2. (\E s \in Handlers : req[s].conv = d) => \E s \in Handlers : req'[s].conv = d
        <5>1. req[r].conv # d
          BY <1>1, <1>3, <3>1, UsersKnown, ConstantsAssumption DEF CInv
        <5> QED
          BY <2>5, <5>1
      <4> QED
        BY <3>1, <4>1, <4>2 DEF Resting, InUse
    <3> QED
      BY <3>2, <3>3
  <2> QED
    BY <2>8, <2>9, <2>10, <2>11 DEF Upheld
<1>7. CASE Miss(r, history, message)
  <2>1. PICK account \in Accounts \cup {None}, c \in Free :
           /\ req' = [req EXCEPT ![r] = NewRequest(messages, c, TRUE)]
           /\ conv' = Collected([conv EXCEPT ![c] = NewConv(account)])
    BY <1>7 DEF Miss, messages
  <2> DEFINE q == NewRequest(messages, c, TRUE)
             objects == [conv EXCEPT ![c] = NewConv(account)]
  <2>2. c \in Convs /\ ~InUse(c) /\ c \notin Points(store)
    BY DEF Free
  <2>3. q.pc = "exit" /\ q.conv = c /\ q.fresh /\ Past(q) = <<>>
    BY <1>5, <2>2
  <2>4. /\ objects[c].node = <<>> /\ objects[c].told = <<>> /\ ~objects[c].strayed
        /\ \A d \in Convs \ {c} : objects[d] = conv[d]
    BY <1>1, <2>2 DEF NewConv
  <2> HIDE DEF q
  <2>5. req'[r] = q /\ \A s \in Handlers : s # r => req'[s] = req[s]
    BY <1>1, <2>1 DEF q
  <2>6. conv' = Collected(objects)
    BY <2>1
  <2> HIDE DEF objects
  <2>7. conv'[c] = objects[c]
    BY <2>2, <2>3, <2>5, <2>6, CollectedKeeps
  <2>8. \A s \in Handlers : s # r /\ req[s].pc # "idle" =>
           req[s].conv # c /\ conv'[req[s].conv] = conv[req[s].conv]
    <3> SUFFICES ASSUME NEW s \in Handlers, s # r, req[s].pc # "idle"
                 PROVE  req[s].conv # c /\ conv'[req[s].conv] = conv[req[s].conv]
      OBVIOUS
    <3>1. req[s].conv \in Convs /\ req[s].conv # c
      BY <1>1, <2>2
    <3>2. conv'[req[s].conv] = objects[req[s].conv]
      BY <2>5, <2>6, <3>1, CollectedKeeps
    <3> QED
      BY <2>4, <3>1, <3>2
  <2>9. /\ DOMAIN store' \subseteq DOMAIN store
        /\ \A k \in DOMAIN store' : store'[k] = store[k]
    BY <1>7 DEF Miss, Delete, StoreBecomes
  <2>10. Points(store)' = Points(store') /\ Points(store') \subseteq Points(store)
    BY <2>9 DEF Points
  <2>11. ASSUME NEW s \in Handlers PROVE FreshAlone(s)' /\ Follows(s)'
    <3>1. CASE s = r
      <4>1. FreshAlone(r)'
        BY <2>2, <2>3, <2>4, <2>5, <2>7, <2>10 DEF FreshAlone
      <4>2. Past(req[r])' = <<>>
        BY <2>3, <2>5 DEF Past
      <4>3. Follows(r)'
        BY <2>3, <2>4, <2>5, <2>7, <4>2 DEF Follows
      <4> QED
        BY <3>1, <4>1, <4>3
    <3>2. CASE s # r
      <4>1. req'[s] = req[s] /\ FreshAlone(s) /\ Follows(s)
        BY <2>5, <3>2 DEF CInv, Upheld
      <4>2. FreshAlone(s)'
        BY <2>8, <2>10, <3>2, <4>1 DEF FreshAlone
      <4>3. Follows(s)'
        BY <2>8, <3>2, <4>1 DEF Follows, Past
      <4> QED
        BY <4>2, <4>3
    <3> QED
      BY <3>1, <3>2
  <2>12. OneUser'
    <3> SUFFICES ASSUME NEW s \in Handlers, NEW t \in Handlers, s # t,
                        req'[s].pc # "idle", req'[t].pc # "idle",
                        req'[s].conv = req'[t].conv
                 PROVE  conv'[req'[s].conv].strayed
      BY DEF OneUser
    <3>1. s # r /\ t # r
      BY <2>3, <2>5, <2>8
    <3>2. conv[req[s].conv].strayed
      BY <2>5, <3>1 DEF CInv, Upheld, OneUser
    <3> QED
      BY <2>5, <2>8, <3>1, <3>2
  <2>13. ASSUME NEW k \in DOMAIN store' PROVE Resting(k)'
    <3> PICK d : d = store[k]
      OBVIOUS
    <3>1. k \in DOMAIN store /\ store'[k] = d /\ d \in Convs /\ Resting(k)
          /\ d \in Points(store)
      BY <1>1, <2>9 DEF CInv, Upheld
    <3>2. d # c /\ d \in Points(store')
      BY <2>2, <3>1 DEF Points
    <3>3. conv'[d] = conv[d]
      BY <2>4, <2>6, <3>1, <3>2, CollectedKeeps
    <3>4. (\E s \in Handlers : req[s].conv = d) => \E s \in Handlers : req'[s].conv = d
      <4>1. req[r].conv # d
        BY <1>1, <1>3, <3>1, ConstantsAssumption
      <4> QED
        BY <2>5, <4>1
    <3> QED
      BY <3>1, <3>3, <3>4 DEF Resting, InUse
  <2> QED
    BY <2>11, <2>12, <2>13 DEF Upheld
<1> QED
  BY <1>2, <1>6, <1>7


\* Every step keeps what Google holds and what the client sent together.
LEMMA UpheldStep ==
  ASSUME CInv, [Next]_vars
  PROVE  Upheld'
<1>1. /\ req \in [Handlers -> HandlerState] /\ conv \in [Convs -> ConvState]
      /\ \A s \in Handlers : req[s].pc # "idle" => req[s].conv \in Convs
  BY UsersKnown DEF CInv, TInvParts
<1>2. ASSUME NEW r \in Handlers, TakeExit(r) PROVE Upheld'
  <2>1. PICK e \in Exits :
           req' = [req EXCEPT ![r] =
                      [req[r] EXCEPT !.exit = e, !.pc = "session", !.attempt = 0]]
    BY <1>1, <1>2 DEF TakeExit
  <2> DEFINE q == [req[r] EXCEPT !.exit = e, !.pc = "session", !.attempt = 0]
  <2>2. req[r].pc = "exit" /\ UNCHANGED <<conv, store>>
    BY <1>2 DEF TakeExit
  <2>3. /\ q.pc = "session" /\ q.conv = req[r].conv /\ q.messages = req[r].messages
        /\ q.fresh = req[r].fresh
    BY <1>1 DEF HandlerState
  <2> HIDE DEF q
  <2>4. \A c \in Convs : Same(c)
    BY <2>2 DEF Same
  <2>5. req' = [req EXCEPT ![r] = q]
    BY <2>1 DEF q
  <2> QED
    BY <2>2, <2>3, <2>4, <2>5, GoesOn
<1>3. ASSUME NEW r \in Handlers, NoExit(r) \/ NothingToStore(r) PROVE Upheld'
  <2>1. Fail(r) /\ conv' = Collected(conv) /\ req[r].pc # "idle"
    BY <1>3 DEF NoExit, NothingToStore
  <2> QED
    BY <2>1, EndsUpheld
<1>4. ASSUME NEW r \in Handlers, Build(r) PROVE Upheld'
  <2> DEFINE c == req[r].conv
             q == [req[r] EXCEPT !.base = conv[c].node, !.pc = "send"]
             s == IF conv[c].session = None THEN req[r].exit ELSE conv[c].session
  <2>1. /\ req[r].pc = "session" /\ UNCHANGED store
        /\ req' = [req EXCEPT ![r] = q]
        /\ conv' = [conv EXCEPT ![c].session = s]
    BY <1>1, <1>4 DEF Build
  <2>2. /\ q.pc = "send" /\ q.conv = c /\ q.messages = req[r].messages
        /\ q.fresh = req[r].fresh /\ q.base = conv[c].node
    BY <1>1 DEF HandlerState
  <2> HIDE DEF q, s
  <2>3. \A d \in Convs : Same(d)
    BY <1>1, <2>1 DEF Same, ConvState
  <2> QED
    BY <2>1, <2>2, <2>3, GoesOn
<1>5. ASSUME NEW r \in Handlers, SessionFails(r) PROVE Upheld'
  BY <1>5, GiveUpExitUpheld DEF SessionFails
<1>6. ASSUME NEW r \in Handlers, AttemptFails(r) PROVE Upheld'
  <2>1. req[r].pc = "send" /\ conv' = Collected(conv)
    BY <1>6 DEF AttemptFails
  <2>2. CASE Fail(r)
    BY <2>1, <2>2, EndsUpheld
  <2>3. CASE GiveUpExit(r)
    BY <2>1, <2>3, GiveUpExitUpheld
  <2>4. CASE req' = [req EXCEPT ![r].attempt = @ + 1] /\ UNCHANGED store
    <3> DEFINE q == [req[r] EXCEPT !.attempt = @ + 1]
    <3>1. /\ req' = [req EXCEPT ![r] = q]
          /\ q.pc = "send" /\ q.conv = req[r].conv /\ q.messages = req[r].messages
          /\ q.fresh = req[r].fresh /\ q.base = req[r].base
      BY <1>1, <2>1, <2>4 DEF HandlerState
    <3> HIDE DEF q
    <3>2. \A c \in Convs : InUse(c) \/ c \in Points(store) => Same(c)
      <4> SUFFICES ASSUME NEW c \in Convs, InUse(c) \/ c \in Points(store)
                   PROVE  conv'[c] = conv[c]
        BY DEF Same
      <4>1. \A s \in Handlers : req'[s].conv = req[s].conv
        BY <1>1, <3>1
      <4>2. c \in Points(store') \/ \E s \in Handlers : req'[s].conv = c
        BY <2>4, <4>1 DEF InUse
      <4> QED
        BY <2>1, <4>2, CollectedKeeps
    <3> QED
      BY <2>1, <2>4, <3>1, <3>2, GoesOn
  <2> QED
    BY <1>6, <2>2, <2>3, <2>4 DEF AttemptFails
<1>7. CASE Restart
  <2>1. /\ \A r \in Handlers : req'[r].pc = "idle"
        /\ DOMAIN store' = {}
    BY <1>7 DEF Restart, StoreBecomes, Empty, Idle
  <2> QED
    BY <2>1 DEF Upheld, FreshAlone, Follows, OneUser
<1>8. CASE Expires \/ UNCHANGED vars
  <2>1. UNCHANGED <<req, conv, store>>
    BY <1>8 DEF Expires, vars
  <2> QED
    BY <2>1 DEF CInv, Upheld, FreshAlone, Follows, Past, OneUser, Resting, InUse, Points
<1> QED
  BY <1>2, <1>3, <1>4, <1>5, <1>6, <1>7, <1>8, BeginUpheld, AnsweredUpheld, StoreUpheld
     DEF Next, Step

\* A conversation that was continued once from each answer, by one request at
\* a time, gets only what it lacks: what Google holds when the new message is
\* sent is the client's history (conversation.go:120-121), whatever failed,
\* expired or was evicted before, for histories of any length.
THEOREM HistoryContinued == Spec => []ContinuesTheHistory
<1>1. Init => Upheld
  BY DEF Init, Upheld, FreshAlone, Follows, OneUser, Idle, Empty
<1>2. CInv /\ [Next]_vars => Upheld'
  BY UpheldStep
<1>3. CInv => ContinuesTheHistory
  BY DEF CInv, Upheld, Follows, Past, ContinuesTheHistory
<1> QED
  BY <1>1, <1>2, <1>3, TypesInvariance, PTL DEF Spec, CInv

===============================================================================
