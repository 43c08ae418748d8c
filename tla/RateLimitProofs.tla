---------------------------- MODULE RateLimitProofs ----------------------------
(***************************************************************************)
(* Proofs about the limiter for every set of exits and callers, every      *)
(* choice of limits and every pair of window lengths.                      *)
(***************************************************************************)
EXTENDS RateLimit, FiniteSetTheorems, SequenceTheorems, TLAPS

\* Pruning a window of times leaves a window of times: what is cut is cut
\* from the front, whatever the clock says.
LEMMA PruneType ==
    ASSUME NEW ts \in Seq(Nat), NEW age \in Nat
    PROVE  Prune(ts, age) \in Seq(Nat)
<1> DEFINE cut == {i \in DOMAIN ts : \A j \in 1..i : ts[j] + age < now}
<1>1. cut \subseteq 1..Len(ts) /\ IsFiniteSet(1..Len(ts))
  BY FS_Interval
<1>2. Cardinality(cut) \in Nat
  BY <1>1, FS_Subset, FS_CardinalityType
<1>3. \A m, n \in Nat : m >= 1 /\ n <= Len(ts) => SubSeq(ts, m, n) \in Seq(Nat)
  BY SubSeqProperties
<1>4. SubSeq(ts, Cardinality(cut) + 1, Len(ts)) \in Seq(Nat)
  <2> HIDE DEF cut
  <2> QED BY <1>2, <1>3, LenProperties
<1> QED
  BY <1>4 DEF Prune

\* Pruning keeps the type of a slot.
LEMMA PrunedType ==
    ASSUME ConstantsAssumption, NEW s \in SlotContents
    PROVE  /\ Pruned(s) \in SlotContents
           /\ Pruned(s).inflight = s.inflight
<1>1. Prune(s.minuteWin, MinuteLen) \in Seq(Nat)
  BY PruneType DEF SlotContents, ConstantsAssumption
<1>2. Prune(s.hourWin, HourLen) \in Seq(Nat)
  BY PruneType DEF SlotContents, ConstantsAssumption
<1> QED
  BY <1>1, <1>2 DEF Pruned, SlotContents

\* What the callers know about the table: a slot, once in it, stays; a
\* caller that got a slot from getSlot has the one the table holds for its
\* exit; two exits never share a slot.  Who decides read the clock before.
CallersKnow ==
    /\ \A e \in Exits : table[e] # NoSlot => table[e] \in {e} \X Callers
    /\ \A c \in Callers :
          /\ pc[c] # "idle" => exit[c] \in Exits
          /\ pc[c] = "missed" => op[c] # "give"
          /\ pc[c] = "at" \/ Deciding(c) => ptr[c] = table[exit[c]]
          /\ pc[c] \in {"at", "holding"} \/ Deciding(c) => table[exit[c]] # NoSlot
          /\ Deciding(c) => stamp[c] <= now
          /\ pc[c] = "limited" => check[c] # "done"
          /\ ~Deciding(c) => check[c] = "conc"

\* Who decides is alone with its slot: it has the slot's mutex.
DecidersAlone ==
    \A c, d \in Callers : Deciding(c) /\ Deciding(d) /\ ptr[c] = ptr[d] => c = d

IInv == TypeOK /\ CallersKnow /\ DecidersAlone /\ InflightIsHolders

-------------------------------------------------------------------------------
LEMMA InitIInv == ASSUME ConstantsAssumption, Init PROVE IInv
<1>1. TypeOK
  BY DEF ConstantsAssumption, Init, TypeOK, Addresses, SlotContents, FreshSlot,
         PCs, Ops, Checks
<1>2. CallersKnow
  BY DEF Init, CallersKnow, Deciding
<1>3. InflightIsHolders
  BY DEF Init, InflightIsHolders, Holders, Holds
<1>4. DecidersAlone
  BY DEF Init, DecidersAlone, Deciding
<1> QED
  BY <1>1, <1>2, <1>3, <1>4 DEF IInv

\* Every step keeps the types.
LEMMA NextTypeOK ==
    ASSUME ConstantsAssumption, IInv, [Next]_vars
    PROVE  TypeOK'
<1> USE DEF TypeOK, Addresses, PCs, Ops, Checks
<1>1. ASSUME NEW c \in Callers, NEW o \in Ops, NEW e \in Exits, Lookup(c, o, e)
      PROVE  TypeOK'
  BY <1>1 DEF IInv, Lookup
<1>2. ASSUME NEW c \in Callers, Create(c) PROVE TypeOK'
  <2>1. exit[c] \in Exits
    BY <1>2 DEF IInv, CallersKnow, Create
  <2>2. <<exit[c], c>> \in Slots
    BY <2>1 DEF Slots
  <2>3. FreshSlot \in SlotContents
    BY DEF FreshSlot, SlotContents
  <2>4. slot' \in [Slots -> SlotContents] /\ table' \in [Exits -> Addresses]
    <3>1. CASE table[exit[c]] # NoSlot
      BY <1>2, <3>1 DEF IInv, Create
    <3>2. CASE table[exit[c]] = NoSlot
      <4>1. /\ slot' = [slot EXCEPT ![<<exit[c], c>>] = FreshSlot]
            /\ table' = [table EXCEPT ![exit[c]] = <<exit[c], c>>]
        BY <1>2, <3>2 DEF Create
      <4>2. slot' \in [Slots -> SlotContents]
        BY <4>1, <2>3 DEF IInv
      <4>3. table' \in [Exits -> Addresses]
        BY <4>1, <2>2 DEF IInv
      <4> QED
        BY <4>2, <4>3
    <3> QED
      BY <3>1, <3>2
  <2>5. ptr' \in [Callers -> Addresses]
    BY <1>2, <2>1, <2>2 DEF IInv, Create
  <2>6. pc' \in [Callers -> PCs]
    BY <1>2 DEF IInv, Create
  <2> QED
    BY <1>2, <2>4, <2>5, <2>6 DEF IInv, Create
<1>3. ASSUME NEW c \in Callers, pc[c] = "at" \/ Deciding(c)
      PROVE  exit[c] \in Exits /\ ptr[c] \in Slots /\ slot[ptr[c]] \in SlotContents
  <2>1. exit[c] \in Exits /\ ptr[c] = table[exit[c]] /\ table[exit[c]] # NoSlot
    BY <1>3 DEF IInv, CallersKnow, Deciding
  <2> QED
    BY <2>1 DEF IInv
<1>4. ASSUME NEW c \in Callers, Acquire(c) PROVE TypeOK'
  <2>1. /\ exit[c] \in Exits /\ ptr[c] \in Slots
        /\ slot[ptr[c]] \in SlotContents /\ stamp[c] \in Nat
    BY <1>3, <1>4 DEF Acquire, Deciding, IInv
  <2> DEFINE s == slot[ptr[c]]
             t == [inflight  |-> s.inflight + 1,
                   minuteWin |-> Append(s.minuteWin, stamp[c]),
                   hourWin   |-> Append(s.hourWin, stamp[c])]
  <2>2. t \in SlotContents
    BY <2>1 DEF SlotContents
  <2>3. slot' = [slot EXCEPT ![ptr[c]] = t]
    BY <1>4 DEF Acquire
  <2>4. slot' \in [Slots -> SlotContents]
    BY <2>1, <2>2, <2>3 DEF IInv
  <2>5. starts' \in [Exits -> Seq(Nat)]
    BY <1>4, <2>1 DEF IInv, Acquire
  <2> QED
    BY <1>4, <2>4, <2>5 DEF IInv, Acquire
<1>5. ASSUME NEW c \in Callers, Begin(c) PROVE TypeOK'
  <2>1. ptr[c] \in Slots /\ Pruned(slot[ptr[c]]) \in SlotContents
    BY <1>3, <1>5, PrunedType DEF Begin
  <2>2. slot' = [slot EXCEPT ![ptr[c]] = Pruned(slot[ptr[c]])]
    BY <1>5 DEF Begin
  <2>3. slot' \in [Slots -> SlotContents]
    BY <2>1, <2>2 DEF IInv
  <2> QED
    BY <1>5, <2>3 DEF IInv, Begin
<1>6. ASSUME NEW c \in Callers, Release(c) PROVE TypeOK'
  <2>1. ptr[c] \in Slots /\ slot[ptr[c]] \in SlotContents
    BY <1>3, <1>6 DEF Release
  <2> DEFINE n == IF slot[ptr[c]].inflight > 0 THEN slot[ptr[c]].inflight - 1
                                               ELSE slot[ptr[c]].inflight
             t == [slot[ptr[c]] EXCEPT !.inflight = n]
  <2>2. t \in SlotContents
    <3>1. n \in Nat
      BY <2>1 DEF SlotContents
    <3> HIDE DEF n
    <3> QED
      BY <2>1, <3>1 DEF SlotContents
  <2>3. slot' = [slot EXCEPT ![ptr[c]] = t]
    BY <1>6 DEF Release
  <2>4. slot' \in [Slots -> SlotContents]
    BY <2>1, <2>2, <2>3 DEF IInv
  <2> QED
    BY <1>6, <2>4 DEF IInv, Release
<1>7. ASSUME NEW c \in Callers, ReadUsage(c) PROVE TypeOK'
  <2>1. ptr[c] \in Slots /\ Pruned(slot[ptr[c]]) \in SlotContents
    BY <1>3, <1>7, PrunedType DEF ReadUsage
  <2>2. slot' = [slot EXCEPT ![ptr[c]] = Pruned(slot[ptr[c]])]
    BY <1>7 DEF ReadUsage
  <2>3. slot' \in [Slots -> SlotContents]
    BY <2>1, <2>2 DEF IInv
  <2> QED
    BY <1>7, <2>3 DEF IInv, ReadUsage
<1>8. CASE Tick
  BY <1>8 DEF IInv, Tick
<1>9. CASE SetLimits
  BY <1>9 DEF IInv, SetLimits
<1>10. CASE UNCHANGED vars
  BY <1>10 DEF IInv, vars
<1>11. ASSUME NEW c \in Callers, ReadLimit(c) \/ Compare(c) PROVE TypeOK'
  <2>1. check[c] \in {"conc", "rpm", "rph"}
    BY <1>11 DEF ReadLimit, Compare, IInv, CallersKnow
  <2>2. NextCheck[check[c]] \in Checks
    BY <2>1 DEF NextCheck, Checks
  <2>3. pc' \in [Callers -> PCs] /\ check' \in [Callers -> Checks]
    BY <1>11, <2>2 DEF ReadLimit, Compare, IInv
  <2> QED
    BY <1>11, <2>3 DEF ReadLimit, Compare, IInv
<1>12. ASSUME NEW c \in Callers, Refuse(c) PROVE TypeOK'
  BY <1>12 DEF IInv, Refuse, Refused
<1> QED
  BY <1>1, <1>2, <1>4, <1>5, <1>6, <1>7, <1>8, <1>9, <1>10, <1>11, <1>12 DEF Next

\* What the invariant says of one caller.
Knows(d) ==
    /\ pc[d] # "idle" => exit[d] \in Exits
    /\ pc[d] = "missed" => op[d] # "give"
    /\ pc[d] = "at" \/ Deciding(d) => ptr[d] = table[exit[d]]
    /\ pc[d] \in {"at", "holding"} \/ Deciding(d) => table[exit[d]] # NoSlot
    /\ Deciding(d) => stamp[d] <= now
    /\ pc[d] = "limited" => check[d] # "done"
    /\ ~Deciding(d) => check[d] = "conc"

\* A step of others leaves what a caller knows.
LEMMA KnowsStill ==
    ASSUME IInv, NEW d \in Callers,
           pc'[d] = pc[d], op'[d] = op[d], exit'[d] = exit[d], ptr'[d] = ptr[d],
           stamp'[d] = stamp[d], check'[d] = check[d],
           now' = now, exit[d] \in Exits /\ table[exit[d]] # NoSlot =>
                          table'[exit[d]] = table[exit[d]]
    PROVE  Knows(d)'
BY DEF IInv, CallersKnow, Knows, Deciding

\* Every step keeps callers and the table in agreement.
LEMMA NextCallersKnow ==
    ASSUME ConstantsAssumption, IInv, [Next]_vars
    PROVE  CallersKnow'
<1> USE DEF IInv, TypeOK
<1>1. ASSUME table' = table, \A d \in Callers : Knows(d)' PROVE CallersKnow'
  BY <1>1 DEF CallersKnow, Knows
<1>2. ASSUME NEW c \in Callers, NEW o \in Ops, NEW e \in Exits, Lookup(c, o, e)
      PROVE  CallersKnow'
  <2>1. \A d \in Callers \ {c} : Knows(d)'
    BY <1>2, KnowsStill DEF Lookup
  <2>2. Knows(c)'
    BY <1>2 DEF Lookup, Ops, CallersKnow, Knows, Deciding
  <2> QED
    BY <1>1, <1>2, <2>1, <2>2 DEF Lookup
<1>3. ASSUME NEW c \in Callers, Create(c) PROVE CallersKnow'
  <2>1. exit[c] \in Exits /\ op[c] # "give"
    BY <1>3 DEF Create, CallersKnow
  <2>2. /\ pc' = [pc EXCEPT ![c] = "at"]
        /\ UNCHANGED <<now, op, exit, stamp, check>>
    BY <1>3 DEF Create
  <2>5. pc[c] = "missed" /\ check[c] = "conc"
    BY <1>3 DEF Create, CallersKnow, Deciding
  <2>3. CASE table[exit[c]] # NoSlot
    <3>1. table' = table /\ ptr' = [ptr EXCEPT ![c] = table[exit[c]]]
      BY <1>3, <2>3 DEF Create
    <3>2. \A d \in Callers \ {c} : Knows(d)'
      BY <2>2, <3>1, KnowsStill
    <3>3. Knows(c)'
      BY <2>1, <2>2, <2>3, <2>5, <3>1 DEF Knows, Deciding
    <3> QED
      BY <1>1, <3>1, <3>2, <3>3
  <2>4. CASE table[exit[c]] = NoSlot
    <3> DEFINE a == <<exit[c], c>>
    <3>1. /\ table' = [table EXCEPT ![exit[c]] = a]
          /\ ptr' = [ptr EXCEPT ![c] = a]
      BY <1>3, <2>4 DEF Create
    <3>2. a # NoSlot /\ a \in {exit[c]} \X Callers
      BY <2>1 DEF ConstantsAssumption
    <3>3. \A d \in Callers \ {c} : Knows(d)'
      BY <2>2, <2>4, <3>1, KnowsStill
    <3>4. Knows(c)'
      BY <2>1, <2>2, <3>1, <3>2, <2>5 DEF Knows, Deciding
    <3>5. \A e \in Exits : table'[e] # NoSlot => table'[e] \in {e} \X Callers
      BY <2>1, <3>1, <3>2 DEF CallersKnow
    <3> QED
      BY <3>3, <3>4, <3>5 DEF CallersKnow, Knows
  <2> QED
    BY <2>3, <2>4
<1>4. ASSUME NEW c \in Callers,
             Begin(c) \/ ReadLimit(c) \/ Compare(c) \/ Refuse(c) \/ Acquire(c)
                \/ Release(c) \/ ReadUsage(c)
      PROVE  CallersKnow'
  <2>1. /\ UNCHANGED <<now, table>>
        /\ \A d \in Callers \ {c} :
              /\ pc'[d] = pc[d] /\ op'[d] = op[d] /\ exit'[d] = exit[d]
              /\ ptr'[d] = ptr[d] /\ stamp'[d] = stamp[d] /\ check'[d] = check[d]
    <3>1. CASE Begin(c)
      BY <3>1 DEF Begin
    <3>2. CASE ReadLimit(c) \/ Compare(c)
      BY <3>2 DEF ReadLimit, Compare
    <3>3. CASE Refuse(c) \/ Acquire(c)
      BY <3>3 DEF Refuse, Refused, Acquire
    <3>4. CASE Release(c) \/ ReadUsage(c)
      BY <3>4 DEF Release, ReadUsage
    <3> QED
      BY <1>4, <3>1, <3>2, <3>3, <3>4
  <2>2. \A d \in Callers \ {c} : Knows(d)'
    BY <2>1, KnowsStill
  <2>3. Knows(c)'
    <3>1. CASE Begin(c)
      BY <3>1 DEF Begin, CallersKnow, Knows, Deciding
    <3>2. CASE ReadLimit(c)
      BY <3>2 DEF ReadLimit, CallersKnow, Knows, Deciding
    <3>3. CASE Compare(c)
      BY <3>3 DEF Compare, CallersKnow, Knows, Deciding
    <3>4. CASE Refuse(c) \/ Release(c) \/ ReadUsage(c)
      BY <3>4 DEF Refuse, Refused, Release, ReadUsage, CallersKnow, Knows, Deciding
    <3>5. CASE Acquire(c)
      BY <3>5 DEF Acquire, CallersKnow, Knows, Deciding
    <3> QED
      BY <1>4, <3>1, <3>2, <3>3, <3>4, <3>5
  <2> QED
    BY <1>1, <2>1, <2>2, <2>3
<1>5. CASE Tick \/ SetLimits \/ UNCHANGED vars
  BY <1>5 DEF Tick, SetLimits, vars, CallersKnow, Deciding
<1> QED
  BY <1>2, <1>3, <1>4, <1>5 DEF Next

\* Only Begin makes a decider, and it finds nobody in the slot.
LEMMA NextDecidersAlone ==
    ASSUME ConstantsAssumption, IInv, [Next]_vars
    PROVE  DecidersAlone'
<1> USE DEF IInv, TypeOK
<1>1. ASSUME \A d \in Callers : Deciding(d)' => Deciding(d) /\ ptr'[d] = ptr[d]
      PROVE  DecidersAlone'
  BY <1>1 DEF DecidersAlone
<1>2. ASSUME NEW c \in Callers, Begin(c) PROVE DecidersAlone'
  <2>1. /\ \A d \in Callers \ {c} : Deciding(d)' => Deciding(d) /\ ptr[d] # ptr[c]
        /\ ptr' = ptr
    BY <1>2 DEF Begin, Locked, Deciding
  <2> QED
    BY <2>1 DEF DecidersAlone
<1>3. ASSUME NEW c \in Callers, NEW o \in Ops, NEW e \in Exits, Lookup(c, o, e)
      PROVE  DecidersAlone'
  BY <1>1, <1>3 DEF Lookup, Deciding
<1>4. ASSUME NEW c \in Callers, Create(c) PROVE DecidersAlone'
  BY <1>1, <1>4 DEF Create, Deciding
<1>5. ASSUME NEW c \in Callers, ReadLimit(c) \/ Compare(c) PROVE DecidersAlone'
  BY <1>1, <1>5 DEF ReadLimit, Compare, Deciding
<1>6. ASSUME NEW c \in Callers, Refuse(c) \/ Acquire(c) PROVE DecidersAlone'
  BY <1>1, <1>6 DEF Refuse, Refused, Acquire, Deciding
<1>7. ASSUME NEW c \in Callers, Release(c) \/ ReadUsage(c) PROVE DecidersAlone'
  BY <1>1, <1>7 DEF Release, ReadUsage, Deciding
<1>8. CASE Tick \/ SetLimits \/ UNCHANGED vars
  BY <1>1, <1>8 DEF Tick, SetLimits, vars, Deciding
<1> QED
  BY <1>2, <1>3, <1>4, <1>5, <1>6, <1>7, <1>8 DEF Next

-------------------------------------------------------------------------------
\* The in-flight count of the slot of exit e.
Inflight(e) == slot[table[e]].inflight

\* InflightIsHolders for one exit, the form the steps are proved in.
Conserved(e) ==
    IF table[e] = NoSlot THEN Holders(e) = {}
    ELSE Inflight(e) = Cardinality(Holders(e))

\* The callers on an exit can be counted.
LEMMA HoldersFinite ==
    ASSUME ConstantsAssumption, NEW e \in Exits
    PROVE  IsFiniteSet(Holders(e)) /\ Cardinality(Holders(e)) \in Nat
BY FS_Subset, FS_CardinalityType DEF Holders, ConstantsAssumption

\* Slots of distinct exits are distinct, so what happens to one exit's slot
\* leaves every other exit's count alone.
LEMMA SlotsDistinct ==
    ASSUME ConstantsAssumption, IInv,
           NEW d \in Exits, NEW e \in Exits, d # e,
           table[d] # NoSlot, table[e] # NoSlot
    PROVE  table[d] # table[e]
BY DEF IInv, CallersKnow

\* A step that leaves the holders and the table alone, and the in-flight
\* count of every slot in the table, conserves.
LEMMA QuietStep ==
    ASSUME ConstantsAssumption, IInv,
           \A e \in Exits : Holders(e)' = Holders(e),
           table' = table,
           \A e \in Exits : table[e] # NoSlot =>
               slot'[table[e]].inflight = slot[table[e]].inflight
    PROVE  InflightIsHolders'
BY DEF IInv, InflightIsHolders

\* Every step changes the counter of a slot as it changes the holders.
LEMMA NextConserves ==
    ASSUME ConstantsAssumption, IInv, [Next]_vars
    PROVE  InflightIsHolders'
<1>1. ASSUME NEW c \in Callers, NEW o \in Ops, NEW e \in Exits, Lookup(c, o, e)
      PROVE  InflightIsHolders'
  <2>1. \A d \in Exits : Holders(d)' = Holders(d)
    BY <1>1 DEF Lookup, Holders, Holds, IInv, TypeOK, CallersKnow, Ops
  <2>2. UNCHANGED <<table, slot>>
    BY <1>1 DEF Lookup
  <2> QED
    BY <2>1, <2>2, QuietStep
<1>2. ASSUME NEW c \in Callers, Create(c) PROVE InflightIsHolders'
  <2>1. exit[c] \in Exits /\ pc[c] = "missed" /\ op[c] # "give"
    BY <1>2 DEF Create, IInv, CallersKnow
  <2>2. \A d \in Exits : Holders(d)' = Holders(d)
    BY <1>2, <2>1 DEF Create, Holders, Holds, IInv, TypeOK
  <2>3. CASE table[exit[c]] # NoSlot
    <3>1. UNCHANGED <<table, slot>>
      BY <1>2, <2>3 DEF Create
    <3> QED
      BY <2>2, <3>1, QuietStep
  <2>4. CASE table[exit[c]] = NoSlot
    <3> DEFINE a == <<exit[c], c>>
    <3>1. /\ table' = [table EXCEPT ![exit[c]] = a]
          /\ slot' = [slot EXCEPT ![a] = FreshSlot]
      BY <1>2, <2>4 DEF Create
    <3>2. a \in Slots /\ a # NoSlot
      BY <2>1 DEF Slots, ConstantsAssumption
    <3>3. ASSUME NEW d \in Exits PROVE Conserved(d)'
      <4>1. CASE d = exit[c]
        <5>1. table'[d] = a /\ slot'[a] = FreshSlot
          BY <3>1, <3>2, <4>1 DEF IInv, TypeOK
        <5>2. Holders(d)' = {}
          BY <2>2, <2>4, <4>1 DEF IInv, InflightIsHolders
        <5> QED
          BY <3>2, <5>1, <5>2, FS_EmptySet DEF Conserved, Inflight, FreshSlot
      <4>2. CASE d # exit[c]
        <5>1. table'[d] = table[d]
          BY <3>1, <4>2 DEF IInv, TypeOK
        <5>2. table[d] # NoSlot => table[d] # a
          BY <2>1, <4>2 DEF IInv, CallersKnow
        <5>3. table[d] # NoSlot => slot'[table[d]] = slot[table[d]]
          BY <3>1, <5>2 DEF IInv, TypeOK, Addresses
        <5> QED
          BY <2>2, <5>1, <5>3 DEF IInv, InflightIsHolders, Conserved, Inflight
      <4> QED
        BY <4>1, <4>2
    <3> QED
      BY <3>3 DEF Conserved, Inflight, InflightIsHolders
  <2> QED
    BY <2>3, <2>4
\* What a caller at its slot touches: the slot of its own exit.
<1>3. ASSUME NEW c \in Callers, pc[c] = "at" \/ Deciding(c)
      PROVE  /\ exit[c] \in Exits /\ ptr[c] = table[exit[c]] /\ ptr[c] # NoSlot
             /\ ptr[c] \in Slots /\ slot[ptr[c]] \in SlotContents
             /\ slot[ptr[c]].inflight \in Nat
             /\ slot[ptr[c]].inflight = Cardinality(Holders(exit[c]))
             /\ \A d \in Exits : d # exit[c] /\ table[d] # NoSlot => table[d] # ptr[c]
  <2>1. exit[c] \in Exits /\ ptr[c] = table[exit[c]] /\ ptr[c] # NoSlot
    BY <1>3 DEF IInv, CallersKnow, Deciding
  <2>2. ptr[c] \in Slots /\ slot[ptr[c]] \in SlotContents
    BY <2>1 DEF IInv, TypeOK, Addresses
  <2>3. slot[ptr[c]].inflight = Cardinality(Holders(exit[c]))
    BY <2>1 DEF IInv, InflightIsHolders
  <2> QED
    BY <2>1, <2>2, <2>3, SlotsDistinct DEF SlotContents
<1>4. ASSUME NEW c \in Callers, Acquire(c) PROVE InflightIsHolders'
  <2> DEFINE s == slot[ptr[c]]
             t == [inflight  |-> s.inflight + 1,
                   minuteWin |-> Append(s.minuteWin, stamp[c]),
                   hourWin   |-> Append(s.hourWin, stamp[c])]
  <2>1. /\ pc[c] = "checking" /\ Deciding(c)
        /\ slot' = [slot EXCEPT ![ptr[c]] = t]
        /\ pc' = [pc EXCEPT ![c] = "holding"]
        /\ UNCHANGED <<table, op, exit>>
    BY <1>4 DEF Acquire, Deciding
  <2>2. t.inflight = slot[ptr[c]].inflight + 1
    OBVIOUS
  <2> HIDE DEF s, t
  <2>3. ASSUME NEW d \in Exits PROVE Conserved(d)'
    <3>1. CASE d = exit[c]
      <4>1. c \notin Holders(d) /\ Holders(d)' = Holders(d) \cup {c}
        BY <2>1, <3>1 DEF Holders, Holds, IInv, TypeOK
      <4>2. Cardinality(Holders(d)') = Cardinality(Holders(d)) + 1
        BY <4>1, HoldersFinite, FS_AddElement
      <4>3. table'[d] = ptr[c] /\ ptr[c] # NoSlot /\ slot'[ptr[c]] = t
        BY <1>3, <2>1, <3>1 DEF IInv, TypeOK
      <4> QED
        BY <1>3, <2>1, <2>2, <3>1, <4>2, <4>3 DEF Conserved, Inflight
    <3>2. CASE d # exit[c]
      <4>1. Holders(d)' = Holders(d)
        BY <2>1, <3>2 DEF Holders, Holds, IInv, TypeOK
      <4>2. table[d] # NoSlot => slot'[table[d]] = slot[table[d]]
        BY <1>3, <2>1, <3>2 DEF IInv, TypeOK, Addresses
      <4> QED
        BY <2>1, <4>1, <4>2 DEF Conserved, Inflight, IInv, InflightIsHolders
    <3> QED
      BY <3>1, <3>2
  <2> QED
    BY <2>3 DEF Conserved, Inflight, InflightIsHolders
<1>5. ASSUME NEW c \in Callers, Begin(c) \/ ReadUsage(c) PROVE InflightIsHolders'
  <2>1. /\ pc[c] = "at"
        /\ slot' = [slot EXCEPT ![ptr[c]] = Pruned(slot[ptr[c]])]
        /\ UNCHANGED table
    BY <1>5 DEF Begin, ReadUsage
  <2>2. \A d \in Exits : Holders(d)' = Holders(d)
    BY <1>5 DEF Begin, ReadUsage, Holders, Holds, IInv, TypeOK
  <2>3. Pruned(slot[ptr[c]]).inflight = slot[ptr[c]].inflight
    BY <1>3, <2>1, PrunedType
  <2>4. \A d \in Exits : table[d] # NoSlot =>
            slot'[table[d]].inflight = slot[table[d]].inflight
    BY <2>1, <2>3 DEF IInv, TypeOK, Addresses
  <2> QED
    BY <2>1, <2>2, <2>4, QuietStep
<1>6. ASSUME NEW c \in Callers, Release(c) PROVE InflightIsHolders'
  <2>1. /\ pc[c] = "at" /\ op[c] = "give"
        /\ slot' = [slot EXCEPT ![ptr[c]].inflight = IF @ > 0 THEN @ - 1 ELSE @]
        /\ pc' = [pc EXCEPT ![c] = "idle"]
        /\ exit' = [exit EXCEPT ![c] = NoExit]
        /\ UNCHANGED <<table, op>>
    BY <1>6 DEF Release
  <2>2. ASSUME NEW d \in Exits PROVE Conserved(d)'
    <3>1. CASE d = exit[c]
      <4>1. c \in Holders(d) /\ Holders(d)' = Holders(d) \ {c}
        BY <2>1, <3>1, <1>3 DEF Holders, Holds, IInv, TypeOK, ConstantsAssumption
      <4>2. /\ Cardinality(Holders(d)') = Cardinality(Holders(d)) - 1
            /\ Cardinality(Holders(d)) > 0
        <5>1. Cardinality(Holders(d)) # 0
          BY <4>1, HoldersFinite, FS_EmptySet
        <5> QED
          <6>1. IsFiniteSet(Holders(d)) /\ Cardinality(Holders(d)) \in Nat
            BY HoldersFinite
          <6>2. Cardinality(Holders(d) \ {c}) = Cardinality(Holders(d)) - 1
            BY <4>1, <6>1, FS_RemoveElement
          <6> QED
            BY <4>1, <5>1, <6>1, <6>2
      <4>3. /\ table'[d] = ptr[c] /\ ptr[c] # NoSlot
            /\ slot'[ptr[c]].inflight = slot[ptr[c]].inflight - 1
        BY <1>3, <2>1, <3>1, <4>2 DEF IInv, TypeOK, SlotContents
      <4> QED
        BY <1>3, <2>1, <3>1, <4>2, <4>3 DEF Conserved, Inflight
    <3>2. CASE d # exit[c]
      <4>1. Holders(d)' = Holders(d)
        BY <2>1, <3>2, <1>3 DEF Holders, Holds, IInv, TypeOK, ConstantsAssumption
      <4>2. table[d] # NoSlot => slot'[table[d]] = slot[table[d]]
        BY <1>3, <2>1, <3>2 DEF IInv, TypeOK, Addresses
      <4> QED
        BY <2>1, <4>1, <4>2 DEF Conserved, Inflight, IInv, InflightIsHolders
    <3> QED
      BY <3>1, <3>2
  <2> QED
    BY <2>2 DEF Conserved, Inflight, InflightIsHolders
<1>7. CASE Tick \/ SetLimits \/ UNCHANGED vars
  <2>1. UNCHANGED <<table, slot, pc, op, exit>>
    BY <1>7 DEF Tick, SetLimits, vars
  <2>2. \A d \in Exits : Holders(d)' = Holders(d)
    BY <2>1 DEF Holders, Holds
  <2> QED
    BY <2>1, <2>2, QuietStep
<1>8. ASSUME NEW c \in Callers, ReadLimit(c) \/ Compare(c) \/ Refuse(c)
      PROVE  InflightIsHolders'
  <2>1. UNCHANGED <<table, slot>>
    BY <1>8 DEF ReadLimit, Compare, Refuse, Refused
  <2>2. \A d \in Exits : Holders(d)' = Holders(d)
    BY <1>8 DEF ReadLimit, Compare, Refuse, Refused, Holders, Holds, IInv, TypeOK
  <2> QED
    BY <2>1, <2>2, QuietStep
<1> QED
  BY <1>1, <1>2, <1>4, <1>5, <1>6, <1>7, <1>8 DEF Next

-------------------------------------------------------------------------------
LEMMA Invariance == Spec => []IInv
<1> USE ConstantsAssumption
<1>1. Init => IInv
  BY InitIInv
<1>2. IInv /\ [Next]_vars => IInv'
  BY NextTypeOK, NextCallersKnow, NextDecidersAlone, NextConserves DEF IInv
<1> QED
  BY <1>1, <1>2, PTL DEF Spec

\* The limiter's state keeps its types, whatever the limits and the windows.
THEOREM TypeCorrect == Spec => []TypeOK
<1>1. IInv => TypeOK
  BY DEF IInv
<1> QED
  BY <1>1, Invariance, PTL

\* trySlotAcquire and slotRelease conserve: on every exit, at every moment,
\* the in-flight count is the number of callers that hold the exit, however
\* the creation of slots, acquisitions, releases and usage reads interleave.
THEOREM SlotConservation == Spec => []InflightIsHolders
<1>1. IInv => InflightIsHolders
  BY DEF IInv
<1> QED
  BY <1>1, Invariance, PTL

-------------------------------------------------------------------------------
(***************************************************************************)
(* What a window says about the complete record of starts.  A window is    *)
(* the end of the record; whatever is missing from it is too old to count. *)
(* So a pruned window has exactly the starts that count, however often and *)
(* whenever it was pruned before.                                          *)
(***************************************************************************)
Ordered(all) ==
    /\ \A i, j \in 1..Len(all) : i <= j => all[i] <= all[j]
    /\ \A i \in 1..Len(all) : all[i] <= now

EndOf(win, all, age) ==
    /\ Len(win) <= Len(all)
    /\ \A i \in 1..Len(win) : win[i] = all[Len(all) - Len(win) + i]
    /\ \A i \in 1..Len(all) - Len(win) : all[i] + age < now

\* A set of indices with every index below its members is an initial segment.
LEMMA InitialSegment ==
    ASSUME NEW n \in Nat, NEW D \in SUBSET (1..n),
           \A i \in D : 1..i \subseteq D
    PROVE  Cardinality(D) \in 0..n /\ D = 1..Cardinality(D)
<1> DEFINE k == Cardinality(D)
<1>1. IsFiniteSet(1..n) /\ Cardinality(1..n) = n
  BY FS_Interval
<1>2. IsFiniteSet(D) /\ k \in 0..n
  <2>1. IsFiniteSet(D) /\ k <= n
    BY <1>1, FS_Subset, ZenonT(60)
  <2> QED
    BY <2>1, FS_CardinalityType
<1>3. ASSUME NEW i \in D PROVE i \in 1..k
  <2>1. 1..i \in SUBSET D /\ i \in 1..n
    OBVIOUS
  <2>2. Cardinality(1..i) = i
    BY <2>1, FS_Interval
  <2>3. Cardinality(1..i) <= k
    BY <1>2, <2>1, FS_Subset
  <2> HIDE DEF k
  <2> QED
    BY <1>2, <2>1, <2>2, <2>3
<1>4. D \in SUBSET (1..k) /\ IsFiniteSet(1..k) /\ Cardinality(1..k) = k
  <2>1. IsFiniteSet(1..k) /\ Cardinality(1..k) = k
    <3> HIDE DEF k
    <3> QED
      BY <1>2, FS_Interval
  <2> QED
    BY <1>3, <2>1
<1>5. D = 1..k
  BY <1>4, FS_Subset
<1> QED
  BY <1>2, <1>5

\* What pruneTimestamps leaves of an ordered window: the entries from the
\* first one on that is young enough.
LEMMA PruneCuts ==
    ASSUME NEW ts \in Seq(Nat), NEW age \in Nat, now \in Nat,
           \A i, j \in 1..Len(ts) : i <= j => ts[i] <= ts[j]
    PROVE  \E k \in 0..Len(ts) :
              /\ Prune(ts, age) \in Seq(Nat)
              /\ Len(Prune(ts, age)) = Len(ts) - k
              /\ \A i \in 1..Len(ts) - k : Prune(ts, age)[i] = ts[k + i]
              /\ \A i \in 1..k : ts[i] + age < now
              /\ \A i \in k + 1..Len(ts) : ts[i] + age >= now
<1> DEFINE cut == {i \in DOMAIN ts : \A j \in 1..i : ts[j] + age < now}
           k == Cardinality(cut)
           n == Len(ts)
<1>1. n \in Nat /\ DOMAIN ts = 1..n /\ \A i \in 1..n : ts[i] \in Nat
  BY LenProperties
<1>2. cut \in SUBSET (1..n) /\ \A i \in cut : 1..i \subseteq cut
  BY <1>1
<1>3. k \in 0..n /\ cut = 1..k
  <2> HIDE DEF cut, n
  <2> QED
    BY <1>1, <1>2, InitialSegment
<1>4. Prune(ts, age) = SubSeq(ts, k + 1, n)
  BY DEF Prune
<1>5. \A i \in 1..k : ts[i] + age < now
  BY <1>3, SMTT(20)
<1>6. ASSUME k < n PROVE ts[k + 1] + age >= now
  <2>1. k + 1 \in 1..n /\ k + 1 \notin cut
    <3> HIDE DEF cut, k, n
    <3> QED
      BY <1>1, <1>3, <1>6
  <2>2. PICK j \in 1..k + 1 : ~(ts[j] + age < now)
    BY <1>1, <2>1
  <2>3. j = k + 1
    <3> HIDE DEF cut, k, n
    <3> QED
      BY <1>3, <1>5, <2>2
  <2> HIDE DEF cut, k, n
  <2> QED
    BY <1>1, <2>1, <2>2, <2>3
<1> HIDE DEF cut, k
<1>7. \A i \in k + 1..n : ts[i] + age >= now
  <2> SUFFICES ASSUME NEW i \in k + 1..n PROVE ts[i] + age >= now
    OBVIOUS
  <2>1. k < n /\ k + 1 \in 1..n /\ i \in 1..n /\ k + 1 <= i
    BY <1>1, <1>3
  <2>2. ts[k + 1] <= ts[i] /\ ts[k + 1] \in Nat /\ ts[i] \in Nat
    BY <1>1, <2>1
  <2> QED
    BY <1>6, <2>1, <2>2, SMTT(20)
<1>8. /\ SubSeq(ts, k + 1, n) \in Seq(Nat)
      /\ Len(SubSeq(ts, k + 1, n)) = n - k
      /\ \A i \in 1..n - k : SubSeq(ts, k + 1, n)[i] = ts[k + i]
  <2> DEFINE a == k + 1
  <2>1. a \in Nat /\ a >= 1 /\ n <= Len(ts) /\ n \in Nat
    BY <1>1, <1>3
  <2>2. /\ SubSeq(ts, a, n) \in Seq(Nat)
        /\ Len(SubSeq(ts, a, n)) = IF a <= n THEN n - a + 1 ELSE 0
        /\ \A i \in 1..n - a + 1 : SubSeq(ts, a, n)[i] = ts[a + i - 1]
    <3> HIDE DEF a, n
    <3> QED
      BY <2>1, SubSeqProperties, LenProperties
  <2>3. n - a + 1 = n - k /\ (a > n => n - k = 0)
    <3> HIDE DEF n
    <3> QED
      BY <1>1, <1>3
  <2>4. \A i \in 1..n - k : a + i - 1 = k + i
    BY <1>1, <1>3
  <2> QED
    <3> HIDE DEF a, n
    <3>1. SubSeq(ts, a, n) = SubSeq(ts, k + 1, n)
      BY DEF a
    <3>2. Len(SubSeq(ts, a, n)) = n - k
      BY <2>1, <2>2, <2>3
    <3> QED
      BY <2>2, <2>3, <2>4, <3>1, <3>2
<1> QED
  BY <1>3, <1>4, <1>5, <1>7, <1>8

\* A pruned window is still the end of the record, and it is as long as the
\* number of starts that count.
LEMMA PruneExact ==
    ASSUME NEW win \in Seq(Nat), NEW all \in Seq(Nat), NEW age \in Nat, now \in Nat,
           Ordered(all), EndOf(win, all, age)
    PROVE  /\ EndOf(Prune(win, age), all, age)
           /\ Len(Prune(win, age))
                = Cardinality({i \in DOMAIN all : all[i] + age >= now})
<1> DEFINE m == Len(win)
           n == Len(all)
<1>1. /\ m \in Nat /\ n \in Nat /\ m <= n
      /\ DOMAIN all = 1..n /\ \A i \in 1..n : all[i] \in Nat
  BY DEF EndOf
<1>2. \A i \in 1..m : win[i] = all[n - m + i]
  BY DEF EndOf
<1>3. \A i \in 1..n - m : all[i] + age < now
  BY DEF EndOf
<1>4. \A i, j \in 1..n : i <= j => all[i] <= all[j]
  BY DEF Ordered
<1> HIDE DEF m, n
<1>5. \A i, j \in 1..m : i <= j => win[i] <= win[j]
  <2> SUFFICES ASSUME NEW i \in 1..m, NEW j \in 1..m, i <= j
               PROVE  win[i] <= win[j]
    OBVIOUS
  <2>1. n - m + i \in 1..n /\ n - m + j \in 1..n /\ n - m + i <= n - m + j
    BY <1>1
  <2> QED
    BY <1>2, <1>4, <2>1
<1>6. PICK k \in 0..m :
         /\ Prune(win, age) \in Seq(Nat)
         /\ Len(Prune(win, age)) = m - k
         /\ \A i \in 1..m - k : Prune(win, age)[i] = win[k + i]
         /\ \A i \in 1..k : win[i] + age < now
         /\ \A i \in k + 1..m : win[i] + age >= now
  BY <1>5, PruneCuts DEF m
<1>7. ASSUME NEW i \in 1..n
      PROVE  all[i] + age >= now <=> i \in n - m + k + 1..n
  <2>1. CASE i \in 1..n - m
    BY <1>1, <1>3, <1>6, <2>1
  <2>2. CASE i \in n - m + 1..n
    <3>1. i - (n - m) \in 1..m /\ i = n - m + (i - (n - m))
      BY <1>1, <2>2
    <3>2. win[i - (n - m)] = all[i]
      BY <1>2, <3>1
    <3>3. i - (n - m) \in 1..k \/ i - (n - m) \in k + 1..m
      BY <1>1, <1>6, <3>1
    <3> QED
      BY <1>1, <1>6, <3>1, <3>2, <3>3, SMTT(20)
  <2> QED
    BY <1>1, <2>1, <2>2
<1>8. {i \in DOMAIN all : all[i] + age >= now} = n - m + k + 1..n
  <2>1. n - m + k + 1..n \subseteq 1..n
    BY <1>1, <1>6
  <2> QED
    BY <1>1, <1>7, <2>1
<1>9. Cardinality(n - m + k + 1..n) = m - k
  <2> DEFINE a == n - m + k + 1
  <2>1. a \in Int /\ n \in Int
    BY <1>1, <1>6
  <2>2. Cardinality(a..n) = IF a > n THEN 0 ELSE n - a + 1
    <3> HIDE DEF a
    <3> QED
      BY <2>1, FS_Interval
  <2>3. /\ a > n => m - k = 0
        /\ n - a + 1 = m - k
    BY <1>1, <1>6
  <2> HIDE DEF a
  <2>4. Cardinality(a..n) = m - k
    BY <2>1, <2>2, <2>3
  <2> QED
    BY <2>4 DEF a
<1>10. EndOf(Prune(win, age), all, age)
  <2>1. Len(Prune(win, age)) <= Len(all)
    BY <1>1, <1>6 DEF n
  <2>2. ASSUME NEW i \in 1..m - k
        PROVE  Prune(win, age)[i] = all[n - (m - k) + i]
    <3>1. k + i \in 1..m /\ n - m + (k + i) = n - (m - k) + i
      BY <1>1, <1>6
    <3> QED
      BY <1>2, <1>6, <3>1
  <2>3. ASSUME NEW i \in 1..n - (m - k)
        PROVE  all[i] + age < now
    <3>1. i \in 1..n /\ i \notin n - m + k + 1..n
      BY <1>1, <1>6
    <3>2. all[i] \in Nat
      BY <1>1, <3>1
    <3> QED
      BY <1>7, <3>1, <3>2
  <2> QED
    BY <1>6, <2>1, <2>2, <2>3 DEF EndOf, n
<1> QED
  BY <1>6, <1>8, <1>9, <1>10

\* A start that is recorded as of a time that no recorded start is later than
\* goes to the end of the record and of each window.
LEMMA AppendKeepsEnd ==
    ASSUME NEW win \in Seq(Nat), NEW all \in Seq(Nat), NEW age \in Nat, now \in Nat,
           Ordered(all), EndOf(win, all, age),
           NEW at \in Nat, at <= now, \A i \in 1..Len(all) : all[i] <= at
    PROVE  /\ Ordered(Append(all, at))
           /\ EndOf(Append(win, at), Append(all, at), age)
<1> DEFINE m == Len(win)
           n == Len(all)
           w == Append(win, at)
           a == Append(all, at)
<1>1. /\ m \in Nat /\ n \in Nat /\ m <= n
      /\ \A i \in 1..n : all[i] \in Nat /\ all[i] <= at
  BY DEF EndOf, Ordered
<1>2. /\ Len(a) = n + 1 /\ a[n + 1] = at /\ \A i \in 1..n : a[i] = all[i]
      /\ Len(w) = m + 1 /\ w[m + 1] = at /\ \A i \in 1..m : w[i] = win[i]
  BY AppendProperties
<1>3. \A i \in 1..m : win[i] = all[n - m + i]
  BY DEF EndOf
<1>4. \A i \in 1..n - m : all[i] + age < now
  BY DEF EndOf
<1>5. \A i, j \in 1..n : i <= j => all[i] <= all[j]
  BY DEF Ordered
<1> HIDE DEF m, n, w, a
<1>6. Ordered(a)
  <2>1. ASSUME NEW i \in 1..n + 1 PROVE a[i] <= at /\ a[i] \in Nat
    <3>1. CASE i \in 1..n
      BY <1>1, <1>2, <3>1
    <3>2. CASE i = n + 1
      BY <1>2, <3>2
    <3> QED
      BY <1>1, <3>1, <3>2
  <2>2. ASSUME NEW i \in 1..n + 1, NEW j \in 1..n + 1, i <= j
        PROVE  a[i] <= a[j]
    <3>1. CASE j \in 1..n
      <4>1. i \in 1..n
        BY <1>1, <2>2, <3>1
      <4> QED
        BY <1>2, <1>5, <2>2, <3>1, <4>1
    <3>2. CASE j = n + 1
      BY <1>2, <2>1, <3>2
    <3> QED
      BY <1>1, <3>1, <3>2
  <2> QED
    BY <1>2, <2>1, <2>2 DEF Ordered
<1>7. EndOf(w, a, age)
  <2>1. Len(w) <= Len(a) /\ Len(a) - Len(w) = n - m
    BY <1>1, <1>2
  <2>2. ASSUME NEW i \in 1..m + 1 PROVE w[i] = a[n - m + i]
    <3>1. CASE i \in 1..m
      <4>1. n - m + i \in 1..n
        BY <1>1, <3>1
      <4> QED
        BY <1>2, <1>3, <3>1, <4>1
    <3>2. CASE i = m + 1
      <4>1. n - m + i = n + 1
        BY <1>1, <3>2
      <4> QED
        BY <1>2, <3>2, <4>1
    <3> QED
      BY <1>1, <3>1, <3>2
  <2>3. ASSUME NEW i \in 1..n - m PROVE a[i] + age < now
    <3>1. i \in 1..n
      BY <1>1
    <3> QED
      BY <1>2, <1>4, <3>1
  <2> QED
    BY <1>2, <2>1, <2>2, <2>3 DEF EndOf
<1> QED
  BY <1>6, <1>7 DEF w, a

\* Every start is on record in order, and each window of a slot in the table
\* is the end of the record of its exit.
WindowsOf(e) ==
    /\ Ordered(starts[e])
    /\ table[e] = NoSlot => starts[e] = <<>>
    /\ table[e] # NoSlot =>
          /\ EndOf(slot[table[e]].minuteWin, starts[e], MinuteLen)
          /\ EndOf(slot[table[e]].hourWin, starts[e], HourLen)

WindowsInv == \A e \in Exits : WindowsOf(e)

\* How many starts of exit e count against a limit at the time at.
CountedAt(e, age, at) ==
    Cardinality({i \in DOMAIN starts[e] : starts[e][i] + age >= at})

\* A caller that decides sees, until it is done, the windows of its stamp:
\* nobody adds a start or prunes while it holds the mutex.
DecidesExactly(c) ==
    /\ \A i \in 1..Len(starts[exit[c]]) : starts[exit[c]][i] <= stamp[c]
    /\ Len(slot[ptr[c]].minuteWin) = CountedAt(exit[c], MinuteLen, stamp[c])
    /\ Len(slot[ptr[c]].hourWin) = CountedAt(exit[c], HourLen, stamp[c])

DecidersInv == \A c \in Callers : Deciding(c) => DecidesExactly(c)

\* At the beginning nothing is on record.
LEMMA InitWindows == ASSUME ConstantsAssumption, Init PROVE WindowsInv
<1> SUFFICES ASSUME NEW e \in Exits PROVE WindowsOf(e)
  BY DEF WindowsInv
<1>1. starts[e] = <<>> /\ table[e] = NoSlot
  BY DEF Init
<1> QED
  BY <1>1 DEF WindowsOf, Ordered

\* A caller at its slot is at the slot the table holds for its exit; what the
\* invariant says of that slot.
LEMMA AtItsSlot ==
    ASSUME ConstantsAssumption, IInv, NEW c \in Callers, pc[c] = "at" \/ Deciding(c)
    PROVE  /\ exit[c] \in Exits
           /\ table[exit[c]] = ptr[c] /\ ptr[c] # NoSlot
           /\ ptr[c] \in Slots /\ slot[ptr[c]] \in SlotContents
           /\ \A d \in Exits : d # exit[c] /\ table[d] # NoSlot =>
                 table[d] \in Slots /\ table[d] # ptr[c]
<1>1. exit[c] \in Exits /\ ptr[c] = table[exit[c]] /\ ptr[c] # NoSlot
  BY DEF IInv, CallersKnow, Deciding
<1>2. ptr[c] \in Slots /\ slot[ptr[c]] \in SlotContents
  BY <1>1 DEF IInv, TypeOK, Addresses
<1>3. \A d \in Exits : table[d] # NoSlot => table[d] \in Slots
  BY DEF IInv, TypeOK, Addresses
<1> QED
  BY <1>1, <1>2, <1>3, SlotsDistinct

\* The windows of the slot of exit e.
LEMMA SlotTypes ==
    ASSUME ConstantsAssumption, IInv, NEW e \in Exits, table[e] # NoSlot
    PROVE  /\ table[e] \in Slots /\ slot[table[e]] \in SlotContents
           /\ slot[table[e]].minuteWin \in Seq(Nat)
           /\ slot[table[e]].hourWin \in Seq(Nat)
           /\ starts[e] \in Seq(Nat) /\ now \in Nat
           /\ MinuteLen \in Nat /\ HourLen \in Nat
<1>1. table[e] \in Slots
  BY DEF IInv, TypeOK, Addresses
<1>2. slot[table[e]] \in SlotContents
  BY <1>1 DEF IInv, TypeOK
<1> QED
  BY <1>1, <1>2 DEF SlotContents, IInv, TypeOK, ConstantsAssumption

\* Pruning a slot of the table leaves windows that are ends of the record and
\* as long as the number of starts that count.
LEMMA PrunedWindows ==
    ASSUME ConstantsAssumption, IInv, WindowsInv, NEW e \in Exits, table[e] # NoSlot
    PROVE  LET s == Pruned(slot[table[e]])
           IN  /\ EndOf(s.minuteWin, starts[e], MinuteLen)
               /\ EndOf(s.hourWin, starts[e], HourLen)
               /\ Len(s.minuteWin) = StartedSince(e, MinuteLen)
               /\ Len(s.hourWin) = StartedSince(e, HourLen)
               /\ s.inflight = Cardinality(Holders(e))
<1> DEFINE r == slot[table[e]]
           s == Pruned(r)
<1>1. /\ r \in SlotContents /\ r.minuteWin \in Seq(Nat) /\ r.hourWin \in Seq(Nat)
      /\ starts[e] \in Seq(Nat) /\ now \in Nat /\ MinuteLen \in Nat /\ HourLen \in Nat
  BY SlotTypes
<1>2. /\ Ordered(starts[e])
      /\ EndOf(r.minuteWin, starts[e], MinuteLen)
      /\ EndOf(r.hourWin, starts[e], HourLen)
  BY DEF WindowsInv, WindowsOf
<1>3. r.inflight = Cardinality(Holders(e))
  BY DEF IInv, InflightIsHolders
<1> HIDE DEF r
<1>4. /\ s.minuteWin = Prune(r.minuteWin, MinuteLen)
      /\ s.hourWin = Prune(r.hourWin, HourLen)
      /\ s.inflight = r.inflight
  BY <1>1 DEF Pruned, SlotContents
<1> HIDE DEF s
<1>5. /\ EndOf(s.minuteWin, starts[e], MinuteLen)
      /\ Len(s.minuteWin) = StartedSince(e, MinuteLen)
  <2>1. /\ EndOf(Prune(r.minuteWin, MinuteLen), starts[e], MinuteLen)
        /\ Len(Prune(r.minuteWin, MinuteLen))
             = Cardinality({i \in DOMAIN starts[e] : starts[e][i] + MinuteLen >= now})
    <3> DEFINE win == r.minuteWin
               all == starts[e]
    <3>1. /\ win \in Seq(Nat) /\ all \in Seq(Nat) /\ MinuteLen \in Nat /\ now \in Nat
          /\ Ordered(all) /\ EndOf(win, all, MinuteLen)
      BY <1>1, <1>2
    <3> HIDE DEF win, all
    <3>2. /\ EndOf(Prune(win, MinuteLen), all, MinuteLen)
          /\ Len(Prune(win, MinuteLen))
               = Cardinality({i \in DOMAIN all : all[i] + MinuteLen >= now})
      BY <3>1, PruneExact
    <3> QED
      BY <3>2 DEF win, all
  <2> QED
    BY <1>4, <2>1 DEF StartedSince
<1>6. /\ EndOf(s.hourWin, starts[e], HourLen)
      /\ Len(s.hourWin) = StartedSince(e, HourLen)
  <2>1. /\ EndOf(Prune(r.hourWin, HourLen), starts[e], HourLen)
        /\ Len(Prune(r.hourWin, HourLen))
             = Cardinality({i \in DOMAIN starts[e] : starts[e][i] + HourLen >= now})
    <3> DEFINE win == r.hourWin
               all == starts[e]
    <3>1. /\ win \in Seq(Nat) /\ all \in Seq(Nat) /\ HourLen \in Nat /\ now \in Nat
          /\ Ordered(all) /\ EndOf(win, all, HourLen)
      BY <1>1, <1>2
    <3> HIDE DEF win, all
    <3>2. /\ EndOf(Prune(win, HourLen), all, HourLen)
          /\ Len(Prune(win, HourLen))
               = Cardinality({i \in DOMAIN all : all[i] + HourLen >= now})
      BY <3>1, PruneExact
    <3> QED
      BY <3>2 DEF win, all
  <2> QED
    BY <1>4, <2>1 DEF StartedSince
<1> QED
  BY <1>3, <1>4, <1>5, <1>6 DEF r, s

\* What a window says of the record is a matter of the exit's own slot.
LEMMA SameWindows ==
    ASSUME NEW e \in Exits, WindowsOf(e), now' = now,
           starts'[e] = starts[e], table'[e] = table[e],
           table[e] # NoSlot => slot'[table[e]] = slot[table[e]]
    PROVE  WindowsOf(e)'
<1>1. Ordered(starts[e])'
  BY DEF WindowsOf, Ordered
<1>2. table'[e] = NoSlot => starts'[e] = <<>>
  BY DEF WindowsOf
<1>3. ASSUME table[e] # NoSlot
      PROVE  /\ EndOf(slot[table[e]].minuteWin, starts[e], MinuteLen)'
             /\ EndOf(slot[table[e]].hourWin, starts[e], HourLen)'
  <2>1. /\ EndOf(slot[table[e]].minuteWin, starts[e], MinuteLen)
        /\ EndOf(slot[table[e]].hourWin, starts[e], HourLen)
    BY <1>3 DEF WindowsOf
  <2>2. (slot[table[e]])' = slot[table[e]] /\ (starts[e])' = starts[e]
    BY <1>3
  <2> QED
    BY <2>1, <2>2 DEF EndOf
<1> QED
  BY <1>1, <1>2, <1>3 DEF WindowsOf

\* A step that changes the contents of one slot of the table, and the record
\* of its exit, keeps the windows when it keeps that exit's.
LEMMA OneSlotStep ==
    ASSUME ConstantsAssumption, IInv, WindowsInv, NEW c \in Callers,
           pc[c] = "at" \/ Deciding(c), NEW t, NEW r,
           slot' = [slot EXCEPT ![ptr[c]] = t],
           starts' = [starts EXCEPT ![exit[c]] = r],
           UNCHANGED <<now, table>>,
           Ordered(r), EndOf(t.minuteWin, r, MinuteLen), EndOf(t.hourWin, r, HourLen)
    PROVE  WindowsInv'
<1>1. /\ exit[c] \in Exits /\ table[exit[c]] = ptr[c] /\ ptr[c] # NoSlot
      /\ ptr[c] \in Slots
      /\ \A d \in Exits : d # exit[c] /\ table[d] # NoSlot =>
            table[d] \in Slots /\ table[d] # ptr[c]
  BY AtItsSlot
<1>2. starts \in [Exits -> Seq(Nat)] /\ slot \in [Slots -> SlotContents]
  BY DEF IInv, TypeOK
<1> SUFFICES ASSUME NEW e \in Exits PROVE WindowsOf(e)'
  BY DEF WindowsInv
<1>3. CASE e = exit[c]
  <2>1. starts'[e] = r /\ slot'[table'[e]] = t /\ table'[e] # NoSlot
    BY <1>1, <1>2, <1>3
  <2> QED
    BY <2>1 DEF WindowsOf, Ordered, EndOf
<1>4. CASE e # exit[c]
  <2>1. /\ starts'[e] = starts[e] /\ table'[e] = table[e]
        /\ table[e] # NoSlot => slot'[table'[e]] = slot[table[e]]
    BY <1>1, <1>2, <1>4
  <2>2. WindowsOf(e)
    BY DEF WindowsInv
  <2> QED
    BY <2>1, <2>2, SameWindows
<1> QED
  BY <1>3, <1>4

\* Every step keeps each window an end of the record.
LEMMA NextWindows ==
    ASSUME ConstantsAssumption, IInv, WindowsInv, DecidersInv, [Next]_vars
    PROVE  WindowsInv'
<1>1. CASE UNCHANGED <<now, table, slot, starts>>
  BY <1>1 DEF WindowsInv, WindowsOf, Ordered, EndOf
<1>2. ASSUME NEW c \in Callers, NEW o \in Ops, NEW e \in Exits, Lookup(c, o, e)
      PROVE  WindowsInv'
  BY <1>1, <1>2 DEF Lookup
<1>3. ASSUME NEW c \in Callers, Create(c) PROVE WindowsInv'
  <2>1. CASE table[exit[c]] # NoSlot
    BY <1>1, <1>3, <2>1 DEF Create
  <2>2. CASE table[exit[c]] = NoSlot
    <3> DEFINE a == <<exit[c], c>>
    <3>1. exit[c] \in Exits
      BY <1>3 DEF Create, IInv, CallersKnow
    <3>2. /\ table' = [table EXCEPT ![exit[c]] = a]
          /\ slot' = [slot EXCEPT ![a] = FreshSlot]
          /\ UNCHANGED <<now, starts>>
      BY <1>3, <2>2 DEF Create
    <3>3. a \in Slots
      BY <3>1 DEF Slots
    <3>4. ASSUME NEW e \in Exits PROVE WindowsOf(e)'
      <4>1. CASE e = exit[c]
        <5>1. starts'[e] = <<>>
          BY <2>2, <3>2, <4>1 DEF WindowsInv, WindowsOf
        <5>2. table'[e] = a /\ slot'[a] = FreshSlot
          BY <3>2, <3>3, <4>1 DEF IInv, TypeOK
        <5> QED
          BY <5>1, <5>2 DEF WindowsOf, Ordered, EndOf, FreshSlot
      <4>2. CASE e # exit[c]
        <5>1. table'[e] = table[e] /\ starts'[e] = starts[e]
          BY <3>2, <4>2 DEF IInv, TypeOK
        <5>2. table[e] # NoSlot => slot'[table[e]] = slot[table[e]]
          BY <3>1, <3>2, <4>2 DEF IInv, CallersKnow, TypeOK, Addresses
        <5>3. WindowsOf(e)
          BY DEF WindowsInv
        <5> QED
          BY <3>2, <5>1, <5>2, <5>3, SameWindows
      <4> QED
        BY <4>1, <4>2
    <3> QED
      BY <3>4 DEF WindowsInv
  <2> QED
    BY <2>1, <2>2
<1>4. ASSUME NEW c \in Callers, Acquire(c) PROVE WindowsInv'
  <2> DEFINE e == exit[c]
             at == stamp[c]
             s == slot[ptr[c]]
             t == [inflight  |-> s.inflight + 1,
                   minuteWin |-> Append(s.minuteWin, at),
                   hourWin   |-> Append(s.hourWin, at)]
             r == Append(starts[e], at)
  <2>1. /\ Deciding(c) /\ slot' = [slot EXCEPT ![ptr[c]] = t]
        /\ starts' = [starts EXCEPT ![e] = r]
        /\ UNCHANGED <<now, table>>
    BY <1>4 DEF Acquire, Deciding
  <2>2. e \in Exits /\ table[e] = ptr[c] /\ ptr[c] # NoSlot
    BY <2>1, AtItsSlot
  <2>3. s \in SlotContents /\ starts[e] \in Seq(Nat) /\ now \in Nat
        /\ MinuteLen \in Nat /\ HourLen \in Nat
    BY <2>2, SlotTypes
  <2>4. EndOf(s.minuteWin, starts[e], MinuteLen) /\ EndOf(s.hourWin, starts[e], HourLen)
    BY <2>2 DEF WindowsInv, WindowsOf
  <2>5. Ordered(starts[e])
    BY <2>2 DEF WindowsInv, WindowsOf
  <2>6. s.minuteWin \in Seq(Nat) /\ s.hourWin \in Seq(Nat)
    BY <2>3 DEF SlotContents
  <2>7. /\ at \in Nat /\ at <= now
        /\ \A i \in 1..Len(starts[e]) : starts[e][i] <= at
    BY <2>1 DEF IInv, TypeOK, CallersKnow, DecidersInv, DecidesExactly
  <2>8. /\ t.minuteWin = Append(s.minuteWin, at)
        /\ t.hourWin = Append(s.hourWin, at)
    OBVIOUS
  <2> HIDE DEF s, t, at
  <2>9. Ordered(r) /\ EndOf(t.minuteWin, r, MinuteLen) /\ EndOf(t.hourWin, r, HourLen)
    BY <2>3, <2>4, <2>5, <2>6, <2>8, <2>7, AppendKeepsEnd
  <2> HIDE DEF r
  <2> QED
    BY <2>1, <2>9, OneSlotStep
<1>5. ASSUME NEW c \in Callers, Begin(c) \/ ReadUsage(c) PROVE WindowsInv'
  <2> DEFINE e == exit[c]
             t == Pruned(slot[ptr[c]])
             r == starts[e]
  <2>1. /\ pc[c] = "at" /\ slot' = [slot EXCEPT ![ptr[c]] = t]
        /\ UNCHANGED <<now, table, starts>>
    BY <1>5 DEF Begin, ReadUsage
  <2>2. e \in Exits /\ table[e] = ptr[c] /\ ptr[c] # NoSlot
    BY <2>1, AtItsSlot
  <2>3. EndOf(t.minuteWin, r, MinuteLen) /\ EndOf(t.hourWin, r, HourLen)
    BY <2>2, PrunedWindows
  <2>4. Ordered(r) /\ starts' = [starts EXCEPT ![e] = r]
    BY <2>1, <2>2 DEF WindowsInv, WindowsOf, IInv, TypeOK
  <2> HIDE DEF t, r
  <2> QED
    BY <2>1, <2>3, <2>4, OneSlotStep
<1>6. ASSUME NEW c \in Callers, Release(c) PROVE WindowsInv'
  <2> DEFINE e == exit[c]
             n == IF slot[ptr[c]].inflight > 0 THEN slot[ptr[c]].inflight - 1
                                               ELSE slot[ptr[c]].inflight
             t == [slot[ptr[c]] EXCEPT !.inflight = n]
             r == starts[e]
  <2>1. /\ pc[c] = "at" /\ slot' = [slot EXCEPT ![ptr[c]] = t]
        /\ UNCHANGED <<now, table, starts>>
    BY <1>6 DEF Release
  <2>2. /\ e \in Exits /\ table[e] = ptr[c] /\ ptr[c] # NoSlot
        /\ slot[ptr[c]] \in SlotContents
    BY <2>1, AtItsSlot
  <2>3. /\ t.minuteWin = slot[ptr[c]].minuteWin
        /\ t.hourWin = slot[ptr[c]].hourWin
    <3> HIDE DEF n
    <3> QED
      BY <2>2 DEF SlotContents
  <2>4. /\ Ordered(r) /\ starts' = [starts EXCEPT ![e] = r]
        /\ EndOf(slot[ptr[c]].minuteWin, r, MinuteLen)
        /\ EndOf(slot[ptr[c]].hourWin, r, HourLen)
    BY <2>1, <2>2 DEF WindowsInv, WindowsOf, IInv, TypeOK
  <2> HIDE DEF t, r
  <2> QED
    BY <2>1, <2>3, <2>4, OneSlotStep
<1>7. CASE Tick
  <2> SUFFICES ASSUME NEW e \in Exits PROVE WindowsOf(e)'
    BY DEF WindowsInv
  <2>1. now' = now + 1 /\ now \in Nat /\ UNCHANGED <<table, slot, starts>>
    BY <1>7 DEF Tick, IInv, TypeOK
  <2>2. WindowsOf(e)
    BY DEF WindowsInv
  <2>3. starts[e] \in Seq(Nat) /\ \A i \in 1..Len(starts[e]) : starts[e][i] \in Nat
    BY DEF IInv, TypeOK
  <2>4. Ordered(starts[e])'
    BY <2>1, <2>2, <2>3 DEF WindowsOf, Ordered
  <2>5. ASSUME NEW win, NEW age \in Nat, EndOf(win, starts[e], age), Len(win) \in Nat
        PROVE  /\ Len(win) <= Len(starts[e])
               /\ \A i \in 1..Len(win) :
                     win[i] = starts[e][Len(starts[e]) - Len(win) + i]
               /\ \A i \in 1..Len(starts[e]) - Len(win) : starts[e][i] + age < now + 1
    <3> DEFINE n == Len(starts[e])
               m == Len(win)
    <3>1. n \in Nat /\ m <= n
      BY <2>3, <2>5 DEF EndOf
    <3>2. ASSUME NEW i \in 1..n - m PROVE starts[e][i] + age < now + 1
      <4>1. starts[e][i] + age < now
        BY <2>5 DEF EndOf
      <4>2. i \in 1..n
        BY <2>5, <3>1
      <4> QED
        BY <2>1, <2>3, <4>1, <4>2
    <3> QED
      BY <2>5, <3>2 DEF EndOf
  <2>6. table[e] # NoSlot =>
           /\ EndOf(slot[table[e]].minuteWin, starts[e], MinuteLen)'
           /\ EndOf(slot[table[e]].hourWin, starts[e], HourLen)'
    <3> SUFFICES ASSUME table[e] # NoSlot
                 PROVE  /\ EndOf(slot[table[e]].minuteWin, starts[e], MinuteLen)'
                        /\ EndOf(slot[table[e]].hourWin, starts[e], HourLen)'
      OBVIOUS
    <3>1. /\ MinuteLen \in Nat /\ HourLen \in Nat
          /\ slot[table[e]].minuteWin \in Seq(Nat) /\ slot[table[e]].hourWin \in Seq(Nat)
      BY SlotTypes
    <3>2. /\ Len(slot[table[e]].minuteWin) <= Len(starts[e])
          /\ \A i \in 1..Len(slot[table[e]].minuteWin) :
                slot[table[e]].minuteWin[i]
                  = starts[e][Len(starts[e]) - Len(slot[table[e]].minuteWin) + i]
          /\ \A i \in 1..Len(starts[e]) - Len(slot[table[e]].minuteWin) :
                starts[e][i] + MinuteLen < now + 1
      <4> DEFINE win == slot[table[e]].minuteWin
      <4>1. win \in Seq(Nat) /\ Len(win) \in Nat /\ EndOf(win, starts[e], MinuteLen)
        BY <2>2, <3>1, LenProperties DEF WindowsOf
      <4> HIDE DEF win
      <4>2. /\ Len(win) <= Len(starts[e])
            /\ \A i \in 1..Len(win) :
                  win[i] = starts[e][Len(starts[e]) - Len(win) + i]
            /\ \A i \in 1..Len(starts[e]) - Len(win) :
                  starts[e][i] + MinuteLen < now + 1
        BY <2>5, <3>1, <4>1
      <4> QED
        BY <4>2 DEF win
    <3>3. EndOf(slot[table[e]].minuteWin, starts[e], MinuteLen)'
      BY <2>1, <3>2 DEF EndOf
    <3>4. /\ Len(slot[table[e]].hourWin) <= Len(starts[e])
          /\ \A i \in 1..Len(slot[table[e]].hourWin) :
                slot[table[e]].hourWin[i]
                  = starts[e][Len(starts[e]) - Len(slot[table[e]].hourWin) + i]
          /\ \A i \in 1..Len(starts[e]) - Len(slot[table[e]].hourWin) :
                starts[e][i] + HourLen < now + 1
      <4> DEFINE win == slot[table[e]].hourWin
      <4>1. win \in Seq(Nat) /\ Len(win) \in Nat /\ EndOf(win, starts[e], HourLen)
        BY <2>2, <3>1, LenProperties DEF WindowsOf
      <4> HIDE DEF win
      <4>2. /\ Len(win) <= Len(starts[e])
            /\ \A i \in 1..Len(win) :
                  win[i] = starts[e][Len(starts[e]) - Len(win) + i]
            /\ \A i \in 1..Len(starts[e]) - Len(win) :
                  starts[e][i] + HourLen < now + 1
        BY <2>5, <3>1, <4>1
      <4> QED
        BY <4>2 DEF win
    <3>5. EndOf(slot[table[e]].hourWin, starts[e], HourLen)'
      BY <2>1, <3>4 DEF EndOf
    <3> QED
      BY <3>3, <3>5
  <2> QED
    BY <2>1, <2>2, <2>4, <2>6 DEF WindowsOf
<1>8. CASE SetLimits \/ UNCHANGED vars
  BY <1>1, <1>8 DEF SetLimits, vars
<1>9. ASSUME NEW c \in Callers, ReadLimit(c) \/ Compare(c) \/ Refuse(c)
      PROVE  WindowsInv'
  BY <1>1, <1>9 DEF ReadLimit, Compare, Refuse, Refused
<1> QED
  BY <1>2, <1>3, <1>4, <1>5, <1>6, <1>7, <1>8, <1>9 DEF Next

\* A caller goes on deciding exactly when a step leaves alone what it decides
\* by: its slot's windows, its exit's record and its own locals.
LEMMA DeciderLeftAlone ==
    ASSUME NEW d \in Callers, DecidesExactly(d),
           exit'[d] = exit[d], ptr'[d] = ptr[d], stamp'[d] = stamp[d],
           starts'[exit[d]] = starts[exit[d]],
           slot'[ptr[d]].minuteWin = slot[ptr[d]].minuteWin,
           slot'[ptr[d]].hourWin = slot[ptr[d]].hourWin
    PROVE  DecidesExactly(d)'
BY DEF DecidesExactly, CountedAt

\* Every step leaves the deciders what they decide by.
LEMMA NextDeciders ==
    ASSUME ConstantsAssumption, IInv, WindowsInv, DecidersInv, [Next]_vars
    PROVE  DecidersInv'
<1> SUFFICES ASSUME NEW d \in Callers, Deciding(d)' PROVE DecidesExactly(d)'
  BY DEF DecidersInv
<1>1. CASE /\ Deciding(d) /\ exit'[d] = exit[d]
           /\ UNCHANGED <<slot, ptr, stamp, starts>>
  BY <1>1, DeciderLeftAlone DEF DecidersInv
<1>2. ASSUME NEW c \in Callers, NEW o \in Ops, NEW e \in Exits, Lookup(c, o, e)
      PROVE  DecidesExactly(d)'
  <2>1. d # c /\ Deciding(d)
    BY <1>2 DEF Lookup, Deciding, IInv, TypeOK
  <2>2. /\ exit'[d] = exit[d] /\ ptr'[d] = ptr[d]
        /\ UNCHANGED <<slot, stamp, starts>>
    BY <1>2, <2>1 DEF Lookup, IInv, TypeOK
  <2> QED
    BY <2>1, <2>2, DeciderLeftAlone DEF DecidersInv
<1>3. ASSUME NEW c \in Callers, Create(c) PROVE DecidesExactly(d)'
  <2>1. d # c /\ Deciding(d) /\ exit[c] \in Exits
    BY <1>3 DEF Create, Deciding, IInv, TypeOK, CallersKnow
  <2>2. ptr'[d] = ptr[d] /\ UNCHANGED <<exit, stamp, starts>>
    BY <1>3, <2>1 DEF Create, IInv, TypeOK
  <2>3. exit[d] \in Exits /\ ptr[d] = table[exit[d]] /\ ptr[d] # NoSlot
    BY <2>1, AtItsSlot
  <2>4. slot'[ptr[d]] = slot[ptr[d]]
    <3>1. CASE table[exit[c]] # NoSlot
      BY <1>3, <3>1 DEF Create
    <3>2. CASE table[exit[c]] = NoSlot
      <4>1. slot' = [slot EXCEPT ![<<exit[c], c>>] = FreshSlot]
        BY <1>3, <3>2 DEF Create
      <4>2. ptr[d] # <<exit[c], c>>
        BY <2>1, <2>3, <3>2 DEF IInv, CallersKnow
      <4>3. ptr[d] \in Slots
        BY <2>1, AtItsSlot
      <4> QED
        BY <4>1, <4>2, <4>3 DEF IInv, TypeOK
    <3> QED
      BY <3>1, <3>2
  <2> QED
    BY <2>1, <2>2, <2>4, DeciderLeftAlone DEF DecidersInv
\* A step of another caller at its own slot, which is not the decider's.
<1>4. ASSUME NEW c \in Callers, NEW t, NEW r, pc[c] = "at" \/ Deciding(c),
             c # d, Deciding(d), ptr[c] # ptr[d],
             slot' = [slot EXCEPT ![ptr[c]] = t],
             starts' = [starts EXCEPT ![exit[c]] = r],
             exit'[d] = exit[d], ptr' = ptr, stamp'[d] = stamp[d]
      PROVE  DecidesExactly(d)'
  <2>1. ptr[d] \in Slots /\ exit[d] \in Exits /\ table[exit[d]] = ptr[d]
    BY <1>4, AtItsSlot
  <2>2. table[exit[c]] = ptr[c]
    BY <1>4, AtItsSlot
  <2>3. exit[d] # exit[c]
    BY <1>4, <2>1, <2>2
  <2>4. slot'[ptr[d]] = slot[ptr[d]] /\ starts'[exit[d]] = starts[exit[d]]
    BY <1>4, <2>1, <2>3 DEF IInv, TypeOK
  <2> QED
    BY <1>4, <2>4, DeciderLeftAlone DEF DecidersInv
<1>5. ASSUME NEW c \in Callers, Begin(c) PROVE DecidesExactly(d)'
  <2>1. /\ pc[c] = "at" /\ ~Locked(ptr[c])
        /\ slot' = [slot EXCEPT ![ptr[c]] = Pruned(slot[ptr[c]])]
        /\ stamp' = [stamp EXCEPT ![c] = now]
        /\ pc' = [pc EXCEPT ![c] = "checking"]
        /\ UNCHANGED <<exit, ptr, starts>>
    BY <1>5 DEF Begin
  <2>2. CASE d = c
    <3>1. /\ exit[c] \in Exits /\ table[exit[c]] = ptr[c] /\ ptr[c] # NoSlot
          /\ ptr[c] \in Slots
      BY <2>1, AtItsSlot
    <3>2. /\ Len(Pruned(slot[ptr[c]]).minuteWin) = StartedSince(exit[c], MinuteLen)
          /\ Len(Pruned(slot[ptr[c]]).hourWin) = StartedSince(exit[c], HourLen)
      BY <3>1, PrunedWindows
    <3>3. slot'[ptr'[c]] = Pruned(slot[ptr[c]]) /\ stamp'[c] = now
      BY <2>1, <3>1 DEF IInv, TypeOK
    <3>4. \A i \in 1..Len(starts[exit[c]]) : starts[exit[c]][i] <= now
      BY <3>1 DEF WindowsInv, WindowsOf, Ordered
    <3>5. /\ CountedAt(exit[c], MinuteLen, stamp[c])' = StartedSince(exit[c], MinuteLen)
          /\ CountedAt(exit[c], HourLen, stamp[c])' = StartedSince(exit[c], HourLen)
      BY <2>1, <3>3 DEF CountedAt, StartedSince
    <3> QED
      BY <2>1, <2>2, <3>2, <3>3, <3>4, <3>5 DEF DecidesExactly
  <2>3. CASE d # c
    <3>1. Deciding(d) /\ stamp'[d] = stamp[d]
      BY <2>1, <2>3 DEF Deciding, IInv, TypeOK
    <3>2. ptr[c] # ptr[d]
      BY <2>1, <3>1 DEF Locked, Deciding
    <3>3. starts' = [starts EXCEPT ![exit[c]] = starts[exit[c]]]
      BY <2>1, AtItsSlot DEF IInv, TypeOK
    <3> QED
      BY <1>4, <2>1, <2>3, <3>1, <3>2, <3>3
  <2> QED
    BY <2>2, <2>3
<1>6. ASSUME NEW c \in Callers, ReadLimit(c) \/ Compare(c) \/ Refuse(c)
      PROVE  DecidesExactly(d)'
  <2>1. Deciding(d)
    BY <1>6 DEF ReadLimit, Compare, Refuse, Refused, Deciding, IInv, TypeOK
  <2>2. CASE ReadLimit(c) \/ Compare(c)
    BY <1>1, <2>1, <2>2 DEF ReadLimit, Compare
  <2>3. CASE Refuse(c)
    <3>1. d # c
      BY <2>3 DEF Refuse, Refused, Deciding, IInv, TypeOK
    <3>2. /\ exit'[d] = exit[d] /\ stamp'[d] = stamp[d]
          /\ UNCHANGED <<slot, ptr, starts>>
      BY <2>3, <3>1 DEF Refuse, Refused, IInv, TypeOK
    <3> QED
      BY <2>1, <3>2, DeciderLeftAlone DEF DecidersInv
  <2> QED
    BY <1>6, <2>2, <2>3
<1>7. ASSUME NEW c \in Callers, Acquire(c) PROVE DecidesExactly(d)'
  <2>1. d # c /\ Deciding(d) /\ Deciding(c)
    BY <1>7 DEF Acquire, Deciding, IInv, TypeOK
  <2>2. ptr[c] # ptr[d]
    BY <2>1 DEF IInv, DecidersAlone
  <2>3. stamp'[d] = stamp[d] /\ exit' = exit /\ ptr' = ptr
    BY <1>7, <2>1 DEF Acquire, IInv, TypeOK
  <2>4. \E t, r : /\ slot' = [slot EXCEPT ![ptr[c]] = t]
                  /\ starts' = [starts EXCEPT ![exit[c]] = r]
    BY <1>7 DEF Acquire
  <2> QED
    BY <1>4, <2>1, <2>2, <2>3, <2>4
<1>8. ASSUME NEW c \in Callers, Release(c) \/ ReadUsage(c) PROVE DecidesExactly(d)'
  <2>1. d # c /\ Deciding(d) /\ pc[c] = "at" /\ ~Locked(ptr[c])
    BY <1>8 DEF Release, ReadUsage, Deciding, IInv, TypeOK
  <2>2. ptr[c] # ptr[d]
    BY <2>1 DEF Locked, Deciding
  <2>3. exit'[d] = exit[d] /\ UNCHANGED <<ptr, stamp, starts>>
    BY <1>8, <2>1 DEF Release, ReadUsage, IInv, TypeOK
  <2>4. \E t : slot' = [slot EXCEPT ![ptr[c]] = t]
    BY <1>8 DEF Release, ReadUsage
  <2>5. starts' = [starts EXCEPT ![exit[c]] = starts[exit[c]]]
    BY <2>3, <2>1, AtItsSlot DEF IInv, TypeOK
  <2> QED
    BY <1>4, <2>1, <2>2, <2>3, <2>4, <2>5
<1>9. CASE Tick \/ SetLimits \/ UNCHANGED vars
  BY <1>1, <1>9 DEF Tick, SetLimits, vars, Deciding
<1> QED
  BY <1>2, <1>3, <1>5, <1>6, <1>7, <1>8, <1>9 DEF Next

-------------------------------------------------------------------------------
WInv == IInv /\ WindowsInv /\ DecidersInv

\* Each window is an end of the record, and each decider sees the windows of
\* its stamp, for ever.
LEMMA WindowsInvariance == Spec => []WInv
<1> USE ConstantsAssumption
<1>1. Init => WInv
  <2>1. Init => DecidersInv
    BY DEF Init, DecidersInv, Deciding
  <2> QED
    BY <2>1, InitIInv, InitWindows DEF WInv
<1>2. WInv /\ [Next]_vars => WInv'
  BY NextTypeOK, NextCallersKnow, NextDecidersAlone, NextConserves, NextWindows,
     NextDeciders DEF WInv, IInv
<1> QED
  BY <1>1, <1>2, PTL DEF Spec

\* trySlotAcquire decides as if it had the record of all starts and of all
\* holders before it, although pruneTimestamps forgets, at moments that
\* depend on who asks for the usage and who is refused.
THEOREM ExactVerdict == Spec => []VerdictIsExact
<1>1. ASSUME WInv PROVE VerdictIsExact
  <2> SUFFICES ASSUME NEW e \in Exits, table[e] # NoSlot
               PROVE  Used(Pruned(slot[table[e]])) =
                         [conc |-> Cardinality(Holders(e)),
                          rpm  |-> StartedSince(e, MinuteLen),
                          rph  |-> StartedSince(e, HourLen)]
    BY DEF VerdictIsExact
  <2> DEFINE s == Pruned(slot[table[e]])
  <2>1. /\ Len(s.minuteWin) = StartedSince(e, MinuteLen)
        /\ Len(s.hourWin) = StartedSince(e, HourLen)
        /\ s.inflight = Cardinality(Holders(e))
    BY <1>1, ConstantsAssumption, PrunedWindows DEF WInv
  <2> HIDE DEF s
  <2>2. Used(s) = [conc |-> Cardinality(Holders(e)),
                   rpm  |-> StartedSince(e, MinuteLen),
                   rph  |-> StartedSince(e, HourLen)]
    BY <2>1 DEF Used
  <2> QED
    BY <2>2 DEF s
<1> QED
  BY <1>1, WindowsInvariance, PTL

-------------------------------------------------------------------------------
(***************************************************************************)
(* The limiter implements the ledger.  Looking a slot up, creating it and  *)
(* reading the usage are steps the ledger does not see; every read of a    *)
(* limit inside trySlotAcquire is one it does see, at the limits of that   *)
(* moment.                                                                 *)
(***************************************************************************)
HolderOf(c) == IF Holds(c) THEN exit[c] ELSE NoExit

AskedOf(c) ==
    IF ~Deciding(c) THEN NoCall
    ELSE [exit |-> exit[c], at |-> stamp[c],
          passed |-> PassedBefore[check[c]],
          found |-> IF pc[c] = "limited" THEN {check[c]} ELSE {}]

HolderMap == [c \in Callers |-> HolderOf(c)]
AskedMap == [c \in Callers |-> AskedOf(c)]

\* The ledger counts the way the limiter's specification counts.
LEMMA LedgerCardinality == ASSUME NEW S PROVE Ledger!Cardinality(S) = Cardinality(S)
BY Zenon DEF Ledger!Cardinality, Cardinality

\* Who holds an exit in the ledger is who holds it in the limiter.
LEMMA LedgerHolders ==
    ASSUME ConstantsAssumption, NEW e \in Exits
    PROVE  Ledger!HoldersOf(e) = Holders(e)
BY DEF Ledger!HoldersOf, Holders, ConstantsAssumption

\* The ledger has a request before it exactly when trySlotAcquire does.
LEMMA LedgerAsked ==
    ASSUME ConstantsAssumption, IInv, NEW c \in Callers, Deciding(c)
    PROVE  AskedMap[c] # NoCall
<1>1. PassedBefore[check[c]] \in SUBSET Checks
  BY DEF IInv, TypeOK, Checks, PassedBefore
<1>2. (IF pc[c] = "limited" THEN {check[c]} ELSE {}) \in SUBSET Checks
  BY DEF IInv, TypeOK, Checks
<1>3. exit[c] \in Exits /\ stamp[c] \in Nat
  BY DEF IInv, TypeOK, CallersKnow, Deciding
<1> QED
  BY <1>1, <1>2, <1>3, NoCallAssumption DEF AskedMap, AskedOf

\* What the ledger has against the limits of a request that is being decided
\* is what the windows and the counter of its slot say.
LEMMA LedgerUsed ==
    ASSUME ConstantsAssumption, WInv, NEW c \in Callers, Deciding(c)
    PROVE  Ledger!UsedBy(c) = Used(slot[ptr[c]])
<1>1. /\ exit[c] \in Exits /\ table[exit[c]] = ptr[c] /\ ptr[c] # NoSlot
  BY AtItsSlot DEF WInv
<1>2. slot[ptr[c]].inflight = Cardinality(Holders(exit[c]))
  BY <1>1 DEF WInv, IInv, InflightIsHolders
<1>3. /\ Len(slot[ptr[c]].minuteWin) = CountedAt(exit[c], MinuteLen, stamp[c])
      /\ Len(slot[ptr[c]].hourWin) = CountedAt(exit[c], HourLen, stamp[c])
  BY DEF WInv, DecidersInv, DecidesExactly
<1>4. \A age, at : Ledger!StartedBy(exit[c], age, at) = CountedAt(exit[c], age, at)
  BY LedgerCardinality DEF Ledger!StartedBy, CountedAt
<1>5. Ledger!Cardinality(Ledger!HoldersOf(exit[c])) = Cardinality(Holders(exit[c]))
  BY <1>1, LedgerHolders, LedgerCardinality
<1>6. Ledger!UsedOf(exit[c], stamp[c]) = Used(slot[ptr[c]])
  BY <1>2, <1>3, <1>4, <1>5 DEF Ledger!UsedOf, Used
<1>7. Ledger!UsedBy(c) = Ledger!UsedOf(exit[c], stamp[c])
  BY DEF Ledger!UsedBy
<1> QED
  BY <1>6, <1>7

\* The limiter begins as the ledger does.
LEMMA InitLedger == ASSUME ConstantsAssumption, Init PROVE Ledger!LedgerInit
BY DEF Init, Ledger!LedgerInit, Holds, Deciding

\* A step that leaves what a caller holds and what it asked for.
SameFor(d) ==
    /\ Holds(d)' <=> Holds(d)
    /\ Holds(d) => exit'[d] = exit[d]
    /\ Deciding(d)' <=> Deciding(d)
    /\ Deciding(d) => /\ exit'[d] = exit[d] /\ stamp'[d] = stamp[d]
                      /\ check'[d] = check[d] /\ pc'[d] = pc[d]

LEMMA SameForMaps ==
    ASSUME NEW d \in Callers, SameFor(d)
    PROVE  HolderOf(d)' = HolderOf(d) /\ AskedOf(d)' = AskedOf(d)
<1>1. HolderOf(d)' = HolderOf(d)
  BY DEF SameFor, HolderOf
<1>2. CASE Deciding(d)
  BY <1>1, <1>2 DEF SameFor, AskedOf
<1>3. CASE ~Deciding(d)
  BY <1>1, <1>3 DEF SameFor, AskedOf
<1> QED
  BY <1>1, <1>2, <1>3

\* A step of one caller changes the maps at that caller.
LEMMA MapsAt ==
    ASSUME NEW c \in Callers, \A d \in Callers \ {c} : SameFor(d)
    PROVE  /\ HolderMap' = [HolderMap EXCEPT ![c] = HolderOf(c)']
           /\ AskedMap' = [AskedMap EXCEPT ![c] = AskedOf(c)']
<1>1. \A d \in Callers \ {c} : HolderOf(d)' = HolderOf(d) /\ AskedOf(d)' = AskedOf(d)
  BY SameForMaps
<1>2. /\ HolderMap' = [d \in Callers |-> HolderOf(d)']
      /\ AskedMap' = [d \in Callers |-> AskedOf(d)']
  BY DEF HolderMap, AskedMap
<1> QED
  BY <1>1, <1>2 DEF HolderMap, AskedMap

\* A decision comes to its end over the reads in their order.
LEMMA PassedGrows ==
    ASSUME NEW k \in {"conc", "rpm", "rph"}
    PROVE  /\ PassedBefore[NextCheck[k]] = PassedBefore[k] \cup {k}
           /\ k \in Ledger!Kinds
BY DEF PassedBefore, NextCheck, Ledger!Kinds

\* Every step of the limiter is a step of the ledger or none.
LEMMA NextLedger ==
    ASSUME ConstantsAssumption, WInv, [Next]_vars
    PROVE  [Ledger!LedgerNext]_(Ledger!ledgerVars)
<1> USE DEF WInv, IInv
\* The maps are what the refinement puts in the place of holder and asked.
<1>a. /\ HolderMap = [c \in Callers |-> IF Holds(c) THEN exit[c] ELSE NoExit]
      /\ AskedMap = [c \in Callers |->
            IF ~Deciding(c) THEN NoCall
            ELSE [exit |-> exit[c], at |-> stamp[c],
                  passed |-> PassedBefore[check[c]],
                  found |-> IF pc[c] = "limited" THEN {check[c]} ELSE {}]]
  BY DEF HolderMap, HolderOf, AskedMap, AskedOf
<1>b. /\ HolderMap' = [c \in Callers |-> IF Holds(c) THEN exit[c] ELSE NoExit]'
      /\ AskedMap' = [c \in Callers |->
            IF ~Deciding(c) THEN NoCall
            ELSE [exit |-> exit[c], at |-> stamp[c],
                  passed |-> PassedBefore[check[c]],
                  found |-> IF pc[c] = "limited" THEN {check[c]} ELSE {}]]'
  BY DEF HolderMap, HolderOf, AskedMap, AskedOf
\* A step that changes neither who holds or asks for what nor the record.
<1>1. ASSUME UNCHANGED <<now, limits, starts>>, \A d \in Callers : SameFor(d)
      PROVE  UNCHANGED Ledger!ledgerVars
  <2>1. HolderMap' = HolderMap /\ AskedMap' = AskedMap
    BY <1>1, SameForMaps DEF HolderMap, AskedMap
  <2> QED
    BY <1>1, <2>1 DEF Ledger!ledgerVars, HolderMap, HolderOf, AskedMap, AskedOf
<1>2. ASSUME NEW c \in Callers, NEW o \in Ops, NEW e \in Exits, Lookup(c, o, e)
      PROVE  UNCHANGED Ledger!ledgerVars
  <2>1. \A d \in Callers : SameFor(d)
    BY <1>2 DEF Lookup, SameFor, Holds, Deciding, TypeOK, CallersKnow, Ops
  <2> QED
    BY <1>1, <1>2, <2>1 DEF Lookup
<1>3. ASSUME NEW c \in Callers, Create(c) PROVE UNCHANGED Ledger!ledgerVars
  <2>1. \A d \in Callers : SameFor(d)
    BY <1>3 DEF Create, SameFor, Holds, Deciding, TypeOK, CallersKnow
  <2> QED
    BY <1>1, <1>3, <2>1 DEF Create
<1>4. ASSUME NEW c \in Callers, ReadUsage(c) PROVE UNCHANGED Ledger!ledgerVars
  <2>1. \A d \in Callers : SameFor(d)
    BY <1>4 DEF ReadUsage, SameFor, Holds, Deciding, TypeOK
  <2> QED
    BY <1>1, <1>4, <2>1 DEF ReadUsage
<1>5. ASSUME NEW c \in Callers, Begin(c) PROVE \E e \in Exits : Ledger!Ask(c, e)
  <2>1. /\ pc[c] = "at" /\ op[c] = "take" /\ ~Locked(ptr[c])
        /\ stamp' = [stamp EXCEPT ![c] = now]
        /\ pc' = [pc EXCEPT ![c] = "checking"]
        /\ UNCHANGED <<now, limits, table, op, exit, ptr, check, starts>>
    BY <1>5 DEF Begin
  <2>2. exit[c] \in Exits /\ table[exit[c]] = ptr[c] /\ ptr[c] # NoSlot
    BY <2>1, AtItsSlot
  <2>3. \A d \in Callers \ {c} : SameFor(d)
    BY <2>1 DEF SameFor, Holds, Deciding, TypeOK
  <2>4. ~Holds(c) /\ ~Holds(c)' /\ ~Deciding(c) /\ Deciding(c)' /\ check[c] = "conc"
    BY <2>1 DEF Holds, Deciding, TypeOK, CallersKnow
  <2>5. HolderMap[c] = NoExit /\ HolderMap' = HolderMap
    BY <2>3, <2>4, MapsAt DEF HolderMap, HolderOf
  <2>6. \A d \in Callers : AskedMap[d] # NoCall => d # c /\ exit[d] # exit[c]
                                             /\ AskedMap[d].exit = exit[d]
    <3> SUFFICES ASSUME NEW d \in Callers, AskedMap[d] # NoCall
                 PROVE  d # c /\ exit[d] # exit[c] /\ AskedMap[d].exit = exit[d]
      OBVIOUS
    <3>1. Deciding(d)
      BY DEF AskedMap, AskedOf
    <3>2. ptr[d] # ptr[c] /\ d # c
      BY <2>1, <2>4, <3>1 DEF Locked, Deciding
    <3>3. table[exit[d]] = ptr[d]
      BY <3>1, AtItsSlot
    <3> QED
      BY <2>2, <3>1, <3>2, <3>3 DEF AskedMap, AskedOf
  <2>7. AskedOf(c)' = [exit |-> exit[c], at |-> now, passed |-> {}, found |-> {}]
    BY <2>1, <2>4 DEF AskedOf, PassedBefore, TypeOK
  <2>8. AskedMap' = [AskedMap EXCEPT ![c] =
                        [exit |-> exit[c], at |-> now, passed |-> {}, found |-> {}]]
    BY <2>3, <2>7, MapsAt
  <2>9. PICK e \in Exits : e = exit[c]
    BY <2>2
  <2>10. /\ \A d \in Callers : AskedMap[d] # NoCall => d # c /\ AskedMap[d].exit # e
         /\ AskedMap' = [AskedMap EXCEPT ![c] =
                            [exit |-> e, at |-> now, passed |-> {}, found |-> {}]]
    BY <2>6, <2>8, <2>9
  <2>11. Ledger!Ask(c, e)
    BY Zenon, <1>a, <1>b, <2>1, <2>5, <2>10 DEF Ledger!Ask
  <2> QED
    BY <2>11
\* What the ledger has on a caller that decides.
<1>6. ASSUME NEW c \in Callers, Deciding(c)
      PROVE  /\ AskedMap[c] # NoCall
             /\ AskedMap[c].exit = exit[c] /\ AskedMap[c].at = stamp[c]
             /\ AskedMap[c].passed = PassedBefore[check[c]]
             /\ AskedMap[c].found = IF pc[c] = "limited" THEN {check[c]} ELSE {}
             /\ exit[c] \in Exits /\ ~Holds(c)
             /\ limits[check[c]] \in Nat \/ check[c] = "done"
             /\ Ledger!UsedBy(c) = Used(slot[ptr[c]])
  <2>1. AskedMap[c] # NoCall
    BY <1>6, LedgerAsked
  <2>2. AskedMap[c] = [exit |-> exit[c], at |-> stamp[c],
                       passed |-> PassedBefore[check[c]],
                       found |-> IF pc[c] = "limited" THEN {check[c]} ELSE {}]
    BY <1>6 DEF AskedMap, AskedOf
  <2>3. exit[c] \in Exits /\ ~Holds(c)
    BY <1>6, AtItsSlot DEF Holds, Deciding
  <2>4. limits[check[c]] \in Nat \/ check[c] = "done"
    <3>1. limits \in Limit
      BY DEF ConstantsAssumption, TypeOK
    <3> QED
      BY <3>1 DEF TypeOK, Checks, Limit
  <2>5. Ledger!UsedBy(c) = Used(slot[ptr[c]])
    BY <1>6, LedgerUsed
  <2> QED
    BY <2>1, <2>2, <2>3, <2>4, <2>5
\* One comparison of a limit leaves room.
<1>7. ASSUME NEW c \in Callers, NEW k \in Ledger!Kinds, Deciding(c), k = check[c],
             limits[k] = 0 \/ Used(slot[ptr[c]])[k] < limits[k],
             pc' = [pc EXCEPT ![c] = "checking"],
             check' = [check EXCEPT ![c] = NextCheck[@]],
             UNCHANGED <<now, limits, op, exit, stamp, starts>>
      PROVE  Ledger!Pass(c, k)
  <2>1. k \in {"conc", "rpm", "rph"}
    BY DEF Ledger!Kinds
  <2>2. \A d \in Callers \ {c} : SameFor(d)
    BY <1>7 DEF SameFor, Holds, Deciding, TypeOK
  <2>3. ~Holds(c)' /\ Deciding(c)' /\ pc'[c] = "checking" /\ check'[c] = NextCheck[k]
    BY <1>7 DEF Holds, Deciding, TypeOK
  <2>4. HolderMap' = HolderMap
    BY <2>2, <2>3, <1>6, <1>7, MapsAt DEF HolderMap, HolderOf
  <2>5. AskedOf(c)' = [exit |-> exit[c], at |-> stamp[c],
                       passed |-> PassedBefore[k] \cup {k}, found |-> {}]
    BY <1>7, <2>1, <2>3, PassedGrows DEF AskedOf
  <2>6. AskedMap[c] = [exit |-> exit[c], at |-> stamp[c],
                       passed |-> PassedBefore[k],
                       found |-> IF pc[c] = "limited" THEN {k} ELSE {}]
    BY <1>7 DEF AskedMap, AskedOf
  <2>7. AskedMap' = [AskedMap EXCEPT ![c] = AskedOf(c)']
    BY <2>2, MapsAt
  <2>9. AskedMap' = [AskedMap EXCEPT ![c] =
                        [exit |-> @.exit, at |-> @.at,
                         passed |-> @.passed \cup {k}, found |-> {}]]
    <3>1. /\ AskedMap[c].exit = exit[c] /\ AskedMap[c].at = stamp[c]
          /\ AskedMap[c].passed = PassedBefore[k]
      BY <2>6
    <3> QED
      BY <2>5, <2>7, <3>1
  <2>10. limits[k] = 0 \/ Ledger!UsedBy(c)[k] < limits[k]
    BY <1>6, <1>7
  <2> QED
    BY Zenon, <1>a, <1>b, <1>6, <1>7, <2>4, <2>9, <2>10 DEF Ledger!Pass
<1>8. ASSUME NEW c \in Callers, ReadLimit(c)
      PROVE  \E k \in Ledger!Kinds : Ledger!Find(c, k) \/ Ledger!Pass(c, k)
  <2>1. /\ pc[c] = "checking" /\ check[c] # "done" /\ Deciding(c)
        /\ UNCHANGED <<now, limits, op, exit, stamp, starts>>
    BY <1>8 DEF ReadLimit, Deciding
  <2>2. PICK k \in Ledger!Kinds : k = check[c]
    BY <2>1 DEF TypeOK, Checks, Ledger!Kinds
  <2>3. CASE limits[k] = 0
    <3>1. check' = [check EXCEPT ![c] = NextCheck[@]] /\ pc' = pc
      BY <1>8, <2>2, <2>3 DEF ReadLimit
    <3>2. pc' = [pc EXCEPT ![c] = "checking"]
      BY <2>1, <3>1 DEF TypeOK
    <3>3. Ledger!Pass(c, k)
      BY <1>7, <2>1, <2>2, <2>3, <3>1, <3>2
    <3> QED
      BY <3>3
  <2>4. CASE limits[k] > 0
    <3>1. pc' = [pc EXCEPT ![c] = "limited"] /\ check' = check
      BY <1>8, <2>2, <2>4 DEF ReadLimit
    <3>2. \A d \in Callers \ {c} : SameFor(d)
      BY <2>1, <3>1 DEF SameFor, Holds, Deciding, TypeOK
    <3>3. ~Holds(c)' /\ Deciding(c)' /\ pc'[c] = "limited"
      BY <2>1, <3>1 DEF Holds, Deciding, TypeOK
    <3>4. HolderMap' = HolderMap
      BY <2>1, <3>2, <3>3, <1>6, MapsAt DEF HolderMap, HolderOf
    <3>5. AskedOf(c)' = [exit |-> exit[c], at |-> stamp[c],
                         passed |-> PassedBefore[k], found |-> {k}]
      BY <2>1, <2>2, <3>1, <3>3 DEF AskedOf
    <3>6. AskedMap[c] = [exit |-> exit[c], at |-> stamp[c],
                         passed |-> PassedBefore[k],
                         found |-> IF pc[c] = "limited" THEN {k} ELSE {}]
      BY <2>1, <2>2 DEF AskedMap, AskedOf
    <3>7. AskedMap' = [AskedMap EXCEPT ![c] = AskedOf(c)']
      BY <3>2, MapsAt
    <3>8. AskedMap = [d \in Callers |-> AskedMap[d]]
      BY DEF AskedMap
    <3>9. AskedMap' = [AskedMap EXCEPT ![c].found = {k}]
      <4>1. AskedOf(c)' = [AskedMap[c] EXCEPT !.found = {k}]
        BY <3>5, <3>6
      <4> QED
        BY <3>7, <3>8, <4>1
    <3>10. Ledger!Find(c, k)
      BY Zenon, <1>a, <1>b, <1>6, <2>1, <2>4, <3>4, <3>9 DEF Ledger!Find
    <3> QED
      BY <3>10
  <2> QED
    BY <1>8, <2>2, <2>3, <2>4 DEF ReadLimit
<1>9. ASSUME NEW c \in Callers, Compare(c)
      PROVE  \E k \in Ledger!Kinds : Ledger!Find(c, k) \/ Ledger!Pass(c, k)
  <2>1. /\ pc[c] = "limited" /\ Deciding(c) /\ check[c] # "done"
        /\ Used(slot[ptr[c]])[check[c]] < limits[check[c]]
        /\ check' = [check EXCEPT ![c] = NextCheck[@]]
        /\ pc' = [pc EXCEPT ![c] = "checking"]
        /\ UNCHANGED <<now, limits, op, exit, stamp, starts>>
    BY <1>9 DEF Compare, Deciding, CallersKnow
  <2>2. PICK k \in Ledger!Kinds : k = check[c]
    BY <2>1 DEF TypeOK, Checks, Ledger!Kinds
  <2>3. Ledger!Pass(c, k)
    BY <1>7, <2>1, <2>2
  <2> QED
    BY <2>3
<1>10. ASSUME NEW c \in Callers, Refuse(c) PROVE Ledger!SendAway(c)
  <2> DEFINE k == check[c]
  <2>1. /\ pc[c] = "limited" /\ Deciding(c)
        /\ Used(slot[ptr[c]])[k] >= limits[k]
        /\ pc' = [pc EXCEPT ![c] = "idle"]
        /\ exit' = [exit EXCEPT ![c] = NoExit]
        /\ stamp' = [stamp EXCEPT ![c] = 0]
        /\ check' = [check EXCEPT ![c] = "conc"]
        /\ UNCHANGED <<now, limits, op, starts>>
    BY <1>10 DEF Refuse, Refused, Deciding
  <2>2. \A d \in Callers \ {c} : SameFor(d)
    BY <2>1 DEF SameFor, Holds, Deciding, TypeOK
  <2>3. ~Holds(c)' /\ ~Deciding(c)'
    BY <2>1 DEF Holds, Deciding, TypeOK
  <2>4. HolderMap' = HolderMap
    <3>1. HolderOf(c)' = NoExit /\ HolderOf(c) = NoExit
      BY <1>6, <2>1, <2>3 DEF HolderOf
    <3>2. HolderMap = [HolderMap EXCEPT ![c] = NoExit]
      BY <3>1 DEF HolderMap
    <3> QED
      BY <2>2, <3>1, <3>2, MapsAt
  <2>5. AskedMap' = [AskedMap EXCEPT ![c] = NoCall]
    BY <2>2, <2>3, MapsAt DEF AskedOf
  <2>6. k \in AskedMap[c].found /\ limits[k] <= Ledger!UsedBy(c)[k]
    <3>1. k \in AskedMap[c].found /\ Ledger!UsedBy(c) = Used(slot[ptr[c]])
      BY <1>6, <2>1
    <3>2. limits[k] \in Nat
      BY <1>6, <2>1 DEF CallersKnow
    <3>3. Used(slot[ptr[c]])[k] \in Nat
      <4>1. slot[ptr[c]] \in SlotContents
        BY <2>1, AtItsSlot
      <4>2. k \in {"conc", "rpm", "rph"}
        BY <2>1 DEF TypeOK, CallersKnow, Checks
      <4> QED
        BY <4>1, <4>2 DEF Used, SlotContents
    <3> QED
      BY <2>1, <3>1, <3>2, <3>3
  <2> HIDE DEF k
  <2> QED
    BY Zenon, <1>a, <1>b, <1>6, <2>1, <2>4, <2>5, <2>6 DEF Ledger!SendAway
<1>11. ASSUME NEW c \in Callers, Acquire(c) PROVE Ledger!Admit(c)
  <2>1. /\ pc[c] = "checking" /\ Deciding(c) /\ check[c] = "done"
        /\ pc' = [pc EXCEPT ![c] = "holding"]
        /\ stamp' = [stamp EXCEPT ![c] = 0]
        /\ check' = [check EXCEPT ![c] = "conc"]
        /\ starts' = [starts EXCEPT ![exit[c]] = Append(@, stamp[c])]
        /\ UNCHANGED <<now, limits, op, exit>>
    BY <1>11 DEF Acquire, Deciding
  <2>2. \A d \in Callers \ {c} : SameFor(d)
    BY <2>1 DEF SameFor, Holds, Deciding, TypeOK
  <2>3. Holds(c)' /\ ~Deciding(c)'
    BY <2>1 DEF Holds, Deciding, TypeOK
  <2>4. HolderMap' = [HolderMap EXCEPT ![c] = exit[c]]
    BY <2>1, <2>2, <2>3, MapsAt DEF HolderOf
  <2>5. AskedMap' = [AskedMap EXCEPT ![c] = NoCall]
    BY <2>2, <2>3, MapsAt DEF AskedOf
  <2>6. AskedMap[c].passed = Ledger!Kinds
    <3>1. AskedMap[c].passed = PassedBefore[check[c]]
      BY <1>6, <2>1
    <3> QED
      BY <2>1, <3>1 DEF PassedBefore, Ledger!Kinds
  <2> QED
    BY Zenon, <1>a, <1>b, <1>6, <2>1, <2>4, <2>5, <2>6 DEF Ledger!Admit
<1>12. ASSUME NEW c \in Callers, Release(c) PROVE Ledger!GiveBack(c)
  <2>1. /\ pc[c] = "at" /\ op[c] = "give"
        /\ pc' = [pc EXCEPT ![c] = "idle"]
        /\ exit' = [exit EXCEPT ![c] = NoExit]
        /\ UNCHANGED <<now, limits, op, stamp, check, starts>>
    BY <1>12 DEF Release
  <2>2. \A d \in Callers \ {c} : SameFor(d)
    BY <2>1 DEF SameFor, Holds, Deciding, TypeOK
  <2>3. Holds(c) /\ ~Holds(c)' /\ ~Deciding(c) /\ ~Deciding(c)'
    BY <2>1 DEF Holds, Deciding, TypeOK
  <2>4. exit[c] \in Exits /\ exit[c] # NoExit
    BY <2>1, AtItsSlot DEF ConstantsAssumption
  <2>5. HolderMap[c] # NoExit /\ HolderMap' = [HolderMap EXCEPT ![c] = NoExit]
    BY <2>2, <2>3, <2>4, MapsAt DEF HolderMap, HolderOf
  <2>6. AskedMap' = AskedMap
    BY <2>2, <2>3, MapsAt DEF AskedMap, AskedOf
  <2> QED
    BY Zenon, <1>a, <1>b, <2>1, <2>5, <2>6 DEF Ledger!GiveBack
<1>13. ASSUME UNCHANGED <<pc, op, exit, stamp, check>>
       PROVE  HolderMap' = HolderMap /\ AskedMap' = AskedMap
  <2>1. \A d \in Callers : SameFor(d)
    BY <1>13 DEF SameFor, Holds, Deciding
  <2> QED
    BY <2>1, SameForMaps DEF HolderMap, AskedMap
<1>14. CASE Tick
  <2>1. HolderMap' = HolderMap /\ AskedMap' = AskedMap
    BY <1>13, <1>14 DEF Tick
  <2>2. Ledger!ClockTicks
    BY Zenon, <1>a, <1>b, <1>14, <2>1 DEF Tick, Ledger!ClockTicks
  <2> QED
    BY <2>2 DEF Ledger!LedgerNext
<1>15. CASE SetLimits
  <2>1. HolderMap' = HolderMap /\ AskedMap' = AskedMap
    BY <1>13, <1>15 DEF SetLimits
  <2>2. limits' \in LimitChoices /\ UNCHANGED <<now, starts>>
    BY <1>15 DEF SetLimits
  <2>3. Ledger!LimitsChange
    BY Zenon, <1>a, <1>b, <2>1, <2>2 DEF Ledger!LimitsChange
  <2> QED
    BY <2>3 DEF Ledger!LedgerNext
<1>16. CASE UNCHANGED vars
  <2>1. \A d \in Callers : SameFor(d)
    BY <1>16 DEF vars, SameFor, Holds, Deciding
  <2> QED
    BY <1>1, <1>16, <2>1 DEF vars
<1>17. ASSUME NEW c \in Callers,
              Begin(c) \/ ReadLimit(c) \/ Compare(c) \/ Refuse(c) \/ Acquire(c)
                 \/ Release(c)
       PROVE  Ledger!LedgerNext
  <2>1. CASE Begin(c)
    BY Zenon, <1>5, <2>1 DEF Ledger!LedgerNext
  <2>2. CASE ReadLimit(c) \/ Compare(c)
    BY Zenon, <1>8, <1>9, <2>2 DEF Ledger!LedgerNext
  <2>3. CASE Refuse(c) \/ Acquire(c) \/ Release(c)
    BY Zenon, <1>10, <1>11, <1>12, <2>3 DEF Ledger!LedgerNext
  <2> QED
    BY <1>17, <2>1, <2>2, <2>3
<1> QED
  BY <1>2, <1>3, <1>4, <1>14, <1>15, <1>16, <1>17 DEF Next

\* ratelimit.go implements the ledger: on every exit, whatever the callers'
\* interleaving and whenever other limits are saved, also between two reads
\* of one decision, each admission is one that the full record of starts and
\* the callers holding the exit leave room for under each limit as it was
\* when it was read, and each refusal is over a limit that did not.
THEOREM LedgerImplemented == Spec => ImplementsLedger
<1> USE ConstantsAssumption
<1>1. Init => Ledger!LedgerInit
  BY InitLedger
<1>2. WInv /\ [Next]_vars => [Ledger!LedgerNext]_(Ledger!ledgerVars)
  BY NextLedger
<1> QED
  BY <1>1, <1>2, WindowsInvariance, PTL DEF Spec, ImplementsLedger, Ledger!LedgerSpec

===============================================================================
