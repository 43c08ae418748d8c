------------------------------- MODULE RateLimit -------------------------------
(***************************************************************************)
(* The limiter of src/internal/app/ratelimit.go.  Every exit has a slot:   *)
(* the number of requests in flight and two lists of start times, one for  *)
(* the last minute and one for the last hour.  Slots live in a table that  *)
(* is filled on first use: a caller looks its exit up under the read lock  *)
(* and, on a miss, looks again and creates the slot under the write lock.  *)
(* What it does to a slot it does under the slot's own mutex.  Giving back *)
(* and reading the usage are one step.  Taking is not: while it holds the  *)
(* mutex, trySlotAcquire asks rtCfg() for the limits anew in each of its   *)
(* comparisons, up to six times, and a save of the runtime configuration,  *)
(* which takes rtMu alone, may fall between any two of them.               *)
(*                                                                         *)
(* A caller is one use of an exit: it takes the exit (trySlotAcquire) and, *)
(* when that succeeded, gives it back once (slotRelease).  Requests, the   *)
(* keep-alive rotation, cookie checks and conversation clean-up are all    *)
(* callers; a request that rotates a cookie on the way is two of them.     *)
(* Between uses a caller may also read the usage for the admin panel.      *)
(*                                                                         *)
(* starts is a history variable: the code forgets what falls out of a      *)
(* window, the model remembers every start so that the properties can say  *)
(* what the forgetting must not change.                                    *)
(***************************************************************************)
EXTENDS Naturals, Sequences, FiniteSets

CONSTANTS Exits, Callers, NoExit, LimitChoices, MinuteLen, HourLen,
          MaxTime,    \* bound: the clock stops here
          MaxStarts,  \* bound: no request is taken up once so many have started
          NoSlot,     \* the table holds no slot for an exit
          NoCall      \* the caller is not inside trySlotAcquire

Limit == [conc : Nat, rpm : Nat, rph : Nat]

ASSUME ConstantsAssumption ==
    /\ IsFiniteSet(Callers)
    /\ NoExit \notin Exits
    /\ NoSlot \notin Exits \X Callers
    /\ LimitChoices \subseteq Limit
    /\ MinuteLen \in Nat
    /\ HourLen \in Nat
    /\ MinuteLen <= HourLen
    /\ MaxTime \in Nat
    /\ MaxStarts \in Nat

\* The slot an address names.  &ipSlot{} is a new address; since a caller
\* creates at most one slot for an exit, <<exit, creator>> tells them apart.
Slots == Exits \X Callers

VARIABLES now,     \* the clock, in seconds
          limits,  \* the runtime configuration's three limits
          table,   \* the map slots: exit -> slot, or NoSlot
          slot,    \* slot[a]: the contents of the slot at address a
          pc,      \* where each caller is
          op,      \* what each caller calls getSlot for
          exit,    \* the exit each caller is working on
          ptr,     \* the slot getSlot returned to each caller
          stamp,   \* now of trySlotAcquire: when each caller got the mutex
          check,   \* the limit each caller in trySlotAcquire is at
          starts   \* history: when requests started on each exit

vars == <<now, limits, table, slot, pc, op, exit, ptr, stamp, check, starts>>

\* take: trySlotAcquire, give: slotRelease, read: slotUsage.
Ops == {"take", "give", "read"}

\* missed: the read-locked lookup found no slot.  at: getSlot returned.
\* checking: inside trySlotAcquire, before the first read of a limit.
\* limited: that read was above 0.  holding: trySlotAcquire returned true.
PCs == {"idle", "missed", "at", "checking", "limited", "holding"}

\* The three comparisons of trySlotAcquire, in their order.
Checks == {"conc", "rpm", "rph", "done"}
NextCheck == [conc |-> "rpm", rpm |-> "rph", rph |-> "done"]

\* A decision of the ledger is not what stands for none.
ASSUME NoCallAssumption ==
    NoCall \notin [exit : Exits, at : Nat, passed : SUBSET Checks, found : SUBSET Checks]

FreshSlot == [inflight |-> 0, minuteWin |-> <<>>, hourWin |-> <<>>]

\* A prune whose cutoff is one second late.
PruneTooYoung(ts, age) ==
    LET cut == {i \in DOMAIN ts : \A j \in 1..i : ts[j] + age <= now}
    IN  SubSeq(ts, Cardinality(cut) + 1, Len(ts))

\* pruneTimestamps: cut the leading entries that are older than the cutoff,
\* and no entry behind the first one that is not.  The cutoff now - age is
\* kept on the other side of the comparison.
Prune(ts, age) ==
    LET cut == {i \in DOMAIN ts : \A j \in 1..i : ts[j] + age < now}
    IN  SubSeq(ts, Cardinality(cut) + 1, Len(ts))

\* A prune of the minute window alone.
PrunedMinute(s) == [s EXCEPT !.minuteWin = Prune(@, MinuteLen)]

Pruned(s) == [s EXCEPT !.minuteWin = Prune(@, MinuteLen),
                       !.hourWin = Prune(@, HourLen)]

\* What each comparison of trySlotAcquire holds against its limit.
Used(s) == [conc |-> s.inflight, rpm |-> Len(s.minuteWin), rph |-> Len(s.hourWin)]

Init ==
    /\ now = 0
    /\ limits \in LimitChoices
    /\ table = [e \in Exits |-> NoSlot]
    /\ slot = [a \in Slots |-> FreshSlot]
    /\ pc = [c \in Callers |-> "idle"]
    /\ op = [c \in Callers |-> "take"]
    /\ exit = [c \in Callers |-> NoExit]
    /\ ptr = [c \in Callers |-> NoSlot]
    /\ stamp = [c \in Callers |-> 0]
    /\ check = [c \in Callers |-> "conc"]
    /\ starts = [e \in Exits |-> <<>>]

-------------------------------------------------------------------------------
\* getSlot, the lookup under the read lock: to take an exit or read its
\* usage, or to give back the exit the caller holds.
Lookup(c, o, e) ==
    /\ \/ pc[c] = "idle" /\ o \in {"take", "read"}
       \/ pc[c] = "holding" /\ o = "give" /\ e = exit[c]
    /\ op' = [op EXCEPT ![c] = o]
    /\ exit' = [exit EXCEPT ![c] = e]
    /\ \/ /\ table[e] = NoSlot
          /\ pc' = [pc EXCEPT ![c] = "missed"]
          /\ UNCHANGED ptr
       \/ /\ table[e] # NoSlot
          /\ pc' = [pc EXCEPT ![c] = "at"]
          /\ ptr' = [ptr EXCEPT ![c] = table[e]]
    /\ UNCHANGED <<now, limits, table, slot, stamp, check, starts>>

\* A getSlot that trusts its first lookup.
CreateUnchecked(c) ==
    /\ pc[c] = "missed"
    /\ pc' = [pc EXCEPT ![c] = "at"]
    /\ table' = [table EXCEPT ![exit[c]] = <<exit[c], c>>]
    /\ slot' = [slot EXCEPT ![<<exit[c], c>>] = FreshSlot]
    /\ ptr' = [ptr EXCEPT ![c] = <<exit[c], c>>]
    /\ UNCHANGED <<now, limits, op, exit, stamp, check, starts>>

\* getSlot after a miss, under the write lock: look again, create if need be.
Create(c) ==
    /\ pc[c] = "missed"
    /\ pc' = [pc EXCEPT ![c] = "at"]
    /\ IF table[exit[c]] # NoSlot
       THEN /\ ptr' = [ptr EXCEPT ![c] = table[exit[c]]]
            /\ UNCHANGED <<table, slot>>
       ELSE LET a == <<exit[c], c>>
            IN  /\ table' = [table EXCEPT ![exit[c]] = a]
                /\ slot' = [slot EXCEPT ![a] = FreshSlot]
                /\ ptr' = [ptr EXCEPT ![c] = a]
    /\ UNCHANGED <<now, limits, op, exit, stamp, check, starts>>

\* Some caller holds the mutex of the slot at a: it is inside trySlotAcquire.
Locked(a) == \E d \in Callers : pc[d] \in {"checking", "limited"} /\ ptr[d] = a

\* trySlotAcquire gets the mutex: read the clock, prune both windows.
Begin(c) ==
    /\ pc[c] = "at" /\ op[c] = "take"
    /\ ~Locked(ptr[c])
    /\ Len(starts[exit[c]]) < MaxStarts
    /\ slot' = [slot EXCEPT ![ptr[c]] = Pruned(@)]
    /\ stamp' = [stamp EXCEPT ![c] = now]
    /\ pc' = [pc EXCEPT ![c] = "checking"]
    /\ UNCHANGED <<now, limits, table, op, exit, ptr, check, starts>>

\* The first read of a limit, "rtCfg().PerIP... > 0".
ReadLimit(c) ==
    /\ pc[c] = "checking" /\ check[c] # "done"
    /\ \/ /\ limits[check[c]] = 0
          /\ check' = [check EXCEPT ![c] = NextCheck[@]]
          /\ UNCHANGED pc
       \/ /\ limits[check[c]] > 0
          /\ pc' = [pc EXCEPT ![c] = "limited"]
          /\ UNCHANGED check
    /\ UNCHANGED <<now, limits, table, slot, op, exit, ptr, stamp, starts>>

\* The second read of the limit finds room.
Compare(c) ==
    /\ pc[c] = "limited"
    /\ Used(slot[ptr[c]])[check[c]] < limits[check[c]]
    /\ check' = [check EXCEPT ![c] = NextCheck[@]]
    /\ pc' = [pc EXCEPT ![c] = "checking"]
    /\ UNCHANGED <<now, limits, table, slot, op, exit, ptr, stamp, starts>>

\* trySlotAcquire returned false: the caller's locals are gone.
Refused(c) ==
    /\ pc[c] = "limited"
    /\ Used(slot[ptr[c]])[check[c]] >= limits[check[c]]
    /\ pc' = [pc EXCEPT ![c] = "idle"]
    /\ exit' = [exit EXCEPT ![c] = NoExit]
    /\ stamp' = [stamp EXCEPT ![c] = 0]
    /\ check' = [check EXCEPT ![c] = "conc"]
    /\ UNCHANGED <<now, limits, table, op, ptr, starts>>

\* A refusal that runs the deferred release all the same.
RefuseAndRelease(c) == Refused(c) /\ slot' = [slot EXCEPT ![ptr[c]].inflight = @ - 1]

\* The second read of the limit finds none, and the mutex is given up.  A
\* limit that was set at the first read and is 0 at the second refuses.
Refuse(c) == Refused(c) /\ UNCHANGED slot

\* All three comparisons are behind: count the request as of its stamp, and
\* give up the mutex.
Acquire(c) ==
    /\ pc[c] = "checking" /\ check[c] = "done"
    /\ slot' = [slot EXCEPT ![ptr[c]] = [inflight  |-> @.inflight + 1,
                                         minuteWin |-> Append(@.minuteWin, stamp[c]),
                                         hourWin   |-> Append(@.hourWin, stamp[c])]]
    /\ pc' = [pc EXCEPT ![c] = "holding"]
    /\ stamp' = [stamp EXCEPT ![c] = 0]
    /\ check' = [check EXCEPT ![c] = "conc"]
    /\ starts' = [starts EXCEPT ![exit[c]] = Append(@, stamp[c])]
    /\ UNCHANGED <<now, limits, table, op, exit, ptr>>

\* slotRelease under the slot's mutex.
Release(c) ==
    /\ pc[c] = "at" /\ op[c] = "give"
    /\ ~Locked(ptr[c])
    /\ slot' = [slot EXCEPT ![ptr[c]].inflight = IF @ > 0 THEN @ - 1 ELSE @]
    /\ pc' = [pc EXCEPT ![c] = "idle"]
    /\ exit' = [exit EXCEPT ![c] = NoExit]
    /\ UNCHANGED <<now, limits, table, op, ptr, stamp, check, starts>>

\* slotUsage under the slot's mutex: reading the usage prunes the windows.
ReadUsage(c) ==
    /\ pc[c] = "at" /\ op[c] = "read"
    /\ ~Locked(ptr[c])
    /\ slot' = [slot EXCEPT ![ptr[c]] = Pruned(@)]
    /\ pc' = [pc EXCEPT ![c] = "idle"]
    /\ exit' = [exit EXCEPT ![c] = NoExit]
    /\ UNCHANGED <<now, limits, table, op, ptr, stamp, check, starts>>

Tick ==
    /\ now < MaxTime
    /\ now' = now + 1
    /\ UNCHANGED <<limits, table, slot, pc, op, exit, ptr, stamp, check, starts>>

\* The admin panel saves other limits: rtCfg() returns them from now on.
SetLimits ==
    /\ limits' \in LimitChoices \ {limits}
    /\ UNCHANGED <<now, table, slot, pc, op, exit, ptr, stamp, check, starts>>

Next ==
    \/ \E c \in Callers :
          \/ \E o \in Ops, e \in Exits : Lookup(c, o, e)
          \/ Create(c)
          \/ Begin(c)
          \/ ReadLimit(c)
          \/ Compare(c)
          \/ Refuse(c)
          \/ Acquire(c)
          \/ Release(c)
          \/ ReadUsage(c)
    \/ Tick
    \/ SetLimits

Spec == Init /\ [][Next]_vars

-------------------------------------------------------------------------------
Addresses == Slots \cup {NoSlot}
SlotContents == [inflight : Nat, minuteWin : Seq(Nat), hourWin : Seq(Nat)]

\* The types of the limiter's state: the slot table, the slots, the callers.
TypeOK ==
    /\ now \in Nat
    /\ limits \in LimitChoices
    /\ table \in [Exits -> Addresses]
    /\ slot \in [Slots -> SlotContents]
    /\ pc \in [Callers -> PCs]
    /\ op \in [Callers -> Ops]
    /\ exit \in [Callers -> Exits \cup {NoExit}]
    /\ ptr \in [Callers -> Addresses]
    /\ stamp \in [Callers -> Nat]
    /\ check \in [Callers -> Checks]
    /\ starts \in [Exits -> Seq(Nat)]

\* The caller's acquisition of its exit is still to be released.
Holds(c) == pc[c] = "holding" \/ (pc[c] = "at" /\ op[c] = "give")

Holders(e) == {c \in Callers : exit[c] = e /\ Holds(c)}

\* In flight on an exit is exactly the number of callers that hold it: no
\* acquisition is lost when two callers create the slot of one exit at the
\* same time, and no release happens twice or on another slot, so the guard
\* "if s.inflight > 0" of slotRelease never hides an error.
InflightIsHolders ==
    \A e \in Exits :
        IF table[e] = NoSlot THEN Holders(e) = {}
        ELSE slot[table[e]].inflight = Cardinality(Holders(e))

StartedSince(e, age) ==
    Cardinality({i \in DOMAIN starts[e] : starts[e][i] + age >= now})

Room(limit, used) == limit = 0 \/ used < limit

\* What the three comparisons come to while one record of limits is in force.
Allowed(l, used) == \A k \in {"conc", "rpm", "rph"} : Room(l[k], used[k])

\* Under whatever limits, once its windows are pruned a slot allows a request
\* exactly when the complete record of starts and holders does: whoever
\* pruned a window, when and how often, trySlotAcquire never admits a request
\* too many nor locks an exit out for longer than the limits ask.  This is
\* about what the comparisons are made with, so it names one record of limits
\* for all three; what a save in the middle of them does is the ledger's.
VerdictIsExact ==
    \A e \in Exits, l \in LimitChoices :
        table[e] # NoSlot =>
            (Allowed(l, Used(Pruned(slot[table[e]]))) <=>
                Allowed(l, [conc |-> Cardinality(Holders(e)),
                            rpm  |-> StartedSince(e, MinuteLen),
                            rph  |-> StartedSince(e, HourLen)]))

Deciding(c) == pc[c] \in {"checking", "limited"}

PassedBefore == [conc |-> {}, rpm |-> {"conc"}, rph |-> {"conc", "rpm"},
                 done |-> {"conc", "rpm", "rph"}]

\* The limiter implements the ledger.  Lookups, the creation of slots, reads
\* that prune, ticks of the clock and saves of other limits fall anywhere,
\* also between the six reads of one decision, and still: every admission
\* was found by each of the three limits, as it was when it was read, to have
\* room beside all holders and all starts on record; and every refusal is
\* over a limit found set and, read again, no more than what is used.  It is
\* not claimed that one saved configuration would have decided the same.
Ledger == INSTANCE ExitLedger WITH
              holder <- [c \in Callers |-> IF Holds(c) THEN exit[c] ELSE NoExit],
              asked <- [c \in Callers |->
                  IF ~Deciding(c) THEN NoCall
                  ELSE [exit |-> exit[c], at |-> stamp[c],
                        passed |-> PassedBefore[check[c]],
                        found |-> IF pc[c] = "limited" THEN {check[c]} ELSE {}]]

ImplementsLedger == Ledger!LedgerSpec

===============================================================================
