------------------------------ MODULE ExitLedger ------------------------------
(***************************************************************************)
(* What the per-exit limiter of ratelimit.go promises, with nothing of how *)
(* it keeps the promise.  An exit is an IP address requests leave through: *)
(* id 0 is the host itself, every other id a proxy.  The ledger remembers  *)
(* every request that was ever started on an exit.                         *)
(*                                                                         *)
(* A request that asks for an exit is decided on its own, one request of   *)
(* an exit at a time, and as of the time it asked.  The decision is not a  *)
(* moment: an administrator may save other limits in the middle of it.     *)
(* What is promised is that every one of the three limits, as it was at    *)
(* some moment of the decision, left room beside all that the ledger has;  *)
(* the three moments may belong to different saves.  And a request is sent *)
(* away only over a limit that was found set during the decision and that, *)
(* at the moment of the comparison, is no more than what is used.  A limit *)
(* lifted between the two is compared as 0 and sends the request away.     *)
(***************************************************************************)
EXTENDS Naturals, Sequences, FiniteSets

CONSTANTS Exits,        \* ids of the exits
          Callers,      \* whoever takes an exit: a request, a keep-alive, a check
          NoExit,       \* the caller holds nothing
          NoCall,       \* the caller is not asking for an exit
          LimitChoices, \* limit records an administrator may set
          MinuteLen,    \* length of the minute window, in clock ticks
          HourLen,      \* length of the hour window, in clock ticks
          MaxTime       \* bound: the clock stops here

VARIABLES now,     \* the clock
          limits,  \* [conc, rpm, rph] in force; 0 means unlimited
          holder,  \* holder[c]: the exit caller c holds, or NoExit
          asked,   \* asked[c]: the decision about caller c's request, or NoCall
          starts   \* starts[e]: the times at which requests started on e

ledgerVars == <<now, limits, holder, asked, starts>>

Kinds == {"conc", "rpm", "rph"}

HoldersOf(e) == {c \in Callers : holder[c] = e}

\* How many requests had started on e within age of the time at.
StartedBy(e, age, at) ==
    Cardinality({i \in DOMAIN starts[e] : starts[e][i] + age >= at})

\* What the ledger has against each limit of exit e at the time at.
UsedOf(e, at) == [conc |-> Cardinality(HoldersOf(e)),
                  rpm  |-> StartedBy(e, MinuteLen, at),
                  rph  |-> StartedBy(e, HourLen, at)]

UsedBy(c) == UsedOf(asked[c].exit, asked[c].at)

LedgerInit ==
    /\ now = 0
    /\ limits \in LimitChoices
    /\ holder = [c \in Callers |-> NoExit]
    /\ asked = [c \in Callers |-> NoCall]
    /\ starts = [e \in Exits |-> <<>>]

Ask(c, e) ==
    /\ holder[c] = NoExit
    /\ \A d \in Callers : asked[d] # NoCall => d # c /\ asked[d].exit # e
    /\ asked' = [asked EXCEPT ![c] =
                    [exit |-> e, at |-> now, passed |-> {}, found |-> {}]]
    /\ UNCHANGED <<now, limits, holder, starts>>

\* A limit is found set.
Find(c, k) ==
    /\ asked[c] # NoCall
    /\ limits[k] > 0
    /\ asked' = [asked EXCEPT ![c].found = {k}]
    /\ UNCHANGED <<now, limits, holder, starts>>

\* A limit, as it is now, leaves room.
Pass(c, k) ==
    /\ asked[c] # NoCall
    /\ limits[k] = 0 \/ UsedBy(c)[k] < limits[k]
    /\ asked' = [asked EXCEPT ![c] =
                    [exit |-> @.exit, at |-> @.at,
                     passed |-> @.passed \cup {k}, found |-> {}]]
    /\ UNCHANGED <<now, limits, holder, starts>>

\* All three left room: the request starts, as of the time it asked.
Admit(c) ==
    /\ asked[c] # NoCall
    /\ asked[c].passed = Kinds
    /\ holder' = [holder EXCEPT ![c] = asked[c].exit]
    /\ starts' = [starts EXCEPT ![asked[c].exit] = Append(@, asked[c].at)]
    /\ asked' = [asked EXCEPT ![c] = NoCall]
    /\ UNCHANGED <<now, limits>>

SendAway(c) ==
    /\ asked[c] # NoCall
    /\ \E k \in asked[c].found : limits[k] <= UsedBy(c)[k]
    /\ asked' = [asked EXCEPT ![c] = NoCall]
    /\ UNCHANGED <<now, limits, holder, starts>>

GiveBack(c) ==
    /\ holder[c] # NoExit
    /\ holder' = [holder EXCEPT ![c] = NoExit]
    /\ UNCHANGED <<now, limits, asked, starts>>

ClockTicks ==
    /\ now < MaxTime
    /\ now' = now + 1
    /\ UNCHANGED <<limits, holder, asked, starts>>

LimitsChange ==
    /\ limits' \in LimitChoices
    /\ UNCHANGED <<now, holder, asked, starts>>

LedgerNext ==
    \/ \E c \in Callers, e \in Exits : Ask(c, e)
    \/ \E c \in Callers, k \in Kinds : Find(c, k) \/ Pass(c, k)
    \/ \E c \in Callers : Admit(c) \/ SendAway(c) \/ GiveBack(c)
    \/ ClockTicks
    \/ LimitsChange

LedgerSpec == LedgerInit /\ [][LedgerNext]_ledgerVars

===============================================================================
