------------------------------ MODULE ExitChoice ------------------------------
(***************************************************************************)
(* How a request comes by its exit: acquireSlotExcept in gemini.go in all  *)
(* its modes, with the static proxies of the table (pickProxyPreferringExcept *)
(* in proxy.go), the exits of a remote pool (fetchOrStickyRemoteProxyExcept), *)
(* the sticky exit, and what an outcome does to them (recordProxyResult,   *)
(* forceProxyCooldown).  Request takes all this as one step, any exit of   *)
(* Takeable; here it is shown step by step what that step may rely on.     *)
(*                                                                         *)
(* Exits of the remote pool are known by their URL and get a slot of the   *)
(* limiter when they are first seen; their health is kept by URL, that of  *)
(* the static ones by id.  Time passes in steps that end one cooldown.     *)
(* Whether the windows of the limiter refuse an exit is left open, and so  *)
(* is where the round robin begins.                                        *)
(*                                                                         *)
(* A static proxy is picked under proxyMu, one step.  The sticky exit is   *)
(* behind a mutex of its own and set right after the slot was taken; what  *)
(* others do to it in between could as well have come before, so that is   *)
(* one step too.  The health of a remote exit is looked up under a mutex   *)
(* but read behind it, the count and then the time; the count of an exit   *)
(* just fetched with the fetch, which touches nothing of the program.      *)
(***************************************************************************)
EXTENDS Naturals, Sequences, FiniteSets, SequencesExt

CONSTANTS Requests,
          Static,          \* ids of the static proxies
          Urls,            \* what remote pools know
          UrlOf,           \* the URLs of the static proxies
          Direct,          \* exit 0
          None,            \* no exit, no URL
          Settings,        \* the settings to look at: mode (ProxyMode), strategy
                           \* (ProxyStrategy), fallback (FallbackDirect), and pool,
                           \* what the remote pool knows; none if that is empty
          PerIPConcurrent,
          RetryAttempts,   \* also proxyFailThreshold
          MaxSwitches,     \* maxProxySwitches
          MaxFetches       \* maxFetchAttempts

ASSUME ExitAssumption ==
    /\ IsFiniteSet(Requests) /\ IsFiniteSet(Static) /\ IsFiniteSet(Urls)
    /\ DOMAIN UrlOf = Static
    /\ Direct \notin Static /\ None \notin Static \cup {Direct}
    \* ids of the table are positive, slots negative, and neither is a URL
    /\ (Static \cup {Direct, None}) \cap (Nat \cup Urls) = {}
    /\ Settings \subseteq
          [mode : {"direct_only", "static_only", "dynamic_only", "pool_only", "auto"},
           strategy : {"sticky", "round_robin"}, fallback : BOOLEAN, pool : SUBSET Urls]
    /\ PerIPConcurrent \in Nat \ {0} /\ RetryAttempts \in Nat \ {0}
    /\ MaxSwitches \in Nat /\ MaxFetches \in Nat \ {0}

VARIABLES config,   \* the settings, one of Settings
          slots,    \* dynamicProxyMap, dynamicProxyURLs: the URL of each slot
          health,   \* fail counts, and whether the last use was just now
          sticky,   \* lastStickyURL, lastStickyID
          req       \* the local variables of each request

vars == <<config, slots, health, sticky, req>>

Slots == 1 .. Len(slots)
Dynamic == 1 .. Cardinality(Urls)
Exits == Static \cup Dynamic \cup {Direct}
NotSticky == [url |-> None, exit |-> None]

\* What the health of an exit is kept under.
Key(e) == IF e \in Static THEN e ELSE slots[e]
Url(e) == IF e \in Static THEN UrlOf[e] ELSE slots[e]

Idle == [pc |-> "idle",
         prefer |-> None,     \* curPrefer: the exit bound to the account
         excludedIDs |-> {}, excludedURLs |-> {},
         exit |-> None,       \* picked
         url |-> None,        \* the URL being looked at,
         reuse |-> FALSE,     \* and that it is the sticky one
         fetches |-> 0, switch |-> 0, attempt |-> 0,
         hot |-> {}]          \* history: cooling ever since it turned to the pool

Init ==
    /\ config \in Settings
    /\ slots = <<>>
    /\ health = [k \in Static \cup Urls |-> [fails |-> 0, recent |-> FALSE]]
    /\ sticky = NotSticky
    /\ req = [r \in Requests |-> Idle]

-------------------------------------------------------------------------------
\* Health.

\* proxyUsable, and not isDynamicProxyCooling
Usable(k) == health[k].fails < RetryAttempts \/ ~health[k].recent
Cooling == {k \in DOMAIN health : ~Usable(k)}

\* From the threshold on one failure is like another, and below it the time of
\* the last use is of no consequence.
Health(fails) ==
    IF fails < RetryAttempts THEN [fails |-> fails, recent |-> FALSE]
    ELSE [fails |-> RetryAttempts, recent |-> TRUE]

\* The requests as they are after k ceased to cool.
Cooled(k, requests) == [r \in Requests |-> [requests[r] EXCEPT !.hot = @ \ {k}]]

\* The cooldown of an exit is over.
TimePasses ==
    /\ \E k \in Cooling :
         /\ health' = [health EXCEPT ![k].recent = FALSE]
         /\ req' = Cooled(k, req)
    /\ UNCHANGED <<config, slots, sticky>>

-------------------------------------------------------------------------------
\* Picking.

Holders(e) == {r \in Requests : req[r].exit = e}

\* trySlotAcquire may say yes; that it says no is always possible.
Free(e) == Cardinality(Holders(e)) < PerIPConcurrent

\* Where the stages of a pick begin, and what comes after the static proxies
\* and after the remote pool.
FirstStage == CASE config.mode = "direct_only" -> "direct"
                [] config.mode = "dynamic_only" -> "dynamic"
                [] OTHER -> "static"
AfterStatic == IF config.mode = "static_only" THEN "over" ELSE "dynamic"
AfterDynamic ==
    IF config.mode = "auto" /\ (config.fallback \/ Static \cup config.pool = {})
    THEN "direct" ELSE "over"

\* "over": a RateLimitError, or the error of the exits tried before.
Goto(r, pc) == req' = [req EXCEPT ![r] = IF pc = "over" THEN Idle ELSE [@ EXCEPT !.pc = pc]]
Takes(r, e) == req' = [req EXCEPT ![r].exit = e, ![r].pc = "use", ![r].attempt = 0,
                                  ![r].url = None, ![r].reuse = FALSE, ![r].fetches = 0,
                                  ![r].hot = {}]

Begin(r) ==
    /\ req[r].pc = "idle"
    /\ \E prefer \in Static \cup {None} :
         req' = [req EXCEPT ![r] = [Idle EXCEPT !.pc = FirstStage, !.prefer = prefer]]
    /\ UNCHANGED <<config, slots, health, sticky>>

\* The proxies the static pick may choose from.
Pool(r) == {p \in Static \ req[r].excludedIDs : Usable(p)}

\* The exit bound to the account comes first.
PickPreferred(r) ==
    /\ req[r].prefer \in Pool(r) /\ Free(req[r].prefer)
    /\ Takes(r, req[r].prefer)
    /\ UNCHANGED sticky

\* The sticky one is looked for by its URL.
PickSticky(r) ==
    /\ config.strategy = "sticky"
    /\ req[r].prefer = None
    /\ sticky.exit \notin req[r].excludedIDs
    /\ \E p \in Pool(r) : UrlOf[p] = sticky.url /\ Free(p) /\ Takes(r, p)
    /\ UNCHANGED sticky

\* A mutant of Stick: the id stays that of the last sticky exit.
StickUrl(e, url) ==
    sticky' = IF config.strategy = "sticky" THEN [sticky EXCEPT !.url = url] ELSE sticky

\* setStickyProxy, of an exit just taken
Stick(e, url) == sticky' = IF config.strategy = "sticky" THEN [url |-> url, exit |-> e] ELSE sticky

PickRoundRobin(r) ==
    \E p \in Pool(r) : Free(p) /\ Takes(r, p) /\ Stick(p, UrlOf[p])

PickStatic(r) ==
    /\ req[r].pc = "static"
    /\ \/ PickPreferred(r)
       \/ PickSticky(r)
       \/ PickRoundRobin(r)
       \/ Goto(r, AfterStatic) /\ UNCHANGED sticky
    /\ UNCHANGED <<config, slots, health>>

\* The sticky exit is reused if it is one of the remote pool: its exclusion
\* is checked here, its health in the steps that follow.
Dynamically(r) ==
    LET reused == config.strategy = "sticky" /\ sticky.exit \in Slots
        turned == [req EXCEPT ![r].pc = "fetch", ![r].hot = Cooling \cap Urls]
    IN  /\ req[r].pc = "dynamic"
        /\ \/ /\ config.pool = {}
              /\ Goto(r, AfterDynamic)
              /\ UNCHANGED sticky
           \/ /\ config.pool # {} /\ ~reused
              /\ req' = turned
              /\ UNCHANGED sticky
           \/ /\ config.pool # {} /\ reused
              /\ sticky.url \notin req[r].excludedURLs
              /\ req' = [turned EXCEPT ![r].pc = "count", ![r].url = sticky.url,
                                       ![r].reuse = TRUE]
              /\ UNCHANGED sticky
           \/ /\ config.pool # {} /\ reused
              /\ sticky.url \in req[r].excludedURLs
              /\ req' = turned
              /\ sticky' = NotSticky
        /\ UNCHANGED <<config, slots, health>>

\* isDynamicProxyCooling reads the count, and the time only behind that.
AfterCount(u) == IF health[u].fails < RetryAttempts THEN "acquire" ELSE "time"

CheckCount(r) ==
    /\ req[r].pc = "count"
    /\ Goto(r, AfterCount(req[r].url))
    /\ UNCHANGED <<config, slots, health, sticky>>

Acceptable(r, u) == u \notin req[r].excludedURLs

\* fetchRemoteProxy: the remote pool names an exit, any it likes, or fails.
Fetch(r) ==
    /\ req[r].pc = "fetch"
    /\ \/ Goto(r, AfterDynamic)
       \/ /\ req[r].fetches < MaxFetches
          /\ \E u \in config.pool :
               req' = [req EXCEPT
                          ![r].fetches = @ + 1,
                          ![r].pc = IF Acceptable(r, u) THEN AfterCount(u) ELSE "fetch",
                          ![r].url = IF Acceptable(r, u) THEN u ELSE None]
    /\ UNCHANGED <<config, slots, health, sticky>>

\* A mutant of CheckTime: the sticky exit is taken however it is.
CheckTimeOfFetched(r) ==
    /\ req[r].pc = "time"
    /\ IF health[req[r].url].recent /\ ~req[r].reuse
       THEN req' = [req EXCEPT ![r].pc = "fetch", ![r].url = None]
       ELSE Goto(r, "acquire")
    /\ UNCHANGED <<config, slots, health, sticky>>

\* An exit that cools is passed over.  If it is the sticky one, that is
\* cleared, whatever it is by now.
CheckTime(r) ==
    /\ req[r].pc = "time"
    /\ IF health[req[r].url].recent
       THEN /\ req' = [req EXCEPT ![r].pc = "fetch", ![r].url = None, ![r].reuse = FALSE]
            /\ sticky' = IF req[r].reuse THEN NotSticky ELSE sticky
       ELSE /\ Goto(r, "acquire")
            /\ UNCHANGED sticky
    /\ UNCHANGED <<config, slots, health>>

\* A mutant of GetSlot: a new slot each time.
GetNewSlot(u) == Len(slots) + 1

\* getDynamicSlotID: the slot of a URL seen before, or the next.
GetSlot(u) == IF u \in ToSet(slots) THEN CHOOSE n \in Slots : slots[n] = u ELSE Len(slots) + 1

Acquire(r) ==
    LET u == req[r].url
        n == GetSlot(u)
    IN  /\ req[r].pc = "acquire"
        /\ slots' = IF n \in Slots THEN slots ELSE Append(slots, u)
        /\ \/ /\ Free(n)
              /\ Takes(r, n)
              /\ IF req[r].reuse THEN UNCHANGED sticky ELSE Stick(n, u)
           \/ /\ req' = [req EXCEPT ![r].pc = "fetch", ![r].url = None, ![r].reuse = FALSE]
              /\ UNCHANGED sticky
        /\ UNCHANGED <<config, health>>

PickDirect(r) ==
    /\ req[r].pc = "direct"
    /\ \/ Direct \notin req[r].excludedIDs /\ Free(Direct) /\ Takes(r, Direct)
       \/ Goto(r, "over")
    /\ UNCHANGED <<config, slots, health, sticky>>

-------------------------------------------------------------------------------
\* Outcomes.

\* recordProxyResult of a success; nothing is recorded for the direct exit.
Succeeds(r) ==
    LET e == req[r].exit
    IN  /\ req[r].pc = "use"
        /\ IF e = Direct
           THEN health' = health /\ req' = [req EXCEPT ![r] = Idle]
           ELSE /\ health' = [health EXCEPT ![Key(e)] = Health(0)]
                /\ req' = Cooled(Key(e), [req EXCEPT ![r] = Idle])
        /\ UNCHANGED <<config, slots, sticky>>

\* An attempt fails, or an attachment cannot be uploaded: recordProxyResult
\* or forceProxyCooldown clears the sticky exit before it counts anything.
Fails(r) ==
    /\ req[r].pc = "use"
    /\ \E next \in {"failed", "force"} : Goto(r, next)
    /\ sticky' = IF req[r].exit = Direct THEN sticky ELSE NotSticky
    /\ UNCHANGED <<config, slots, health>>

\* The failure is counted.  The attempt is repeated, or the request ends (text
\* was passed on, or there were enough exits), or the exit is given up: then
\* forceProxyCooldown clears the sticky exit again.  That is left in this step,
\* since a pick between the two could as well come before both.
Counted(r) ==
    LET e == req[r].exit
    IN  /\ req[r].pc = "failed"
        /\ health' = IF e = Direct THEN health
                     ELSE [health EXCEPT ![Key(e)] = Health(health[Key(e)].fails + 1)]
        /\ \/ /\ req[r].attempt + 1 < RetryAttempts
              /\ req' = [req EXCEPT ![r].attempt = @ + 1, ![r].pc = "use"]
              /\ UNCHANGED sticky
           \/ /\ req' = [req EXCEPT ![r] = Idle]
              /\ UNCHANGED sticky
           \/ /\ req[r].attempt + 1 = RetryAttempts
              /\ req[r].switch < MaxSwitches
              /\ Goto(r, "force")
              /\ sticky' = IF e = Direct THEN sticky ELSE NotSticky
        /\ UNCHANGED <<config, slots>>

\* The exit is made to cool, released, and excluded from the next pick, which
\* no longer asks for the exit bound to the account.
Forced(r) ==
    LET e == req[r].exit
        forced == IF e = Direct THEN health
                  ELSE [health EXCEPT ![Key(e)] = Health(RetryAttempts)]
    IN  /\ req[r].pc = "force"
        /\ health' = forced
        /\ req' = IF req[r].switch = MaxSwitches THEN [req EXCEPT ![r] = Idle]
                  ELSE [req EXCEPT
                           ![r].pc = FirstStage,
                           ![r].prefer = None,
                           ![r].exit = None,
                           ![r].switch = @ + 1,
                           ![r].excludedIDs = @ \cup {e},
                           ![r].excludedURLs = IF e = Direct THEN @ ELSE @ \cup {Url(e)}]
        /\ UNCHANGED <<config, slots, sticky>>

Pick(r) == \/ Begin(r) \/ PickStatic(r) \/ Dynamically(r) \/ Fetch(r) \/ CheckCount(r)
           \/ CheckTime(r) \/ Acquire(r) \/ PickDirect(r)
Outcome(r) == Succeeds(r) \/ Fails(r) \/ Counted(r) \/ Forced(r)

Next == TimePasses \/ \E r \in Requests : Pick(r) \/ Outcome(r)

Spec == Init /\ [][Next]_vars

-------------------------------------------------------------------------------
(* Properties *)

\* The types of the state, and that the sticky exit is what it was set to be:
\* a URL and an id that belong together (setStickyProxy, getStickyProxy).
TypeOK ==
    /\ config \in Settings
    /\ slots \in Seq(Urls)
    /\ health \in [Static \cup Urls -> [fails : 0 .. RetryAttempts, recent : BOOLEAN]]
    /\ sticky = NotSticky \/ (sticky.exit \in Static \cup Slots /\ sticky.url = Url(sticky.exit))
    /\ \A r \in Requests :
         /\ req[r].exit \in Exits \cup {None}
         /\ req[r].exit # None <=> req[r].pc \in {"use", "failed", "force"}
         /\ req[r].url # None <=> req[r].pc \in {"count", "time", "acquire"}
         /\ req[r].excludedIDs \subseteq Exits /\ req[r].excludedURLs \subseteq Urls \cup {UrlOf[p] : p \in Static}
         /\ req[r].switch \in 0 .. MaxSwitches /\ req[r].fetches \in 0 .. MaxFetches
         /\ req[r].hot \subseteq Urls

\* An exit of the remote pool is one exit for the limiter, however many requests
\* fetch it at the same time: there are never more of them on it than an
\* address may have (getDynamicSlotID).
OneSlotPerUrl ==
    \A u \in Urls :
        Cardinality({r \in Requests : req[r].exit \in Slots /\ Url(req[r].exit) = u})
            <= PerIPConcurrent

\* A request is given no exit that it has given up before, under the same id;
\* no static proxy that cools; and no exit of the remote pool that has been
\* cooling ever since the request turned to the pool.  What others do to the
\* health and to the sticky exit meanwhile does not matter (acquireSlotExcept,
\* isDynamicProxyCooling).
GivenAFreshExit ==
    [][\A r \in Requests :
          req[r].exit = None /\ req'[r].exit # None =>
              LET e == req'[r].exit
              IN  /\ e \notin req[r].excludedIDs
                  /\ e \in Static => Usable(e)
                  /\ e \in Dynamic => slots'[e] \notin req[r].hot]_vars

===============================================================================
