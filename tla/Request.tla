-------------------------------- MODULE Request --------------------------------
(***************************************************************************)
(* One upstream request from streamGenerateWithFiles in gemini.go to its   *)
(* end, and several of them at once: choosing a cookie account, taking an  *)
(* exit, obtaining the XSRF token (rotating a cookie that fails, moving on *)
(* to the next account), uploading attachments, sending, retrying, and     *)
(* changing to another exit when one does not work.                        *)
(*                                                                         *)
(* Shared between requests: the accounts' health and the proxies' health   *)
(* (each update one step here; their statements one by one are the matter  *)
(* of AccountPool and ProxyPool) and the requests in flight per exit.      *)
(*                                                                         *)
(* Taking an exit: which usable proxy is tried first (the bound one, the   *)
(* sticky one, the round robin) and whether a minute or hour window        *)
(* refuses it are left open, so any usable proxy with a free place may be  *)
(* taken and taking may fail although places are free.  The account's      *)
(* bound exit, which only steers that choice, has no variable.             *)
(*                                                                         *)
(* The network: every call to Google may fail.  The variable live holds    *)
(* the accounts whose session Google would accept; a rotation may revive   *)
(* one that expired.                                                       *)
(***************************************************************************)
EXTENDS Naturals, Sequences, FiniteSets, SequencesExt

CONSTANTS Requests, Accounts, Proxies,
          Direct,          \* exit 0: the host's own address
          None,            \* no account, no exit
          Mode,            \* ProxyMode
          FallbackDirect, FallbackAnon,
          PerIPConcurrent, \* > 0: the other limits are windows, left open
          RetryAttempts, MaxProxySwitches,
          MaxCookieTries,        \* maxCookieTries
          MaxCookieAuthFailures, \* maxCookieAuthFailures
          Jobs             \* what clients ask for

Exits == Proxies \cup {Direct}

\* login: an account is wanted (not anonFirstEligible).  pending: how many
\* attachments.  long: the prompt exceeds MaxPromptBytes.  stream: onDelta.
Job == [login : BOOLEAN, pending : Nat, long : BOOLEAN, stream : BOOLEAN]

ASSUME ConstantsAssumption ==
    /\ IsFiniteSet(Requests)
    /\ Direct \notin Proxies
    /\ None \notin Exits \cup Accounts
    /\ Mode \in {"direct_only", "static_only", "pool_only", "auto"}
    /\ FallbackDirect \in BOOLEAN /\ FallbackAnon \in BOOLEAN
    /\ PerIPConcurrent \in Nat \ {0}
    /\ RetryAttempts \in Nat \ {0}
    /\ MaxProxySwitches \in Nat
    /\ MaxCookieTries \in Nat \ {0}
    /\ MaxCookieAuthFailures \in Nat \ {0}
    /\ Jobs \subseteq Job
    /\ \A job \in Jobs : job.pending > 0 => job.login

VARIABLES req,      \* req[r]: the local variables of request r
          inflight, \* inflight[e]: the in-flight count of e's slot
          proxy,    \* proxy[p]: [fails, resting]
          account,  \* account[a]: [enabled, fails]
          live      \* accounts whose session Google accepts

vars == <<req, inflight, proxy, account, live>>

PCs == {"pick", "exit", "token", "rotate", "rotating", "recheck", "charge",
        "next", "prepare", "send", "done", "failed"}
Ended == {"done", "failed"}

NewRequest(job) ==
    [pc |-> "pick", job |-> job,
     acct |-> None,         \* acct: the account being tried
     cookie |-> None,       \* cookieStr: whose cookie is sent, None = anonymous
     cookieID |-> None,     \* cookieID: whom the outcome is credited to
     exit |-> None,         \* picked, while slotHeld
     rotExit |-> None,      \* the exit rotateAccount holds meanwhile
     excluded |-> {},       \* excludedIDs
     tried |-> {},
     cookieErr |-> FALSE,   \* lastCookieErr # nil
     switch |-> 0, attempt |-> 0, xsrfRetried |-> FALSE,
     uploaded |-> 0,        \* files: the attachments in it,
     contexts |-> 0,        \* and the prompts turned into message.txt
     emitted |-> FALSE,     \* the client has been sent text
     rejected |-> FALSE,    \* lastStatus is 401 or 403
     sends |-> 0,           \* history: requests sent upstream
     charged |-> <<>>]      \* history: accounts given a failure

Init ==
    /\ \E jobs \in [Requests -> Jobs] :
          req = [r \in Requests |-> NewRequest(jobs[r])]
    /\ inflight = [e \in Exits |-> 0]
    /\ proxy = [p \in Proxies |-> [fails |-> 0, resting |-> FALSE]]
    /\ account = [a \in Accounts |-> [enabled |-> TRUE, fails |-> 0]]
    /\ live \in SUBSET Accounts

-------------------------------------------------------------------------------
\* Exits.

\* proxyUsable: under the failure threshold, or the cooldown is over.
Usable(p) == proxy[p].fails < RetryAttempts \/ ~proxy[p].resting

\* A mutant of Takeable: exits that were given up are not skipped.
TakeableAgain(excluded) ==
    {p \in Proxies : inflight[p] < PerIPConcurrent /\ Usable(p)}

\* The exits acquireSlotExcept may come back with.
Takeable(excluded) ==
    LET free == {e \in Exits \ excluded : inflight[e] < PerIPConcurrent}
        pool == {p \in Proxies \cap free : Usable(p)}
        direct == {Direct} \cap free
    IN  CASE Mode = "direct_only" -> direct
          [] Mode \in {"static_only", "pool_only"} -> pool
          [] Mode = "auto" -> IF Proxies = {} \/ FallbackDirect
                              THEN pool \cup direct ELSE pool

\* What recordProxyResult and forceProxyCooldown leave: from the threshold
\* on, every failure is the same and starts the cooldown again.  Nothing is
\* recorded for Direct.
Recorded(e, fails) ==
    [p \in Proxies |->
        CASE p # e -> proxy[p]
          [] p = e /\ fails < RetryAttempts -> [fails |-> fails, resting |-> FALSE]
          [] OTHER -> [fails |-> RetryAttempts, resting |-> TRUE]]

Failed(e) == IF e \in Proxies THEN Recorded(e, proxy[e].fails + 1) ELSE proxy

\* releaseSlot
FreedBy(e) == [inflight EXCEPT ![e] = @ - 1]

-------------------------------------------------------------------------------
\* Accounts.

\* pickCookieAccountExcept: enabled, not yet tried, fewest failures; ties go
\* by last_used_at, which is left open.
Pickable(tried) ==
    LET open == {a \in Accounts \ tried : account[a].enabled}
    IN  {a \in open : \A b \in open : account[a].fails <= account[b].fails}

Picked(tried, a) ==
    IF Pickable(tried) = {} THEN a = None ELSE a \in Pickable(tried)

\* markCookieByStatus with 401: one more failure, and autoDisableIfDead.
Charged(a) ==
    LET fails == account[a].fails + 1
    IN  [account EXCEPT ![a].fails = fails,
                        ![a].enabled = @ /\ fails < MaxCookieAuthFailures]

\* markCookieByStatus with 200.
Cleared(a) == IF a = None THEN account ELSE [account EXCEPT ![a].fails = 0]

-------------------------------------------------------------------------------
\* Ways to leave an exit.

\* A return: the deferred releaseCurrentSlot.
End(r, outcome) ==
    /\ req' = [req EXCEPT ![r] = [outcome EXCEPT !.exit = None]]
    /\ inflight' = IF req[r].exit = None THEN inflight ELSE FreedBy(req[r].exit)

\* The return after the loop over exits, which charges the credited account
\* if the last status was a rejection; now: the request as of this step.
Finish(r, now) ==
    IF now.cookieID # None /\ now.rejected
    THEN /\ account' = Charged(now.cookieID)
         /\ End(r, [now EXCEPT !.pc = "failed",
                               !.charged = Append(@, now.cookieID)])
    ELSE /\ account' = account
         /\ End(r, [now EXCEPT !.pc = "failed"])

\* A mutant of SwitchExit: the exit is released and still held.
SwitchStillHeld(r, now) ==
    /\ req' = [req EXCEPT ![r] = [now EXCEPT !.pc = "exit",
                                             !.excluded = @ \cup {now.exit},
                                             !.switch = @ + 1]]
    /\ inflight' = FreedBy(now.exit)

\* Giving an exit up for another one: excluded and released; the callers
\* force its cooldown.
SwitchExit(r, now) ==
    /\ req' = [req EXCEPT ![r] = [now EXCEPT !.pc = "exit",
                                             !.exit = None,
                                             !.excluded = @ \cup {now.exit},
                                             !.switch = @ + 1]]
    /\ inflight' = FreedBy(now.exit)

-------------------------------------------------------------------------------
\* Actions of a request.

PickAccount(r) ==
    /\ req[r].pc = "pick"
    /\ \E a \in Accounts \cup {None} :
          /\ IF req[r].job.login THEN Picked({}, a) ELSE a = None
          /\ req' = [req EXCEPT ![r].acct = a, ![r].pc = "exit"]
    /\ UNCHANGED <<inflight, proxy, account, live>>

\* Whether the account loop is entered or goes on.
AccountToTry(q) ==
    q.cookie = None /\ q.acct # None /\ Cardinality(q.tried) < MaxCookieTries

TakeExit(r) ==
    /\ req[r].pc = "exit"
    /\ \E e \in Takeable(req[r].excluded) :
          /\ req' = [req EXCEPT
                        ![r].exit = e,
                        ![r].pc = IF AccountToTry(req[r]) THEN "token" ELSE "prepare"]
          /\ inflight' = [inflight EXCEPT ![e] = @ + 1]
    /\ UNCHANGED <<proxy, account, live>>

\* A mutant of NoExit: after a switch, it waits for an exit.
NoExitWaits(r) ==
    /\ req[r].pc = "exit" /\ req[r].switch = 0
    /\ Finish(r, req[r])
    /\ UNCHANGED <<proxy, live>>

\* No exit: the first time the caller gets the limiter's error, later the
\* error of the exits already tried.
NoExit(r) ==
    /\ req[r].pc = "exit"
    /\ Finish(r, req[r])
    /\ UNCHANGED <<proxy, live>>

\* getXSRF(acct.Cookie): a cached token, or one fetched through the exit.
FetchToken(r) ==
    LET q == [req[r] EXCEPT !.tried = @ \cup {req[r].acct},
                            !.cookieID = req[r].acct]
    IN  /\ req[r].pc = "token"
        /\ \/ req' = [req EXCEPT ![r] = [q EXCEPT !.cookie = q.acct, !.pc = "prepare"]]
           \/ req' = [req EXCEPT ![r] = [q EXCEPT !.pc = "rotate"]]
        /\ UNCHANGED <<inflight, proxy, account, live>>

\* rotateAccount takes an exit of its own beside the one held, or gets none.
RotateTakesExit(r) ==
    /\ req[r].pc = "rotate"
    /\ \E e \in Takeable({}) :
          /\ req' = [req EXCEPT ![r].rotExit = e, ![r].pc = "rotating"]
          /\ inflight' = [inflight EXCEPT ![e] = @ + 1]
    /\ UNCHANGED <<proxy, account, live>>

RotateNoExit(r) ==
    /\ req[r].pc = "rotate"
    /\ req' = [req EXCEPT ![r].pc = "charge"]
    /\ UNCHANGED <<inflight, proxy, account, live>>

\* A mutant of RotateEnds: a failed rotation keeps its exit.
RotateLeaks(r) ==
    /\ req[r].pc = "rotating"
    /\ \/ /\ req' = [req EXCEPT ![r].rotExit = None, ![r].pc = "recheck"]
          /\ inflight' = FreedBy(req[r].rotExit)
       \/ /\ req' = [req EXCEPT ![r].rotExit = None, ![r].pc = "charge"]
          /\ UNCHANGED inflight
    /\ UNCHANGED <<proxy, account, live>>

RotateEnds(r) ==
    /\ req[r].pc = "rotating"
    /\ \/ /\ req' = [req EXCEPT ![r].rotExit = None, ![r].pc = "recheck"]
          /\ live' \in {live, live \cup {req[r].acct}}
       \/ /\ req' = [req EXCEPT ![r].rotExit = None, ![r].pc = "charge"]
          /\ UNCHANGED live
    /\ inflight' = FreedBy(req[r].rotExit)
    /\ UNCHANGED <<proxy, account>>

\* getXSRF(fresh.Cookie), again through the exit held.
Recheck(r) ==
    /\ req[r].pc = "recheck"
    /\ \/ req' = [req EXCEPT ![r].cookie = req[r].acct, ![r].pc = "prepare"]
       \/ req' = [req EXCEPT ![r].pc = "charge"]
    /\ UNCHANGED <<inflight, proxy, account, live>>

\* Whatever the reason there is no token, the account gets a 401.
ChargeAccount(r) ==
    /\ req[r].pc = "charge"
    /\ account' = Charged(req[r].acct)
    /\ req' = [req EXCEPT ![r].cookieErr = TRUE, ![r].pc = "next",
                          ![r].charged = Append(@, req[r].acct)]
    /\ UNCHANGED <<inflight, proxy, live>>

\* A mutant of NextAccount: the accounts already tried are not skipped.
NextAccountAny(r) ==
    /\ req[r].pc = "next"
    /\ \E a \in Accounts \cup {None} :
          /\ Picked({}, a)
          /\ LET q == [req[r] EXCEPT !.acct = a]
             IN  req' = [req EXCEPT ![r] =
                    [q EXCEPT !.pc = IF AccountToTry(q) THEN "token" ELSE "prepare"]]
    /\ UNCHANGED <<inflight, proxy, account, live>>

\* pickCookieAccountExcept(tried)
NextAccount(r) ==
    /\ req[r].pc = "next"
    /\ \E a \in Accounts \cup {None} :
          /\ Picked(req[r].tried, a)
          /\ LET q == [req[r] EXCEPT !.acct = a]
             IN  req' = [req EXCEPT ![r] =
                    [q EXCEPT !.pc = IF AccountToTry(q) THEN "token" ELSE "prepare"]]
    /\ UNCHANGED <<inflight, proxy, account, live>>

-------------------------------------------------------------------------------
\* Preparing what is sent.

AllAccountsFailed(q) == q.cookieErr /\ q.cookie = None
ToUpload(q) == q.job.pending > 0 /\ q.uploaded + q.contexts = 0

\* The returns with an error: no account left and no leave to go on without,
\* attachments or a long prompt without an account, message.txt not uploaded.
PrepareFails(r) ==
    LET q == req[r]
    IN  /\ q.pc = "prepare"
        /\ \/ AllAccountsFailed(q) /\ ~FallbackAnon
           \/ ToUpload(q) /\ q.cookie = None
           \/ q.job.long
        /\ End(r, [q EXCEPT
               !.pc = "failed",
               !.cookieID = IF AllAccountsFailed(q) /\ FallbackAnon THEN None ELSE @,
               !.uploaded = IF ToUpload(q) /\ q.cookie # None THEN q.job.pending ELSE @])
        /\ UNCHANGED <<proxy, account, live>>

\* Attachment k + 1 is not uploaded: the k before it stay in files.
UploadFails(r) ==
    LET q == req[r]
    IN  /\ q.pc = "prepare"
        /\ ToUpload(q) /\ q.cookie # None
        /\ \E k \in 0 .. q.job.pending - 1 :
              LET now == [q EXCEPT !.uploaded = k]
              IN  IF q.switch < MaxProxySwitches
                  THEN SwitchExit(r, now)
                  ELSE End(r, [now EXCEPT !.pc = "failed"])
        /\ proxy' = Recorded(q.exit, RetryAttempts)
        /\ UNCHANGED <<account, live>>

\* A mutant of Prepared: going on anonymously keeps the last account's credit.
PreparedKeepingCredit(r) ==
    LET q == req[r]
    IN  /\ q.pc = "prepare"
        /\ AllAccountsFailed(q) => FallbackAnon
        /\ ToUpload(q) \/ q.job.long => q.cookie # None
        /\ req' = [req EXCEPT ![r] =
              [q EXCEPT !.uploaded = IF ToUpload(q) THEN q.job.pending ELSE @,
                        !.contexts = IF q.job.long THEN @ + 1 ELSE @,
                        !.attempt = 0, !.xsrfRetried = FALSE, !.pc = "send"]]
        /\ UNCHANGED <<inflight, proxy, account, live>>

Prepared(r) ==
    LET q == req[r]
    IN  /\ q.pc = "prepare"
        /\ AllAccountsFailed(q) => FallbackAnon
        /\ ToUpload(q) \/ q.job.long => q.cookie # None
        /\ req' = [req EXCEPT ![r] =
              [q EXCEPT !.cookieID = IF AllAccountsFailed(q) THEN None ELSE @,
                        !.uploaded = IF ToUpload(q) THEN q.job.pending ELSE @,
                        !.contexts = IF q.job.long THEN @ + 1 ELSE @,
                        !.attempt = 0, !.xsrfRetried = FALSE, !.pc = "send"]]
        /\ UNCHANGED <<inflight, proxy, account, live>>

-------------------------------------------------------------------------------
\* Sending.

\* A 200 with a content frame.
Answered(r) ==
    /\ req[r].pc = "send"
    /\ End(r, [req[r] EXCEPT !.pc = "done", !.sends = @ + 1])
    /\ proxy' = Recorded(req[r].exit, 0)
    /\ account' = Cleared(req[r].cookieID)
    /\ UNCHANGED live

\* A 400 that blames the token, and a new token: sent again, not counted.  That
\* such an answer has no text in it is taken of Google: the code does not ask.
XsrfRetry(r) ==
    /\ req[r].pc = "send"
    /\ req[r].cookie # None /\ ~req[r].xsrfRetried
    /\ req' = [req EXCEPT ![r].xsrfRetried = TRUE, ![r].sends = @ + 1]
    /\ UNCHANGED <<inflight, proxy, account, live>>

\* How an attempt fails: no whole answer, which keeps the status of the attempt
\* before, a rejection or another status.  In each case the client of a stream
\* may have been passed on text before.
Outcomes(q) ==
    {o \in [emitted : BOOLEAN, rejected : BOOLEAN] :
        /\ o.emitted => q.job.stream
        /\ o.rejected => q.rejected \/ q.cookie \notin live}

\* A mutant of MayResend: text already passed on does not stop the retry.
ResendAfterText(now) == now.attempt + 1 < RetryAttempts

\* Whether a failed attempt is sent again through this exit, or another one.
MayResend(now) == ~now.emitted /\ now.attempt + 1 < RetryAttempts
MaySwitch(now) == ~now.emitted /\ ~MayResend(now) /\ now.switch < MaxProxySwitches

AttemptFails(r) ==
    /\ req[r].pc = "send"
    /\ \E o \in Outcomes(req[r]) :
          LET now == [req[r] EXCEPT !.emitted = o.emitted, !.rejected = o.rejected,
                                    !.sends = @ + 1]
          IN  \/ /\ MayResend(now)
                 /\ req' = [req EXCEPT ![r] = [now EXCEPT !.attempt = @ + 1]]
                 /\ proxy' = Failed(now.exit)
                 /\ UNCHANGED <<inflight, account>>
              \/ /\ MaySwitch(now)
                 /\ SwitchExit(r, now)
                 /\ proxy' = Recorded(now.exit, RetryAttempts)
                 /\ UNCHANGED account
              \/ /\ ~MayResend(now) /\ ~MaySwitch(now)
                 /\ Finish(r, now)
                 /\ proxy' = Failed(now.exit)
    /\ UNCHANGED live

-------------------------------------------------------------------------------
Step(r) ==
    \/ PickAccount(r) \/ TakeExit(r) \/ NoExit(r)
    \/ FetchToken(r) \/ RotateTakesExit(r) \/ RotateNoExit(r) \/ RotateEnds(r)
    \/ Recheck(r) \/ ChargeAccount(r) \/ NextAccount(r)
    \/ PrepareFails(r) \/ UploadFails(r) \/ Prepared(r)
    \/ Answered(r) \/ XsrfRetry(r) \/ AttemptFails(r)

\* ProxyCooldownMin minutes after a proxy's last failure.
CooldownEnds(p) ==
    /\ proxy[p].resting
    /\ proxy' = [proxy EXCEPT ![p].resting = FALSE]
    /\ UNCHANGED <<req, inflight, account, live>>

SessionExpires(a) ==
    /\ a \in live
    /\ live' = live \ {a}
    /\ UNCHANGED <<req, inflight, proxy, account>>

Next ==
    \/ \E r \in Requests : Step(r)
    \/ \E p \in Proxies : CooldownEnds(p)
    \/ \E a \in Accounts : SessionExpires(a)

Spec == Init /\ [][Next]_vars

\* Every call of a request returns: the clients have timeouts, and the
\* limiter answers instead of making its caller wait.
FairSpec == Spec /\ \A r \in Requests : WF_vars(Step(r))

-------------------------------------------------------------------------------
RequestState ==
    [pc : PCs, job : Jobs,
     acct : Accounts \cup {None}, cookie : Accounts \cup {None},
     cookieID : Accounts \cup {None},
     exit : Exits \cup {None}, rotExit : Exits \cup {None},
     excluded : SUBSET Exits, tried : SUBSET Accounts,
     cookieErr : BOOLEAN, switch : Nat, attempt : Nat,
     xsrfRetried : BOOLEAN, uploaded : Nat, contexts : Nat,
     emitted : BOOLEAN, rejected : BOOLEAN, sends : Nat,
     charged : Seq(Accounts)]

TypeOK ==
    /\ req \in [Requests -> RequestState]
    /\ inflight \in [Exits -> Nat]
    /\ proxy \in [Proxies -> [fails : Nat, resting : BOOLEAN]]
    /\ account \in [Accounts -> [enabled : BOOLEAN, fails : Nat]]
    /\ live \in SUBSET Accounts

\* The places taken at an exit are the requests that use it, as their own
\* exit or for a rotation on the way: none is leaked by an error return, an
\* exit change or a nested rotation, and none is given back twice.
HoldersOf(e) ==
    {<<r, "exit">> : r \in {q \in Requests : req[q].exit = e}}
    \cup {<<r, "rotation">> : r \in {q \in Requests : req[q].rotExit = e}}
SlotBalance ==
    /\ \A e \in Exits : inflight[e] = Cardinality(HoldersOf(e))
    /\ \A r \in Requests : req[r].pc \in Ended =>
          req[r].exit = None /\ req[r].rotExit = None

\* An exit that was given up is not taken again by the same request, so that
\* every change of exit counts.
NeverBackToAnExit ==
    \A r \in Requests :
        /\ req[r].exit \notin req[r].excluded
        /\ Cardinality(req[r].excluded) = req[r].switch

\* What is sent without an account although one had been picked was allowed
\* to be by FallbackAnon; attachments are never sent without one; and the
\* outcome is credited to the account whose cookie was sent, to nobody else.
CreditAndCookieAgree ==
    \A r \in Requests : req[r].pc = "send" =>
        /\ req[r].cookie = req[r].cookieID
        /\ req[r].cookie = None =>
              /\ req[r].uploaded + req[r].contexts = 0
              /\ FallbackAnon \/ req[r].tried = {}

\* One request gives an account at most one failure, however many exits,
\* rotations and attempts it goes through: a third of the way to disabling it.
ChargedOnce == \A r \in Requests : IsInjective(req[r].charged)

\* Once the client has been sent text nothing is sent upstream again: the
\* client would see the beginning of the answer twice.
NoRetryAfterEmission ==
    [][\A r \in Requests : req[r].emitted => req'[r].sends = req[r].sends]_vars

\* Every request ends: no cycle of token retries, account changes and exit
\* changes, and nobody waits for a place.
Terminates == \A r \in Requests : <>(req[r].pc \in Ended)

===============================================================================
