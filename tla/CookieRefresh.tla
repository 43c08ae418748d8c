----------------------------- MODULE CookieRefresh -----------------------------
(***************************************************************************)
(* How the cookie of an account changes: the keep-alive of rotate.go, run  *)
(* by the scheduler for every account, by an admin for one and by a        *)
(* request whose account has no session any more, and the cookies that     *)
(* answers to requests bring along (gemini.go).  Everybody works on a copy *)
(* of the cookie, merges what Google sets into it and writes the whole of  *)
(* it back (updateAccountCookie).                                          *)
(*                                                                         *)
(* A cookie is whose session it is (SAPISID and __Secure-1PSID) and which  *)
(* __Secure-1PSIDTS ticket it carries; tickets of an account are numbered  *)
(* in the order Google issues them.  The *SIDCC cookies, which nearly      *)
(* every answer renews, are not kept: that an answer renews them is why a  *)
(* cookie is written back although its ticket is the same.                 *)
(*                                                                         *)
(* A task is one goroutine, a step one call to Google, one statement sent  *)
(* to the database or one section under psidtsMu.                          *)
(***************************************************************************)
EXTENDS Naturals, FiniteSets, Sequences

CONSTANTS Tasks,      \* goroutines of requests and admin calls
          Scheduler,  \* the goroutine of startScheduler
          Accounts,
          Sessions,   \* whose session a cookie may be: the accounts' and others
          Floor,      \* min1PSIDTSInterval, in clock ticks
          MaxTime,    \* bound: the clock stops here
          MaxTicket   \* bound: Google issues no more tickets to an account

ASSUME ConstantsAssumption ==
    /\ IsFiniteSet(Tasks)
    /\ Accounts \subseteq Nat
    /\ Scheduler \notin Tasks
    /\ Accounts \subseteq Sessions
    /\ Floor \in Nat
    /\ MaxTime \in Nat
    /\ MaxTicket \in Nat

Goroutines == Tasks \cup {Scheduler}
Cookie == [who : Sessions, ticket : 0 .. MaxTicket]

VARIABLES row,      \* row[a]: the column cookie of account a
          task,     \* task[t]: what a goroutine is doing
          list,     \* the accounts rotateAllAccounts has still to do, as read
          lastAt,   \* psidtsLastAt; 0: no entry
          now,      \* the clock
          issued,   \* Google: the newest ticket of each account
          answered  \* history: when Google answered refreshes of the ticket

vars == <<row, task, list, lastAt, now, issued, answered>>

Idle == [pc |-> "idle"]
PCs == {"picked", "request", "rotate", "post", "sidcc", "check", "write", "reread"}

\* What a goroutine does when its write-back is over: a rotation of its own
\* ends, a request that rotated reads the account again, a request that got
\* an answer goes on.
Afters == {"end", "reread", "request"}

\* cookie: the copy worked on; old: the copy it started from.
Work(pc, a, cookie, old, after) ==
    [pc |-> pc, acct |-> a, cookie |-> cookie, old |-> old, after |-> after]

Init ==
    /\ row = [a \in Accounts |-> [who |-> a, ticket |-> 0]]
    /\ task = [t \in Goroutines |-> Idle]
    /\ list = <<>>
    /\ lastAt = [a \in Accounts |-> 0]
    /\ now = 1
    /\ issued = [a \in Accounts |-> 0]
    /\ answered = [a \in Accounts |-> <<>>]

Go(t, what) == task' = [task EXCEPT ![t] = what]
Continue(t, pc) == task' = [task EXCEPT ![t].pc = pc]

\* mergeSetCookie for an answer without a new ticket: the session stays, or,
\* which upstream could do, is exchanged for somebody else's.
Merges(cookie) ==
    {cookie} \cup {[cookie EXCEPT !.who = w] : w \in Sessions}

\* A mutant of Finished: what a request does next is forgotten.
FinishedAnywhere(w) == [w EXCEPT !.pc = w.after]

\* Where the goroutine goes on when the rotation or the write-back is over.
Finished(w) ==
    CASE w.after = "end" -> Idle
      [] w.after = "reread" -> [w EXCEPT !.pc = "reread"]
      [] w.after = "request" -> [w EXCEPT !.pc = "request"]

-------------------------------------------------------------------------------
\* Who starts what.

\* A request picks the account.
Pick(t, a) ==
    /\ task[t] = Idle
    /\ Go(t, Work("picked", a, row[a], row[a], "end"))
    /\ UNCHANGED <<row, list, lastAt, now, issued, answered>>

\* getXSRF has a token for the cookie, and the request is sent, or has none,
\* and the account is rotated, once.
TokenFound(t) ==
    /\ task[t].pc = "picked"
    /\ Continue(t, "request")
    /\ UNCHANGED <<row, list, lastAt, now, issued, answered>>

TokenMissing(t) ==
    /\ task[t].pc = "picked"
    /\ task' = [task EXCEPT ![t].pc = "rotate", ![t].after = "reread"]
    /\ UNCHANGED <<row, list, lastAt, now, issued, answered>>

\* The admin rotates one account.
AdminRotates(t, a) ==
    /\ task[t] = Idle
    /\ Go(t, Work("rotate", a, row[a], row[a], "end"))
    /\ UNCHANGED <<row, list, lastAt, now, issued, answered>>

\* rotateAllAccounts reads all accounts at once and then does one by one.
ListAccounts ==
    /\ task[Scheduler] = Idle
    /\ list = <<>>
    /\ list' = row
    /\ UNCHANGED <<row, task, lastAt, now, issued, answered>>

RotateListed(a) ==
    /\ task[Scheduler] = Idle
    /\ a \in DOMAIN list
    /\ \A b \in DOMAIN list : a <= b
    /\ Go(Scheduler, Work("rotate", a, list[a], list[a], "end"))
    /\ list' = [b \in DOMAIN list \ {a} |-> list[b]]
    /\ UNCHANGED <<row, lastAt, now, issued, answered>>

-------------------------------------------------------------------------------
\* rotateAccount.

\* allow1PSIDTSRotate
Allowed(a) == lastAt[a] = 0 \/ now - lastAt[a] >= Floor

AllowTicket(t) ==
    /\ task[t].pc = "rotate"
    /\ Continue(t, IF Allowed(task[t].acct) THEN "post" ELSE "sidcc")
    /\ UNCHANGED <<row, list, lastAt, now, issued, answered>>

\* note1PSIDTSAttempt after an answer it counts.
Noted(a) == lastAt' = [lastAt EXCEPT ![a] = now]
Answer(a) == answered' = [answered EXCEPT ![a] = Append(@, now)]

\* Google issues a ticket to the session it is asked with.
TicketIssued(t) ==
    LET a == task[t].acct
    IN  /\ task[t].pc = "post"
        /\ issued[a] < MaxTicket
        /\ issued' = [issued EXCEPT ![a] = @ + 1]
        /\ \E cookie \in Merges(task[t].cookie) :
              task' = [task EXCEPT ![t].pc = "sidcc",
                                   ![t].cookie = [cookie EXCEPT !.ticket = issued[a] + 1]]
        /\ Noted(a) /\ Answer(a)
        /\ UNCHANGED <<row, list, now>>

\* A mutant of TicketRefused: only a success is noted.
TicketRefusedUnnoted(t) ==
    /\ task[t].pc = "post"
    /\ Continue(t, "sidcc")
    /\ Answer(task[t].acct)
    /\ UNCHANGED <<row, list, lastAt, now, issued>>

\* 401, 403 or 429.
TicketRefused(t) ==
    /\ task[t].pc = "post"
    /\ Continue(t, "sidcc")
    /\ Noted(task[t].acct) /\ Answer(task[t].acct)
    /\ UNCHANGED <<row, list, now, issued>>

\* No answer, or a status that is not counted.
TicketUnanswered(t) ==
    /\ task[t].pc = "post"
    /\ Continue(t, "sidcc")
    /\ UNCHANGED <<row, list, lastAt, now, issued, answered>>

\* rotateSIDCC succeeds: the cookie has changed and is written back.
SidccRenewed(t) ==
    /\ task[t].pc = "sidcc"
    /\ \E cookie \in Merges(task[t].cookie) :
          task' = [task EXCEPT ![t].pc = "check", ![t].cookie = cookie]
    /\ UNCHANGED <<row, list, lastAt, now, issued, answered>>

\* rotateSIDCC fails or sets nothing: a new ticket is written back all the
\* same; without one the rotation has failed, and so has the account for
\* the request that tried it, unless nothing was answered with an error.
SidccKept(t) ==
    LET w == task[t]
    IN  /\ w.pc = "sidcc"
        /\ \/ w.cookie # w.old /\ Continue(t, "check")
           \/ w.cookie = w.old /\ Go(t, Idle)
           \/ w.cookie = w.old /\ Go(t, Finished(w))
        /\ UNCHANGED <<row, list, lastAt, now, issued, answered>>

\* accountByID after the rotation: the request goes on with what is in the
\* table, or finds no session there either.
Reread(t) ==
    LET a == task[t].acct
    IN  /\ task[t].pc = "reread"
        /\ \/ Go(t, Work("request", a, row[a], row[a], "end"))
           \/ Go(t, Idle)
        /\ UNCHANGED <<row, list, lastAt, now, issued, answered>>

-------------------------------------------------------------------------------
\* An answer to a request sets cookies.  Answers that set none leave all as
\* it is; a request may have several answers (retries, other exits).
AnswerSetsCookies(t) ==
    /\ task[t].pc = "request"
    /\ \E cookie \in Merges(task[t].cookie) :
          task' = [task EXCEPT ![t].pc = "check", ![t].cookie = cookie,
                               ![t].after = "request"]
    /\ UNCHANGED <<row, list, lastAt, now, issued, answered>>

RequestEnds(t) ==
    /\ task[t].pc = "request"
    /\ Go(t, Idle)
    /\ UNCHANGED <<row, list, lastAt, now, issued, answered>>

-------------------------------------------------------------------------------
\* updateAccountCookie.

\* A mutant of CheckIdentity: whose session it is now is not looked at.
CheckNothing(t) ==
    /\ task[t].pc = "check"
    /\ Continue(t, "write")
    /\ UNCHANGED <<row, list, lastAt, now, issued, answered>>

\* The SELECT, and the comparison of identities.
CheckIdentity(t) ==
    LET w == task[t]
    IN  /\ w.pc = "check"
        /\ \/ w.cookie.who = row[w.acct].who /\ Continue(t, "write")
           \/ w.cookie.who # row[w.acct].who /\ Go(t, Finished(w))
        /\ UNCHANGED <<row, list, lastAt, now, issued, answered>>

\* The UPDATE, whose error is ignored.
WriteCookie(t) ==
    LET w == task[t]
    IN  /\ w.pc = "write"
        /\ row' \in {row, [row EXCEPT ![w.acct] = w.cookie]}
        /\ Go(t, Finished(w))
        /\ UNCHANGED <<list, lastAt, now, issued, answered>>

-------------------------------------------------------------------------------
Tick ==
    /\ now < MaxTime
    /\ now' = now + 1
    /\ UNCHANGED <<row, task, list, lastAt, issued, answered>>

Step(t) ==
    \/ AllowTicket(t)
    \/ TicketIssued(t) \/ TicketRefused(t) \/ TicketUnanswered(t)
    \/ SidccRenewed(t) \/ SidccKept(t)
    \/ CheckIdentity(t) \/ WriteCookie(t)

Next ==
    \/ Tick
    \/ ListAccounts
    \/ \E a \in Accounts : RotateListed(a)
    \/ \E t \in Goroutines : Step(t)
    \/ \E t \in Tasks :
          \/ \E a \in Accounts : Pick(t, a) \/ AdminRotates(t, a)
          \/ TokenFound(t) \/ TokenMissing(t) \/ Reread(t)
          \/ AnswerSetsCookies(t) \/ RequestEnds(t)

Spec == Init /\ [][Next]_vars

-------------------------------------------------------------------------------
Works == [pc : PCs, acct : Accounts, cookie : Cookie, old : Cookie, after : Afters]

TypeOK ==
    /\ row \in [Accounts -> Cookie]
    /\ task \in [Goroutines -> {Idle} \cup Works]
    /\ list \in UNION {[ids -> Cookie] : ids \in SUBSET Accounts}
    /\ lastAt \in [Accounts -> Nat]
    /\ now \in Nat
    /\ issued \in [Accounts -> 0 .. MaxTicket]
    /\ answered \in [Accounts -> Seq(Nat)]

\* cookie_pool.go:650-656: whatever upstream sets, the session stored for an
\* account stays the account's own.  The row is compared in one statement
\* and written in another, with writes of other goroutines in between.
OwnSession == \A a \in Accounts : row[a].who = a

\* rotate.go:44-45: refreshes of the ticket are spaced.  The floor is looked
\* up before a refresh and noted after it, so goroutines may pass together;
\* but no goroutine gets a second answer within the floor.
RefreshesSpaced ==
    \A a \in Accounts :
        Cardinality({i \in DOMAIN answered[a] : answered[a][i] + Floor > now})
            <= Cardinality(Goroutines)

===============================================================================
