-------------------------- MODULE CookieRefreshProofs --------------------------
(***************************************************************************)
(* The session stored for an account stays its own, and refreshes of its   *)
(* ticket stay apart, for every number of goroutines and accounts and      *)
(* whatever sessions Google's answers set.                                 *)
(*                                                                         *)
(* OwnSession is not inductive: between the comparison and the write the   *)
(* goroutine is trusted.  What makes it so is that the row it was compared *)
(* with already held the account's own session, and no write in between    *)
(* can have changed that: the copy about to be written is the account's.   *)
(* What makes RefreshesSpaced inductive is said below.                     *)
(***************************************************************************)
EXTENDS CookieRefresh, FiniteSetTheorems, TLAPS

ComparedIsOwn ==
    \A t \in Goroutines :
        task[t].pc = "write" => task[t].cookie.who = task[t].acct

IInv == TypeOK /\ OwnSession /\ ComparedIsOwn

-------------------------------------------------------------------------------
\* Every account starts with its own session and nobody works.
LEMMA InitIInv == Init => IInv
<1> SUFFICES ASSUME Init PROVE IInv
  OBVIOUS
<1>1. row \in [Accounts -> Cookie]
  BY ConstantsAssumption DEF Init, Cookie
<1>2. list \in UNION {[ids -> Cookie] : ids \in SUBSET Accounts}
  <2>1. list \in [{} -> Cookie] /\ {} \in SUBSET Accounts
    BY DEF Init
  <2> QED
    BY <2>1
<1>3. answered \in [Accounts -> Seq(Nat)]
  BY DEF Init
<1>4. task \in [Goroutines -> {Idle} \cup Works]
  BY DEF Init
<1>5. TypeOK
  <2>1. issued \in [Accounts -> 0 .. MaxTicket]
    BY ConstantsAssumption DEF Init
  <2>2. lastAt \in [Accounts -> Nat] /\ now \in Nat
    BY DEF Init
  <2> QED
    BY <1>1, <1>2, <1>3, <1>4, <2>1, <2>2 DEF TypeOK
<1>6. OwnSession /\ ComparedIsOwn
  BY DEF Init, OwnSession, ComparedIsOwn, Idle
<1> QED
  BY <1>5, <1>6 DEF IInv

\* Working with a well-formed cookie is well-formed work.
LEMMA WorkType ==
    ASSUME NEW pc \in PCs, NEW a \in Accounts, NEW cookie \in Cookie,
           NEW old \in Cookie, NEW after \in Afters
    PROVE  Work(pc, a, cookie, old, after) \in Works
BY DEF Work, Works

\* A goroutine that is not idle works, and goes on from there to any place.
LEMMA WorksOn ==
    ASSUME TypeOK, NEW t \in Goroutines, task[t].pc # "idle"
    PROVE  /\ task[t] \in Works
           /\ task[t].acct \in Accounts
           /\ \A pc \in PCs : [task[t] EXCEPT !.pc = pc] \in Works
           /\ Finished(task[t]) \in {Idle} \cup Works
<1>1. task[t] \in Works
  BY DEF TypeOK, Idle
<1> QED
  BY <1>1 DEF Works, PCs, Afters, Finished

\* An answer without a ticket leaves a cookie a cookie.
LEMMA MergesType ==
    ASSUME ConstantsAssumption, NEW cookie \in Cookie, NEW c \in Merges(cookie)
    PROVE  c \in Cookie
BY DEF Merges, Cookie, ConstantsAssumption

-------------------------------------------------------------------------------
\* Every step keeps the types.
LEMMA NextTypeOK == TypeOK /\ [Next]_vars => TypeOK'
<1> SUFFICES ASSUME TypeOK, [Next]_vars PROVE TypeOK'
  OBVIOUS
<1> USE ConstantsAssumption
<1>1. CASE Tick
  BY <1>1 DEF TypeOK, Tick
<1>2. CASE ListAccounts
  <2>1. row \in UNION {[ids -> Cookie] : ids \in SUBSET Accounts}
    BY DEF TypeOK
  <2> QED
    BY <1>2, <2>1 DEF TypeOK, ListAccounts
<1>3. ASSUME NEW a \in Accounts, RotateListed(a) PROVE TypeOK'
  <2>1. PICK ids \in SUBSET Accounts : list \in [ids -> Cookie]
    BY DEF TypeOK
  <2>2. list[a] \in Cookie /\ a \in ids
    BY <1>3, <2>1 DEF RotateListed
  <2>3. Work("rotate", a, list[a], list[a], "end") \in Works
    BY <2>2, WorkType DEF PCs, Afters
  <2>4. list' \in [ids \ {a} -> Cookie]
    BY <1>3, <2>1 DEF RotateListed
  <2>5. list' \in UNION {[i -> Cookie] : i \in SUBSET Accounts}
    <3>1. ids \ {a} \in SUBSET Accounts
      OBVIOUS
    <3> QED
      BY <2>4, <3>1
  <2>6. Scheduler \in Goroutines
    BY DEF Goroutines
  <2> QED
    BY <1>3, <2>3, <2>5, <2>6 DEF TypeOK, RotateListed, Go
<1>4. ASSUME NEW t \in Tasks, NEW a \in Accounts, Pick(t, a) \/ AdminRotates(t, a)
      PROVE  TypeOK'
  <2>1. row[a] \in Cookie
    BY DEF TypeOK
  <2>2. /\ Work("picked", a, row[a], row[a], "end") \in Works
        /\ Work("rotate", a, row[a], row[a], "end") \in Works
    BY <2>1, WorkType DEF PCs, Afters
  <2> QED
    BY <1>4, <2>2 DEF TypeOK, Pick, AdminRotates, Go
<1>5. ASSUME NEW t \in Tasks, TokenFound(t) \/ RequestEnds(t) PROVE TypeOK'
  <2>1. task[t].pc # "idle" /\ t \in Goroutines
    BY <1>5 DEF TokenFound, RequestEnds, Goroutines
  <2> QED
    BY <1>5, <2>1, WorksOn DEF TypeOK, TokenFound, RequestEnds, Continue, Go, PCs
<1>6. ASSUME NEW t \in Tasks, TokenMissing(t) PROVE TypeOK'
  <2>1. task[t] \in Works
    BY <1>6, WorksOn DEF TokenMissing, Goroutines
  <2>2. [task[t] EXCEPT !.pc = "rotate", !.after = "reread"] \in Works
    BY <2>1 DEF Works, PCs, Afters
  <2> QED
    BY <1>6, <2>2 DEF TypeOK, TokenMissing
<1>7. ASSUME NEW t \in Tasks, Reread(t) PROVE TypeOK'
  <2>1. task[t].acct \in Accounts
    BY <1>7, WorksOn DEF Reread, Goroutines
  <2>2. row[task[t].acct] \in Cookie
    BY <2>1 DEF TypeOK
  <2>3. Work("request", task[t].acct, row[task[t].acct], row[task[t].acct], "end") \in Works
    BY <2>1, <2>2, WorkType DEF PCs, Afters
  <2> QED
    BY <1>7, <2>3 DEF TypeOK, Reread, Go
<1>8. ASSUME NEW t \in Tasks, AnswerSetsCookies(t) PROVE TypeOK'
  <2>1. task[t] \in Works
    BY <1>8, WorksOn DEF AnswerSetsCookies, Goroutines
  <2>2. PICK c \in Merges(task[t].cookie) :
           task' = [task EXCEPT ![t].pc = "check", ![t].cookie = c, ![t].after = "request"]
    BY <1>8 DEF AnswerSetsCookies
  <2>3. [task[t] EXCEPT !.pc = "check", !.cookie = c, !.after = "request"] \in Works
    BY <2>1, MergesType DEF Works, PCs, Afters
  <2> QED
    BY <1>8, <2>2, <2>3 DEF TypeOK, AnswerSetsCookies
<1>9. ASSUME NEW t \in Goroutines, AllowTicket(t) \/ TicketUnanswered(t) PROVE TypeOK'
  BY <1>9, WorksOn DEF TypeOK, AllowTicket, TicketUnanswered, Continue, PCs
<1>10. ASSUME NEW t \in Goroutines, TicketRefused(t) PROVE TypeOK'
  <2>1. /\ task[t].acct \in Accounts
        /\ [task[t] EXCEPT !.pc = "sidcc"] \in Works
    BY <1>10, WorksOn DEF TicketRefused, PCs
  <2>2. lastAt' \in [Accounts -> Nat] /\ answered' \in [Accounts -> Seq(Nat)]
    BY <1>10, <2>1 DEF TicketRefused, TypeOK, Noted, Answer
  <2> QED
    BY <1>10, <2>1, <2>2 DEF TypeOK, TicketRefused, Continue
<1>11. ASSUME NEW t \in Goroutines, TicketIssued(t) PROVE TypeOK'
  <2> DEFINE a == task[t].acct
  <2>1. a \in Accounts /\ task[t] \in Works
    BY <1>11, WorksOn DEF TicketIssued
  <2>2. issued[a] + 1 \in 0 .. MaxTicket
    BY <1>11, <2>1 DEF TicketIssued, TypeOK
  <2>3. PICK c \in Merges(task[t].cookie) :
           task' = [task EXCEPT ![t].pc = "sidcc",
                                ![t].cookie = [c EXCEPT !.ticket = issued[a] + 1]]
    BY <1>11 DEF TicketIssued
  <2>4. [c EXCEPT !.ticket = issued[a] + 1] \in Cookie
    BY <2>1, <2>2, MergesType DEF Works, Cookie
  <2>5. [task[t] EXCEPT !.pc = "sidcc", !.cookie = [c EXCEPT !.ticket = issued[a] + 1]]
           \in Works
    BY <2>1, <2>4 DEF Works, PCs
  <2>6. task' \in [Goroutines -> {Idle} \cup Works]
    BY <2>3, <2>5 DEF TypeOK
  <2>7. lastAt' \in [Accounts -> Nat] /\ answered' \in [Accounts -> Seq(Nat)]
    BY <1>11, <2>1 DEF TicketIssued, TypeOK, Noted, Answer
  <2>8. issued' \in [Accounts -> 0 .. MaxTicket]
    BY <1>11, <2>1, <2>2 DEF TicketIssued, TypeOK
  <2> QED
    BY <1>11, <2>6, <2>7, <2>8 DEF TypeOK, TicketIssued
<1>12. ASSUME NEW t \in Goroutines, SidccRenewed(t) PROVE TypeOK'
  <2>1. task[t] \in Works
    BY <1>12, WorksOn DEF SidccRenewed
  <2>2. PICK c \in Merges(task[t].cookie) :
           task' = [task EXCEPT ![t].pc = "check", ![t].cookie = c]
    BY <1>12 DEF SidccRenewed
  <2>3. [task[t] EXCEPT !.pc = "check", !.cookie = c] \in Works
    BY <2>1, MergesType DEF Works, PCs
  <2> QED
    BY <1>12, <2>2, <2>3 DEF TypeOK, SidccRenewed
<1>13. ASSUME NEW t \in Goroutines, SidccKept(t) \/ CheckIdentity(t) PROVE TypeOK'
  <2>1. /\ \A pc \in PCs : [task[t] EXCEPT !.pc = pc] \in Works
        /\ Finished(task[t]) \in {Idle} \cup Works
    BY <1>13, WorksOn DEF SidccKept, CheckIdentity
  <2> QED
    BY <1>13, <2>1 DEF TypeOK, SidccKept, CheckIdentity, Continue, Go, PCs
<1>14. ASSUME NEW t \in Goroutines, WriteCookie(t) PROVE TypeOK'
  <2>1. task[t].cookie \in Cookie /\ Finished(task[t]) \in {Idle} \cup Works
    BY <1>14, WorksOn DEF WriteCookie, Works
  <2> QED
    BY <1>14, <2>1 DEF TypeOK, WriteCookie, Go
<1>15. CASE UNCHANGED vars
  BY <1>15 DEF TypeOK, vars
<1> QED
  BY <1>1, <1>2, <1>3, <1>4, <1>5, <1>6, <1>7, <1>8, <1>9, <1>10, <1>11, <1>12,
     <1>13, <1>14, <1>15
  DEF Next, Step

\* The types of the cookies' state hold throughout.
THEOREM TypeCorrect == Spec => []TypeOK
<1>1. Init => TypeOK
  BY InitIInv DEF IInv
<1> QED
  BY <1>1, NextTypeOK, PTL DEF Spec

-------------------------------------------------------------------------------
\* A goroutine that starts work, ends it or goes on elsewhere than to a write
\* is trusted with nothing.
LEMMA NotWriting ==
    ASSUME TypeOK, ComparedIsOwn, NEW t \in Goroutines, NEW what,
           what.pc # "write", task' = [task EXCEPT ![t] = what]
    PROVE  ComparedIsOwn'
<1>1. task'[t] = what /\ \A u \in Goroutines \ {t} : task'[u] = task[u]
  BY DEF TypeOK
<1>2. ASSUME NEW u \in Goroutines, task'[u].pc = "write"
      PROVE  task'[u].cookie.who = task'[u].acct
  <2>1. u # t
    BY <1>1, <1>2
  <2> QED
    BY <1>1, <1>2, <2>1 DEF ComparedIsOwn
<1> QED
  BY <1>2 DEF ComparedIsOwn

\* Where a write-back ends, no other begins.
LEMMA FinishedElsewhere ==
    ASSUME TypeOK, NEW t \in Goroutines, task[t].pc # "idle"
    PROVE  Finished(task[t]).pc # "write"
<1>1. task[t] \in Works
  BY WorksOn
<1>2. /\ Idle.pc # "write"
      /\ [task[t] EXCEPT !.pc = "reread"].pc # "write"
      /\ [task[t] EXCEPT !.pc = "request"].pc # "write"
  BY <1>1 DEF Works, Idle
<1>3. task[t].after \in Afters
  BY <1>1 DEF Works
<1> QED
  BY <1>2, <1>3 DEF Afters, Finished

\* Every step keeps what was compared the account's own.
LEMMA NextCompared == IInv /\ [Next]_vars => ComparedIsOwn'
<1> SUFFICES ASSUME IInv, [Next]_vars PROVE ComparedIsOwn'
  OBVIOUS
<1> USE DEF IInv
<1>1. CASE Tick \/ ListAccounts \/ UNCHANGED vars
  BY <1>1 DEF Tick, ListAccounts, vars, ComparedIsOwn
<1>2. ASSUME NEW a \in Accounts, RotateListed(a) PROVE ComparedIsOwn'
  <2>1. Work("rotate", a, list[a], list[a], "end").pc # "write"
    BY DEF Work
  <2> QED
    BY <1>2, <2>1, NotWriting DEF RotateListed, Go, Goroutines
<1>3. ASSUME NEW t \in Tasks, NEW a \in Accounts, Pick(t, a) \/ AdminRotates(t, a)
      PROVE  ComparedIsOwn'
  <2>1. /\ Work("picked", a, row[a], row[a], "end").pc # "write"
        /\ Work("rotate", a, row[a], row[a], "end").pc # "write"
    BY DEF Work
  <2> QED
    BY <1>3, <2>1, NotWriting DEF Pick, AdminRotates, Go, Goroutines
<1>4. ASSUME NEW t \in Tasks,
             \/ TokenFound(t) \/ TokenMissing(t) \/ Reread(t)
             \/ AnswerSetsCookies(t) \/ RequestEnds(t)
      PROVE  ComparedIsOwn'
  <2>1. t \in Goroutines /\ task[t].pc # "idle"
    BY <1>4 DEF Goroutines, TokenFound, TokenMissing, Reread, AnswerSetsCookies, RequestEnds
  <2>2. task[t] \in Works
    BY <2>1, WorksOn
  <2>3. CASE Reread(t) \/ RequestEnds(t)
    <3>1. /\ Work("request", task[t].acct, row[task[t].acct], row[task[t].acct], "end").pc
               # "write"
          /\ Idle.pc # "write"
      BY DEF Work, Idle
    <3> QED
      BY <2>3, <2>1, <3>1, NotWriting DEF Reread, RequestEnds, Go
  <2>4. CASE TokenFound(t) \/ TokenMissing(t)
    <3>1. task'[t].pc # "write" /\ \A u \in Goroutines \ {t} : task'[u] = task[u]
      BY <2>4, <2>1, <2>2 DEF TypeOK, Works, TokenFound, TokenMissing, Continue
    <3> QED
      BY <3>1 DEF ComparedIsOwn
  <2>5. CASE AnswerSetsCookies(t)
    <3>1. task'[t].pc # "write" /\ \A u \in Goroutines \ {t} : task'[u] = task[u]
      BY <2>5, <2>1, <2>2 DEF TypeOK, Works, AnswerSetsCookies
    <3> QED
      BY <3>1 DEF ComparedIsOwn
  <2> QED
    BY <1>4, <2>3, <2>4, <2>5
<1>5. ASSUME NEW t \in Goroutines,
             \/ AllowTicket(t) \/ TicketIssued(t) \/ TicketRefused(t)
             \/ TicketUnanswered(t) \/ SidccRenewed(t)
      PROVE  ComparedIsOwn'
  <2>1. task[t].pc # "idle"
    BY <1>5 DEF AllowTicket, TicketIssued, TicketRefused, TicketUnanswered, SidccRenewed
  <2>2. task[t] \in Works
    BY <2>1, WorksOn
  <2>3. task'[t].pc # "write" /\ \A u \in Goroutines \ {t} : task'[u] = task[u]
    BY <1>5, <2>1, <2>2
    DEF TypeOK, Works, AllowTicket, TicketIssued, TicketRefused, TicketUnanswered,
        SidccRenewed, Continue
  <2> QED
    BY <2>3 DEF ComparedIsOwn
<1>6. ASSUME NEW t \in Goroutines, SidccKept(t) \/ WriteCookie(t) PROVE ComparedIsOwn'
  <2>1. task[t].pc # "idle"
    BY <1>6 DEF SidccKept, WriteCookie
  <2>2. task[t] \in Works /\ Finished(task[t]).pc # "write"
    BY <2>1, WorksOn, FinishedElsewhere
  <2>3. task'[t].pc # "write" /\ \A u \in Goroutines \ {t} : task'[u] = task[u]
    BY <1>6, <2>1, <2>2 DEF TypeOK, Works, SidccKept, WriteCookie, Continue, Go, Idle
  <2> QED
    BY <2>3 DEF ComparedIsOwn
<1>7. ASSUME NEW t \in Goroutines, CheckIdentity(t) PROVE ComparedIsOwn'
  <2>1. task[t] \in Works /\ Finished(task[t]).pc # "write"
    BY <1>7, WorksOn, FinishedElsewhere DEF CheckIdentity
  <2>2. row[task[t].acct].who = task[t].acct
    BY <2>1 DEF OwnSession, Works
  <2>3. CASE task[t].cookie.who = row[task[t].acct].who /\ Continue(t, "write")
    <3>1. task'[t].cookie.who = task'[t].acct
      BY <2>1, <2>2, <2>3 DEF Continue, TypeOK, Works
    <3>2. \A u \in Goroutines \ {t} : task'[u] = task[u]
      BY <2>3 DEF Continue, TypeOK
    <3> QED
      BY <3>1, <3>2 DEF ComparedIsOwn
  <2>4. CASE Go(t, Finished(task[t]))
    BY <2>4, <2>1, NotWriting DEF Go
  <2> QED
    BY <1>7, <2>3, <2>4 DEF CheckIdentity
<1> QED
  BY <1>1, <1>2, <1>3, <1>4, <1>5, <1>6, <1>7 DEF Next, Step

\* Every step keeps the stored sessions: only a write-back changes a row, and
\* it writes what was compared.
LEMMA NextOwnSession == IInv /\ [Next]_vars => OwnSession'
<1> SUFFICES ASSUME IInv, [Next]_vars PROVE OwnSession'
  OBVIOUS
<1>1. CASE UNCHANGED row
  BY <1>1 DEF IInv, OwnSession
<1>2. ASSUME NEW t \in Goroutines, WriteCookie(t) PROVE OwnSession'
  <2>1. task[t].cookie.who = task[t].acct
    BY <1>2 DEF IInv, ComparedIsOwn, WriteCookie
  <2>2. row' = row \/ row' = [row EXCEPT ![task[t].acct] = task[t].cookie]
    BY <1>2 DEF WriteCookie
  <2> QED
    BY <2>1, <2>2 DEF IInv, TypeOK, OwnSession
<1> QED
  BY <1>1, <1>2
  DEF Next, Step, vars, Tick, ListAccounts, RotateListed, Pick, AdminRotates, TokenFound,
      TokenMissing, Reread, AnswerSetsCookies, RequestEnds, AllowTicket, TicketIssued,
      TicketRefused, TicketUnanswered, SidccRenewed, SidccKept, CheckIdentity

\* Through every overlap of rotations, requests and admin actions, with every
\* session an answer may set, each account keeps the session that is its own
\* (updateAccountCookie compares before it writes).
THEOREM SessionsStayOwn == Spec => []OwnSession
<1>1. IInv /\ [Next]_vars => IInv'
  BY NextTypeOK, NextCompared, NextOwnSession DEF IInv
<1>2. IInv => OwnSession
  BY DEF IInv
<1> QED
  BY InitIInv, <1>1, <1>2, PTL DEF Spec


-------------------------------------------------------------------------------
(* The floor between refreshes of the ticket.  RefreshesSpaced is not          *)
(* inductive, since nothing in it keeps goroutines from passing the floor one  *)
(* after the other.  While an answer is within the floor nobody passes any     *)
(* more (lastAt is as late as every answer), and whoever passed before is      *)
(* still waiting for an answer: each of these has at most one more to come.    *)

\* The answers of an account that are within the floor, and the goroutines
\* that have passed it and wait for theirs.
Within(a) == {i \in DOMAIN answered[a] : answered[a][i] + Floor > now}
Posting(a) == {t \in Goroutines : task[t].pc = "post" /\ task[t].acct = a}

\* Answers were noted when they came, and nothing is noted for the future.
Noting ==
    \A a \in Accounts :
        /\ lastAt[a] <= now
        /\ \A i \in DOMAIN answered[a] : 1 <= answered[a][i] /\ answered[a][i] <= lastAt[a]

\* Answers within the floor and answers still to come are of different
\* goroutines.
Spaced ==
    \A a \in Accounts :
        Cardinality(Within(a)) + Cardinality(Posting(a)) <= Cardinality(Goroutines)

SInv == TypeOK /\ now >= 1 /\ Noting /\ Spaced

\* The sets that are counted are finite.
LEMMA CountedSets ==
    ASSUME TypeOK, NEW a \in Accounts
    PROVE  /\ IsFiniteSet(Goroutines)
           /\ IsFiniteSet(Within(a)) /\ IsFiniteSet(Posting(a))
           /\ Cardinality(Goroutines) \in Nat
           /\ Cardinality(Within(a)) \in Nat /\ Cardinality(Posting(a)) \in Nat
           /\ Cardinality(Posting(a)) <= Cardinality(Goroutines)
           /\ Within(a) \subseteq 1 .. Len(answered[a]) /\ Len(answered[a]) \in Nat
<1>1. IsFiniteSet(Goroutines)
  BY ConstantsAssumption, FS_AddElement DEF Goroutines
<1>2. answered[a] \in Seq(Nat)
  BY DEF TypeOK
<1>3. Len(answered[a]) \in Nat /\ DOMAIN answered[a] = 1 .. Len(answered[a])
  BY <1>2
<1>4. IsFiniteSet(1 .. Len(answered[a]))
  <2>1. 1 \in Int /\ Len(answered[a]) \in Int
    BY <1>3
  <2> QED
    BY <2>1, FS_Interval
<1>5. Within(a) \subseteq 1 .. Len(answered[a])
  BY <1>3 DEF Within
<1>6. Posting(a) \subseteq Goroutines
  BY DEF Posting
<1> QED
  BY <1>1, <1>3, <1>4, <1>5, <1>6, FS_Subset, FS_CardinalityType

\* While an answer is within the floor nobody passes it.
LEMMA FloorHolds ==
    ASSUME TypeOK, Noting, NEW a \in Accounts, Allowed(a)
    PROVE  Within(a) = {}
<1> SUFFICES ASSUME NEW i \in Within(a) PROVE FALSE
  OBVIOUS
<1>1. lastAt[a] \in Nat /\ now \in Nat /\ Floor \in Nat /\ answered[a] \in Seq(Nat)
  BY ConstantsAssumption DEF TypeOK
<1>2. i \in DOMAIN answered[a] /\ answered[a][i] + Floor > now /\ answered[a][i] \in Nat
  BY <1>1 DEF Within
<1>3. 1 <= answered[a][i] /\ answered[a][i] <= lastAt[a]
  BY <1>2 DEF Noting
<1> QED
  BY <1>1, <1>2, <1>3, SMTT(30) DEF Allowed

\* A step that neither brings an answer nor lets a goroutine pass.
LEMMA NobodyPasses ==
    ASSUME TypeOK, TypeOK', Noting, Spaced, answered' = answered, lastAt' = lastAt, now' >= now,
           \A a \in Accounts : Posting(a)' \subseteq Posting(a)
    PROVE  Noting' /\ Spaced'
<1>1. now \in Nat /\ now' \in Nat /\ Floor \in Nat
  BY ConstantsAssumption DEF TypeOK
<1>2. \A a \in Accounts : lastAt[a] \in Nat /\ answered[a] \in Seq(Nat)
  BY DEF TypeOK
<1>3. Noting'
  BY <1>1, <1>2 DEF Noting
<1>4. ASSUME NEW a \in Accounts
      PROVE  Cardinality(Within(a)') + Cardinality(Posting(a)') <= Cardinality(Goroutines)
  <2>1. Within(a)' \subseteq Within(a)
    BY <1>1, <1>2 DEF Within
  <2>2. /\ Cardinality(Within(a)') <= Cardinality(Within(a))
        /\ Cardinality(Posting(a)') <= Cardinality(Posting(a))
        /\ Cardinality(Within(a)') \in Nat /\ Cardinality(Posting(a)') \in Nat
    <3>1. Posting(a)' \subseteq Posting(a)
      OBVIOUS
    <3>2. IsFiniteSet(Within(a)) /\ IsFiniteSet(Posting(a))
      BY CountedSets
    <3>3. IsFiniteSet(Within(a)') /\ IsFiniteSet(Posting(a)')
      BY <2>1, <3>1, <3>2, FS_Subset
    <3> QED
      BY <2>1, <3>1, <3>2, <3>3, FS_Subset, FS_CardinalityType
  <2>3. Cardinality(Within(a)) + Cardinality(Posting(a)) <= Cardinality(Goroutines)
    BY DEF Spaced
  <2> QED
    BY <2>2, <2>3, CountedSets
<1>5. Spaced'
  BY <1>4 DEF Spaced
<1> QED
  BY <1>3, <1>5

\* A goroutine passes the floor, when no answer is within it.
LEMMA Passes ==
    ASSUME TypeOK, TypeOK', Noting, Spaced, NEW t \in Goroutines, AllowTicket(t)
    PROVE  Noting' /\ Spaced'
<1>1. task[t] \in Works
  BY WorksOn DEF AllowTicket
<1>2. CASE ~Allowed(task[t].acct)
  <2>1. \A a \in Accounts : Posting(a)' \subseteq Posting(a)
    BY <1>1, <1>2 DEF AllowTicket, Continue, Posting, TypeOK, Works
  <2>2. answered' = answered /\ lastAt' = lastAt /\ now' >= now
    BY DEF AllowTicket, TypeOK
  <2> QED
    BY <2>1, <2>2, NobodyPasses
<1>3. CASE Allowed(task[t].acct)
  <2>1. answered' = answered /\ lastAt' = lastAt /\ now' = now
    BY DEF AllowTicket
  <2>2. Noting'
    BY <2>1 DEF Noting
  <2>3. ASSUME NEW a \in Accounts
        PROVE  Cardinality(Within(a)') + Cardinality(Posting(a)') <= Cardinality(Goroutines)
    <3>1. Within(a)' = Within(a)
      BY <2>1 DEF Within
    <3>2. CASE a = task[t].acct
      <4>1. Within(a) = {}
        BY <3>2, <1>3, FloorHolds
      <4>2. Cardinality(Posting(a)') <= Cardinality(Goroutines) /\ Cardinality(Posting(a)') \in Nat
        <5>1. Posting(a)' \subseteq Goroutines
          BY DEF Posting
        <5> QED
          BY <5>1, CountedSets, FS_Subset, FS_CardinalityType
      <4> QED
        BY <3>1, <4>1, <4>2, CountedSets, FS_EmptySet
    <3>3. CASE a # task[t].acct
      <4>1. Posting(a)' = Posting(a)
        BY <1>1, <1>3, <3>3 DEF AllowTicket, Continue, Posting, TypeOK, Works
      <4> QED
        BY <3>1, <4>1 DEF Spaced
    <3> QED
      BY <3>2, <3>3
  <2> QED
    BY <2>2, <2>3 DEF Spaced
<1> QED
  BY <1>2, <1>3

\* What is noted at the end of a sequence is its last element.
LEMMA NotedAtTheEnd ==
    ASSUME NEW s \in Seq(Nat), NEW v \in Nat
    PROVE  /\ Len(s) \in Nat /\ DOMAIN s = 1 .. Len(s)
           /\ DOMAIN Append(s, v) = DOMAIN s \cup {Len(s) + 1}
           /\ \A i \in DOMAIN s : Append(s, v)[i] = s[i]
           /\ Append(s, v)[Len(s) + 1] = v
<1>1. Len(s) \in Nat /\ DOMAIN s = 1 .. Len(s)
  OBVIOUS
<1>2. Append(s, v) \in Seq(Nat) /\ Len(Append(s, v)) = Len(s) + 1
  OBVIOUS
<1>3. DOMAIN Append(s, v) = 1 .. Len(s) + 1
  BY <1>2
<1> QED
  BY <1>1, <1>3

\* An answer that counts is one of those that were still to come.
LEMMA Answered ==
    ASSUME TypeOK, TypeOK', Noting, Spaced, now >= 1, NEW t \in Goroutines,
           task[t].pc = "post", task[t] \in Works,
           task'[t].pc = "sidcc", \A u \in Goroutines \ {t} : task'[u] = task[u],
           Noted(task[t].acct), Answer(task[t].acct), now' = now
    PROVE  Noting' /\ Spaced'
<1>1. PICK b \in Accounts : b = task[t].acct
  BY DEF Works
<1>2. /\ now \in Nat /\ Floor \in Nat
      /\ \A a \in Accounts : lastAt[a] \in Nat /\ answered[a] \in Seq(Nat)
  BY ConstantsAssumption DEF TypeOK
<1>3. \A a \in Accounts \ {b} : lastAt'[a] = lastAt[a] /\ answered'[a] = answered[a]
  BY <1>1 DEF TypeOK, Noted, Answer
<1>4. lastAt'[b] = now /\ answered'[b] = Append(answered[b], now)
  BY <1>1 DEF TypeOK, Noted, Answer
<1>5. /\ answered[b] \in Seq(Nat)
      /\ DOMAIN answered'[b] = DOMAIN answered[b] \cup {Len(answered[b]) + 1}
      /\ \A i \in DOMAIN answered[b] : answered'[b][i] = answered[b][i]
      /\ answered'[b][Len(answered[b]) + 1] = now
      /\ Len(answered[b]) \in Nat /\ DOMAIN answered[b] = 1 .. Len(answered[b])
  BY <1>1, <1>2, <1>4, NotedAtTheEnd
<1>6. Noting'
  <2>1. ASSUME NEW a \in Accounts \ {b}
        PROVE  /\ lastAt'[a] <= now'
               /\ \A i \in DOMAIN answered'[a] : 1 <= answered'[a][i] /\ answered'[a][i] <= lastAt'[a]
    BY <1>3 DEF Noting
  <2>2. /\ lastAt'[b] <= now'
        /\ \A i \in DOMAIN answered'[b] : 1 <= answered'[b][i] /\ answered'[b][i] <= lastAt'[b]
    <3>1. lastAt[b] <= now /\ \A i \in DOMAIN answered[b] :
            1 <= answered[b][i] /\ answered[b][i] <= lastAt[b] /\ answered[b][i] \in Nat
      BY <1>1, <1>2 DEF Noting
    <3>2. ASSUME NEW i \in DOMAIN answered'[b]
          PROVE  1 <= answered'[b][i] /\ answered'[b][i] <= now
      <4>1. CASE i \in DOMAIN answered[b]
        BY <1>2, <1>5, <3>1, <4>1
      <4>2. CASE i = Len(answered[b]) + 1
        BY <1>2, <1>5, <4>2
      <4> QED
        BY <1>5, <4>1, <4>2
    <3> QED
      BY <1>2, <1>4, <3>2
  <2> QED
    BY <2>1, <2>2 DEF Noting
<1>7. ASSUME NEW a \in Accounts \ {b}
      PROVE  Cardinality(Within(a)') + Cardinality(Posting(a)') <= Cardinality(Goroutines)
  <2>1. Within(a)' = Within(a)
    BY <1>3 DEF Within
  <2>2. Posting(a)' = Posting(a)
    BY <1>1 DEF Posting, Works, Idle
  <2> QED
    BY <2>1, <2>2 DEF Spaced
<1>8. Cardinality(Within(b)') + Cardinality(Posting(b)') <= Cardinality(Goroutines)
  <2>1. Within(b)' \subseteq Within(b) \cup {Len(answered[b]) + 1}
    BY <1>5 DEF Within
  <2>2. Len(answered[b]) + 1 \notin Within(b)
    BY <1>1, <1>5 DEF Within
  <2>3. /\ IsFiniteSet(Within(b) \cup {Len(answered[b]) + 1})
        /\ Cardinality(Within(b) \cup {Len(answered[b]) + 1}) = Cardinality(Within(b)) + 1
    BY <1>1, <2>2, CountedSets, FS_AddElement
  <2>4. /\ Cardinality(Within(b)') \in Nat
        /\ Cardinality(Within(b)') <= Cardinality(Within(b)) + 1
    BY <2>1, <2>3, FS_Subset, FS_CardinalityType
  <2>5. Posting(b)' = Posting(b) \ {t} /\ t \in Posting(b)
    BY <1>1 DEF Posting, Works, Idle
  <2>6. Cardinality(Posting(b)') = Cardinality(Posting(b)) - 1
    <3>1. IsFiniteSet(Posting(b)) /\ t \in Posting(b)
      BY <1>1, <2>5, CountedSets
    <3>2. Cardinality(Posting(b) \ {t}) = Cardinality(Posting(b)) - 1
      BY <3>1, FS_RemoveElement
    <3> QED
      BY <2>5, <3>2
  <2>7. Cardinality(Within(b)) + Cardinality(Posting(b)) <= Cardinality(Goroutines)
    BY <1>1 DEF Spaced
  <2> QED
    BY <1>1, <2>4, <2>6, <2>7, CountedSets
<1>9. Spaced'
  BY <1>7, <1>8 DEF Spaced
<1> QED
  BY <1>6, <1>9


\* At first nothing was answered and nobody waits.
LEMMA InitSpaced == Init => SInv
<1> SUFFICES ASSUME Init PROVE SInv
  OBVIOUS
<1>1. TypeOK
  BY InitIInv DEF IInv
<1>2. Noting /\ now >= 1
  BY DEF Init, Noting
<1>3. ASSUME NEW a \in Accounts
      PROVE  Cardinality(Within(a)) + Cardinality(Posting(a)) <= Cardinality(Goroutines)
  <2>1. Within(a) = {}
    BY DEF Init, Within
  <2>2. Cardinality(Within(a)) = 0
    BY <2>1, FS_EmptySet
  <2> QED
    BY <1>1, <2>2, CountedSets
<1> QED
  BY <1>1, <1>2, <1>3 DEF SInv, Spaced

\* Every step keeps the refreshes spaced.
LEMMA NextSpaced == SInv /\ [Next]_vars => SInv'
<1> SUFFICES ASSUME SInv, [Next]_vars PROVE SInv'
  OBVIOUS
<1>1. TypeOK /\ TypeOK' /\ Noting /\ Spaced /\ now >= 1 /\ now \in Nat
  BY NextTypeOK DEF SInv, TypeOK
<1>2. CASE Tick \/ ListAccounts \/ UNCHANGED vars
  <2>1. answered' = answered /\ lastAt' = lastAt /\ now' >= now /\ task' = task
    BY <1>1, <1>2 DEF Tick, ListAccounts, vars
  <2>2. \A a \in Accounts : Posting(a)' \subseteq Posting(a)
    BY <2>1 DEF Posting
  <2>3. now' >= 1
    BY <1>1, <1>2 DEF Tick, ListAccounts, vars
  <2>4. Noting' /\ Spaced'
    BY <1>1, <2>1, <2>2, NobodyPasses
  <2> QED
    BY <1>1, <2>3, <2>4 DEF SInv
<1>3. ASSUME NEW t \in Goroutines, answered' = answered, lastAt' = lastAt, now' = now,
             task'[t].pc # "post", \A u \in Goroutines \ {t} : task'[u] = task[u]
      PROVE  SInv'
  <2>1. \A a \in Accounts : Posting(a)' \subseteq Posting(a)
    BY <1>3 DEF Posting
  <2>2. now' >= now /\ now' >= 1
    BY <1>1, <1>3
  <2>3. Noting' /\ Spaced'
    BY <1>1, <1>3, <2>1, <2>2, NobodyPasses
  <2> QED
    BY <1>1, <2>2, <2>3 DEF SInv
<1>4. ASSUME NEW t \in Goroutines, NEW w, w.pc # "post", task' = [task EXCEPT ![t] = w]
      PROVE  task'[t].pc # "post" /\ \A u \in Goroutines \ {t} : task'[u] = task[u]
  BY <1>1, <1>4 DEF TypeOK
<1>5. ASSUME NEW a \in Accounts, RotateListed(a) PROVE SInv'
  <2>1. Work("rotate", a, list[a], list[a], "end").pc # "post" /\ Scheduler \in Goroutines
    BY DEF Work, Goroutines
  <2> QED
    BY <1>3, <1>4, <1>5, <2>1 DEF RotateListed, Go
<1>6. ASSUME NEW t \in Tasks, NEW a \in Accounts, Pick(t, a) \/ AdminRotates(t, a)
      PROVE  SInv'
  <2>1. /\ Work("picked", a, row[a], row[a], "end").pc # "post"
        /\ Work("rotate", a, row[a], row[a], "end").pc # "post"
        /\ t \in Goroutines
    BY DEF Work, Goroutines
  <2> QED
    BY <1>3, <1>4, <1>6, <2>1 DEF Pick, AdminRotates, Go
<1>7. ASSUME NEW t \in Tasks, Reread(t) \/ RequestEnds(t) PROVE SInv'
  <2>1. /\ Work("request", task[t].acct, row[task[t].acct], row[task[t].acct], "end").pc # "post"
        /\ Idle.pc # "post"
        /\ t \in Goroutines
    BY DEF Work, Idle, Goroutines
  <2> QED
    BY <1>3, <1>4, <1>7, <2>1 DEF Reread, RequestEnds, Go
<1>8. ASSUME NEW t \in Tasks, TokenFound(t) \/ TokenMissing(t) \/ AnswerSetsCookies(t)
      PROVE  SInv'
  <2>1. t \in Goroutines /\ task[t] \in Works
    BY <1>1, <1>8, WorksOn DEF Goroutines, TokenFound, TokenMissing, AnswerSetsCookies
  <2>2. task'[t].pc # "post" /\ \A u \in Goroutines \ {t} : task'[u] = task[u]
    <3>1. CASE TokenFound(t) \/ TokenMissing(t)
      BY <1>1, <2>1, <3>1 DEF TypeOK, Works, TokenFound, TokenMissing, Continue
    <3>2. CASE AnswerSetsCookies(t)
      BY <1>1, <2>1, <3>2 DEF TypeOK, Works, AnswerSetsCookies
    <3> QED
      BY <1>8, <3>1, <3>2
  <2> QED
    BY <1>3, <1>8, <2>1, <2>2 DEF TokenFound, TokenMissing, AnswerSetsCookies
<1>9. ASSUME NEW t \in Goroutines, TicketUnanswered(t) \/ SidccRenewed(t) PROVE SInv'
  <2>1. task[t] \in Works
    BY <1>1, <1>9, WorksOn DEF TicketUnanswered, SidccRenewed
  <2>2. task'[t].pc # "post" /\ \A u \in Goroutines \ {t} : task'[u] = task[u]
    BY <1>1, <1>9, <2>1 DEF TypeOK, Works, TicketUnanswered, SidccRenewed, Continue
  <2> QED
    BY <1>3, <1>9, <2>2 DEF TicketUnanswered, SidccRenewed
<1>10. ASSUME NEW t \in Goroutines, SidccKept(t) \/ CheckIdentity(t) \/ WriteCookie(t)
       PROVE  SInv'
  <2>1. task[t] \in Works
    BY <1>1, <1>10, WorksOn DEF SidccKept, CheckIdentity, WriteCookie
  <2>2. Finished(task[t]).pc # "post" /\ Idle.pc # "post"
    <3>1. task[t].after \in Afters
      BY <2>1 DEF Works
    <3>2. /\ [task[t] EXCEPT !.pc = "reread"].pc # "post"
          /\ [task[t] EXCEPT !.pc = "request"].pc # "post"
          /\ Idle.pc # "post"
      BY <2>1 DEF Works, Idle
    <3> QED
      BY <3>1, <3>2 DEF Afters, Finished
  <2>3. task'[t].pc # "post" /\ \A u \in Goroutines \ {t} : task'[u] = task[u]
    <3>1. \E w : w.pc # "post" /\ task' = [task EXCEPT ![t] = w]
      <4>1. task[t] \in [pc : PCs, acct : Accounts, cookie : Cookie, old : Cookie, after : Afters]
        BY <2>1 DEF Works
      <4>2. \A pc : [task[t] EXCEPT !.pc = pc].pc = pc
        BY <4>1
      <4>3. ASSUME NEW pc, pc # "post", Continue(t, pc)
            PROVE  \E w : w.pc # "post" /\ task' = [task EXCEPT ![t] = w]
        BY <4>2, <4>3 DEF Continue
      <4>4. ASSUME NEW w, w.pc # "post", Go(t, w)
            PROVE  \E v : v.pc # "post" /\ task' = [task EXCEPT ![t] = v]
        BY <4>4 DEF Go
      <4>5. \/ Continue(t, "check") \/ Continue(t, "write")
            \/ Go(t, Idle) \/ Go(t, Finished(task[t]))
        BY <1>10 DEF SidccKept, CheckIdentity, WriteCookie
      <4> QED
        BY <2>2, <4>3, <4>4, <4>5
    <3> QED
      BY <1>1, <3>1 DEF TypeOK
  <2> QED
    BY <1>3, <1>10, <2>3 DEF SidccKept, CheckIdentity, WriteCookie
<1>11. ASSUME NEW t \in Goroutines, AllowTicket(t) PROVE SInv'
  <2>1. now' = now
    BY <1>11 DEF AllowTicket
  <2> QED
    BY <1>1, <1>11, <2>1, Passes DEF SInv
<1>12. ASSUME NEW t \in Goroutines, TicketIssued(t) \/ TicketRefused(t) PROVE SInv'
  <2>1. task[t] \in Works /\ task[t].pc = "post"
    BY <1>1, <1>12, WorksOn DEF TicketIssued, TicketRefused
  <2>2. task'[t].pc = "sidcc" /\ \A u \in Goroutines \ {t} : task'[u] = task[u]
    BY <1>1, <1>12, <2>1 DEF TypeOK, Works, TicketIssued, TicketRefused, Continue
  <2>3. Noted(task[t].acct) /\ Answer(task[t].acct) /\ now' = now
    BY <1>12 DEF TicketIssued, TicketRefused
  <2> QED
    BY <1>1, <2>1, <2>2, <2>3, Answered DEF SInv
<1> QED
  BY <1>2, <1>5, <1>6, <1>7, <1>8, <1>9, <1>10, <1>11, <1>12 DEF Next, Step

\* Whatever overlaps, within one floor an account's ticket is not answered for
\* more refreshes than there are goroutines: each one that slips through a
\* floor that is looked up before the refresh and noted after it does so once
\* (allow1PSIDTSRotate, note1PSIDTSAttempt).
THEOREM TicketsAreSpaced == Spec => []RefreshesSpaced
<1>1. SInv => RefreshesSpaced
  <2> SUFFICES ASSUME SInv, NEW a \in Accounts
               PROVE  Cardinality(Within(a)) <= Cardinality(Goroutines)
    BY DEF RefreshesSpaced, Within
  <2>1. Cardinality(Within(a)) + Cardinality(Posting(a)) <= Cardinality(Goroutines)
    BY DEF SInv, Spaced
  <2> QED
    BY <2>1, CountedSets DEF SInv
<1> QED
  BY InitSpaced, NextSpaced, <1>1, PTL DEF Spec

===============================================================================
