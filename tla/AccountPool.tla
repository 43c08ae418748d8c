------------------------------ MODULE AccountPool ------------------------------
(***************************************************************************)
(* The cookie accounts of cookie_pool.go as the database keeps them: how a *)
(* request picks one, how results are counted against it, how an account   *)
(* that keeps failing is disabled, and what an admin does to it meanwhile. *)
(*                                                                         *)
(* A task is one goroutine, a step one statement sent to the database; the *)
(* only lock is pickMu, held from the SELECT of a pick to its UPDATE.      *)
(* Statements do not fail here.                                            *)
(***************************************************************************)
EXTENDS Naturals, FiniteSets

CONSTANTS Tasks,
          Accounts,      \* ids
          MaxFailures,   \* maxCookieAuthFailures
          MaxTime,       \* bound: the clock stops here
          FailBound      \* bound: no account is given more failures

ASSUME ConstantsAssumption ==
    /\ Accounts \subseteq Nat \ {0}
    /\ MaxFailures \in Nat \ {0}
    /\ MaxTime \in Nat
    /\ FailBound \in Nat

VARIABLES now,       \* time.Now().Unix(): whole seconds
          account,   \* account[a]: the columns status, fail_count, last_used_at
          task,      \* task[t]: what a goroutine is about to send
          last,      \* history: the last pick, whom and when
          pardoned   \* history: enabled by an admin since their last failure

vars == <<now, account, task, last, pardoned>>

Idle == [pc |-> "idle"]
NoPick == 0

Init ==
    /\ now = 1
    /\ account = [a \in Accounts |-> [enabled |-> TRUE, fails |-> 0, used |-> 0]]
    /\ task = [t \in Tasks |-> Idle]
    /\ last = [acct |-> NoPick, at |-> 0]
    /\ pardoned = {}

Go(t, what) == task' = [task EXCEPT ![t] = what]

-------------------------------------------------------------------------------
\* pickCookieAccountExcept.

\* ORDER BY fail_count, last_used_at, id.
Before(a, b) ==
    \/ account[a].fails < account[b].fails
    \/ /\ account[a].fails = account[b].fails
       /\ account[a].used < account[b].used
    \/ /\ account[a].fails = account[b].fails
       /\ account[a].used = account[b].used
       /\ a < b

Open(skip) == {a \in Accounts \ skip : account[a].enabled}

\* A mutant of PickMuHeld: there is no lock.
PickMuIgnored == FALSE

PickMuHeld == \E t \in Tasks : task[t].pc = "stamp"

\* A mutant of Select: that there is no row left is not noticed.
SelectNobody(t, skip) ==
    /\ task[t] = Idle
    /\ ~PickMuHeld
    /\ Open(skip) = {}
    /\ Go(t, [pc |-> "stamp", acct |-> NoPick])
    /\ last' = [acct |-> NoPick, at |-> now]
    /\ UNCHANGED <<now, account, pardoned>>

\* The SELECT: the first row that is not skipped.
Select(t, skip) ==
    /\ task[t] = Idle
    /\ ~PickMuHeld
    /\ \E a \in Open(skip) :
          /\ \A b \in Open(skip) \ {a} : Before(a, b)
          /\ Go(t, [pc |-> "stamp", acct |-> a])
          /\ last' = [acct |-> a, at |-> now]
    /\ UNCHANGED <<now, account, pardoned>>

\* The UPDATE of last_used_at.
Stamp(t) ==
    /\ task[t].pc = "stamp"
    /\ account' = [account EXCEPT ![task[t].acct].used = now]
    /\ Go(t, Idle)
    /\ UNCHANGED <<now, last, pardoned>>

-------------------------------------------------------------------------------
\* markAccountResult, from requests (markCookieByStatus) and from the admin's
\* check of an account, which may be a disabled one.

MarkOk(t, a) ==
    /\ task[t] = Idle
    /\ account' = [account EXCEPT ![a].fails = 0]
    /\ UNCHANGED <<now, task, last, pardoned>>

MarkFailure(t, a) ==
    /\ task[t] = Idle
    /\ account[a].fails < FailBound
    /\ account' = [account EXCEPT ![a].fails = @ + 1]
    /\ pardoned' = pardoned \ {a}
    /\ Go(t, [pc |-> "check", acct |-> a])
    /\ UNCHANGED <<now, last>>

\* A mutant of CheckDead: one failure more is let through.
CheckDeadLate(t) ==
    /\ task[t].pc = "check"
    /\ LET a == task[t].acct
       IN  Go(t, IF account[a].enabled /\ account[a].fails > MaxFailures
                 THEN [pc |-> "disable", acct |-> a] ELSE Idle)
    /\ UNCHANGED <<now, account, last, pardoned>>

\* autoDisableIfDead: the SELECT,
CheckDead(t) ==
    /\ task[t].pc = "check"
    /\ LET a == task[t].acct
       IN  Go(t, IF account[a].enabled /\ account[a].fails >= MaxFailures
                 THEN [pc |-> "disable", acct |-> a] ELSE Idle)
    /\ UNCHANGED <<now, account, last, pardoned>>

\* and the UPDATE, which does not look at fail_count again.
Disable(t) ==
    /\ task[t].pc = "disable"
    /\ account' = [account EXCEPT ![task[t].acct].enabled = FALSE]
    /\ Go(t, Idle)
    /\ UNCHANGED <<now, last, pardoned>>

-------------------------------------------------------------------------------
\* The admin's toggle: the list is read, then the other status is written;
\* fail_count stays.

Toggle(t, a) ==
    /\ task[t] = Idle
    /\ Go(t, [pc |-> "set", acct |-> a, enabled |-> ~account[a].enabled])
    /\ UNCHANGED <<now, account, last, pardoned>>

\* accountSetStatus
SetStatus(t) ==
    /\ task[t].pc = "set"
    /\ account' = [account EXCEPT ![task[t].acct].enabled = task[t].enabled]
    /\ pardoned' = IF task[t].enabled THEN pardoned \cup {task[t].acct} ELSE pardoned
    /\ Go(t, Idle)
    /\ UNCHANGED <<now, last>>

Tick ==
    /\ now < MaxTime
    /\ now' = now + 1
    /\ UNCHANGED <<account, task, last, pardoned>>

Next ==
    \/ Tick
    \/ \E t \in Tasks :
          \/ \E skip \in SUBSET Accounts : Select(t, skip)
          \/ Stamp(t)
          \/ \E a \in Accounts : MarkOk(t, a) \/ MarkFailure(t, a) \/ Toggle(t, a)
          \/ CheckDead(t) \/ Disable(t) \/ SetStatus(t)

Spec == Init /\ [][Next]_vars

-------------------------------------------------------------------------------
TaskState ==
    {Idle}
    \cup [pc : {"stamp", "check", "disable"}, acct : Accounts]
    \cup [pc : {"set"}, acct : Accounts, enabled : BOOLEAN]

TypeOK ==
    /\ now \in Nat
    /\ account \in [Accounts -> [enabled : BOOLEAN, fails : Nat, used : Nat]]
    /\ task \in [Tasks -> TaskState]
    /\ last \in [acct : Accounts \cup {NoPick}, at : Nat]
    /\ pardoned \in SUBSET Accounts

\* cookie_pool.go:490-500: an account with MaxFailures failures in a row does
\* not stay in the rotation.  It is disabled, or a goroutine is about to do
\* it, or an admin enabled it after its last failure.
Disabling(a) ==
    \E t \in Tasks : task[t].pc \in {"check", "disable"} /\ task[t].acct = a
DeadLeavesRotation ==
    \A a \in Accounts :
        account[a].fails >= MaxFailures =>
            ~account[a].enabled \/ Disabling(a) \/ a \in pardoned

\* cookie_pool.go:392-394: two picks in a row, however close together, do not
\* take the same account while another, as healthy and not passed over, has
\* not been used since the second of the first pick.
RepeatOnlyAfterOthers ==
    [][\A t \in Tasks, skip \in SUBSET Accounts :
          Select(t, skip) /\ last'.acct = last.acct =>
            \A b \in Open(skip) \ {last'.acct} :
                account[b].fails <= account[last.acct].fails =>
                    account[b].used >= last.at]_vars

===============================================================================
