---------------------------- MODULE AccountPoolProofs ----------------------------
(***************************************************************************)
(* The account pool for any accounts, goroutines and limits: the types,    *)
(* that an account which keeps failing leaves the rotation, and that pickMu *)
(* keeps two picks in a row from taking the same account needlessly.       *)
(*                                                                         *)
(* The last one needs an invariant about the lock: while it is free, the   *)
(* last pick has been stamped with the second it was made in, or a later   *)
(* one; while it is held, its one holder is the last pick.                 *)
(***************************************************************************)
EXTENDS AccountPool, TLAPS

Stamping(t) == task[t].pc = "stamp"

\* Only one goroutine is between its SELECT and its UPDATE, for the account
\* of the last pick; when none is, that account bears the pick's second.
LastPickStamped ==
    /\ last.at <= now
    /\ \A t \in Tasks : Stamping(t) => task[t].acct = last.acct
    /\ \A t, u \in Tasks : Stamping(t) /\ Stamping(u) => t = u
    /\ ~PickMuHeld /\ last.acct # NoPick => account[last.acct].used >= last.at

IInv == TypeOK /\ LastPickStamped

-------------------------------------------------------------------------------
\* The initial state satisfies the invariants.
LEMMA InitIInv == Init => IInv /\ DeadLeavesRotation
  BY ConstantsAssumption
  DEF Init, IInv, TypeOK, LastPickStamped, Stamping, PickMuHeld, TaskState,
      Idle, NoPick, DeadLeavesRotation

\* Every step keeps the types.
LEMMA NextTypeOK == TypeOK /\ [Next]_vars => TypeOK'
<1> SUFFICES ASSUME TypeOK, [Next]_vars PROVE TypeOK'
  OBVIOUS
<1> USE ConstantsAssumption DEF TypeOK
<1>1. CASE Tick
  BY <1>1 DEF Tick
<1>2. ASSUME NEW t \in Tasks, NEW skip \in SUBSET Accounts, Select(t, skip)
      PROVE TypeOK'
  <2>1. PICK a \in Open(skip) : /\ Go(t, [pc |-> "stamp", acct |-> a])
                                /\ last' = [acct |-> a, at |-> now]
    BY <1>2 DEF Select
  <2>2. a \in Accounts
    BY DEF Open
  <2>3. task' \in [Tasks -> TaskState]
    BY <2>1, <2>2 DEF Go, TaskState
  <2> QED
    BY <1>2, <2>1, <2>2, <2>3 DEF Select
<1>3. ASSUME NEW t \in Tasks, Stamp(t) PROVE TypeOK'
  <2>1. task[t].acct \in Accounts
    BY <1>3 DEF Stamp, TaskState, Idle
  <2> QED
    BY <1>3, <2>1 DEF Stamp, Go, TaskState
<1>4. ASSUME NEW t \in Tasks, NEW a \in Accounts, MarkOk(t, a) PROVE TypeOK'
  BY <1>4 DEF MarkOk
<1>5. ASSUME NEW t \in Tasks, NEW a \in Accounts, MarkFailure(t, a) PROVE TypeOK'
  BY <1>5 DEF MarkFailure, Go, TaskState
<1>6. ASSUME NEW t \in Tasks, NEW a \in Accounts, Toggle(t, a) PROVE TypeOK'
  BY <1>6 DEF Toggle, Go, TaskState
<1>7. ASSUME NEW t \in Tasks, CheckDead(t) PROVE TypeOK'
  <2>1. task[t].acct \in Accounts
    BY <1>7 DEF CheckDead, TaskState, Idle
  <2> QED
    BY <1>7, <2>1 DEF CheckDead, Go, TaskState
<1>8. ASSUME NEW t \in Tasks, Disable(t) PROVE TypeOK'
  BY <1>8, ZenonT(60) DEF Disable, Go, TaskState
<1>9. ASSUME NEW t \in Tasks, SetStatus(t) PROVE TypeOK'
  <2>1. task[t].acct \in Accounts /\ task[t].enabled \in BOOLEAN
    BY <1>9 DEF SetStatus, TaskState, Idle
  <2> QED
    BY <1>9, <2>1 DEF SetStatus, Go, TaskState
<1>10. CASE UNCHANGED vars
  BY <1>10 DEF vars
<1> QED
  BY <1>1, <1>2, <1>3, <1>4, <1>5, <1>6, <1>7, <1>8, <1>9, <1>10 DEF Next

\* The types of the account pool's state hold throughout.
THEOREM TypeCorrect == Spec => []TypeOK
<1>1. Init => TypeOK
  BY InitIInv DEF IInv
<1> QED
  BY <1>1, NextTypeOK, PTL DEF Spec

-------------------------------------------------------------------------------
\* Steps that neither pick nor stamp leave the last pick as it is.
LEMMA LastPickKept ==
  ASSUME TypeOK, LastPickStamped, now' = now, last' = last,
         \A t \in Tasks : Stamping(t)' <=> Stamping(t),
         \A t \in Tasks : Stamping(t) => task'[t] = task[t],
         \A a \in Accounts : account'[a].used = account[a].used
  PROVE  LastPickStamped'
<1>1. PickMuHeld' <=> PickMuHeld
  BY DEF PickMuHeld, Stamping
<1>2. last.acct # NoPick => last.acct \in Accounts
  BY DEF TypeOK
<1> QED
  BY <1>1, <1>2 DEF LastPickStamped, Stamping

\* Every step keeps what is known of the last pick.
LEMMA NextLastPick == IInv /\ [Next]_vars => LastPickStamped'
<1> SUFFICES ASSUME IInv, [Next]_vars PROVE LastPickStamped'
  OBVIOUS
<1> USE ConstantsAssumption DEF IInv
<1>1. CASE Tick
  BY <1>1 DEF Tick, LastPickStamped, PickMuHeld, Stamping, TypeOK
<1>2. ASSUME NEW t \in Tasks, NEW skip \in SUBSET Accounts, Select(t, skip)
      PROVE LastPickStamped'
  <2>1. PICK a \in Open(skip) : /\ Go(t, [pc |-> "stamp", acct |-> a])
                                /\ last' = [acct |-> a, at |-> now]
    BY <1>2 DEF Select
  <2>2. \A u \in Tasks : ~Stamping(u)
    BY <1>2 DEF Select, PickMuHeld, Stamping
  <2>3. task' = [task EXCEPT ![t] = [pc |-> "stamp", acct |-> a]] /\ now' = now
    BY <1>2, <2>1 DEF Go, Select
  <2>4. \A u \in Tasks : Stamping(u)' => u = t
    BY <2>2, <2>3 DEF Stamping, TypeOK
  <2>5. task'[t].acct = last'.acct /\ last'.at <= now'
    BY <2>1, <2>3 DEF TypeOK
  <2>6. PickMuHeld'
    BY <2>3 DEF PickMuHeld, TypeOK
  <2> QED
    BY <2>4, <2>5, <2>6 DEF LastPickStamped
<1>3. ASSUME NEW t \in Tasks, Stamp(t) PROVE LastPickStamped'
  <2>1. Stamping(t) /\ task[t].acct = last.acct
    BY <1>3 DEF Stamp, Stamping, LastPickStamped
  <2>2. last.acct \in Accounts
    BY <1>3, <2>1 DEF Stamp, TypeOK, TaskState, Idle
  <2>3. account'[last.acct].used = now
    BY <1>3, <2>1, <2>2 DEF Stamp, TypeOK
  <2>4. /\ task' = [task EXCEPT ![t] = Idle]
        /\ now' = now /\ last' = last
    BY <1>3 DEF Stamp, Go
  <2>5. \A u \in Tasks : ~Stamping(u)'
    BY <2>1, <2>4 DEF Stamping, LastPickStamped, TypeOK, Idle
  <2> QED
    BY <2>3, <2>4, <2>5 DEF LastPickStamped
<1>4. ASSUME NEW t \in Tasks, NEW a \in Accounts, MarkOk(t, a) PROVE LastPickStamped'
  <2>1. /\ now' = now /\ last' = last /\ task' = task
        /\ \A b \in Accounts : account'[b].used = account[b].used
    BY <1>4 DEF MarkOk, TypeOK
  <2> QED
    BY <2>1, LastPickKept DEF Stamping
<1>5. ASSUME NEW t \in Tasks, NEW what,
             task[t].pc # "stamp", what.pc # "stamp", Go(t, what),
             now' = now, last' = last,
             \A b \in Accounts : account'[b].used = account[b].used
      PROVE LastPickStamped'
  <2>1. \A u \in Tasks : Stamping(u)' <=> Stamping(u)
    BY <1>5 DEF Go, Stamping, TypeOK
  <2>2. \A u \in Tasks : Stamping(u) => task'[u] = task[u]
    BY <1>5 DEF Go, Stamping, TypeOK
  <2> QED
    BY <1>5, <2>1, <2>2, LastPickKept
<1>6. ASSUME NEW t \in Tasks, NEW a \in Accounts, MarkFailure(t, a)
      PROVE LastPickStamped'
  <2>1. \A b \in Accounts : account'[b].used = account[b].used
    BY <1>6 DEF MarkFailure, TypeOK
  <2> QED
    BY <1>6, <2>1, <1>5 DEF MarkFailure, Idle
<1>7. ASSUME NEW t \in Tasks, NEW a \in Accounts, Toggle(t, a) PROVE LastPickStamped'
  BY <1>7, <1>5 DEF Toggle, Idle
<1>8. ASSUME NEW t \in Tasks, CheckDead(t) PROVE LastPickStamped'
  <2>1. CASE account[task[t].acct].enabled /\ account[task[t].acct].fails >= MaxFailures
    BY <1>8, <2>1, <1>5 DEF CheckDead
  <2>2. CASE ~(account[task[t].acct].enabled /\ account[task[t].acct].fails >= MaxFailures)
    BY <1>8, <2>2, <1>5 DEF CheckDead, Idle
  <2> QED
    BY <2>1, <2>2
<1>9. ASSUME NEW t \in Tasks, Disable(t) PROVE LastPickStamped'
  <2>1. \A b \in Accounts : account'[b].used = account[b].used
    BY <1>9 DEF Disable, TypeOK
  <2> QED
    BY <1>9, <2>1, <1>5 DEF Disable, Idle
<1>10. ASSUME NEW t \in Tasks, SetStatus(t) PROVE LastPickStamped'
  <2>1. \A b \in Accounts : account'[b].used = account[b].used
    BY <1>10 DEF SetStatus, TypeOK
  <2> QED
    BY <1>10, <2>1, <1>5 DEF SetStatus, Idle
<1>11. CASE UNCHANGED vars
  BY <1>11, LastPickKept DEF vars, Stamping
<1> QED
  BY <1>1, <1>2, <1>3, <1>4, <1>6, <1>7, <1>8, <1>9, <1>10, <1>11 DEF Next

\* The strengthened invariant holds throughout.
LEMMA Invariance == Spec => []IInv
<1>1. Init => IInv
  BY InitIInv
<1>2. IInv /\ [Next]_vars => IInv'
  BY NextTypeOK, NextLastPick DEF IInv
<1> QED
  BY <1>1, <1>2, PTL DEF Spec

\* Two picks in a row take the same account only when every other account
\* that is as healthy has been used since: for every number of goroutines.
THEOREM PicksTakeTurns == Spec => RepeatOnlyAfterOthers
<1>1. ASSUME IInv, NEW t \in Tasks, NEW skip \in SUBSET Accounts,
             Select(t, skip), last'.acct = last.acct,
             NEW b \in Open(skip) \ {last'.acct},
             account[b].fails <= account[last.acct].fails
      PROVE  account[b].used >= last.at
  <2>1. PICK a \in Open(skip) : /\ \A c \in Open(skip) \ {a} : Before(a, c)
                                /\ last' = [acct |-> a, at |-> now]
    BY <1>1 DEF Select
  <2>2. last.acct = a /\ a \in Accounts /\ b \in Accounts /\ b # a
    BY <1>1, <2>1 DEF Open
  <2>3. account[a].used >= last.at
    BY <1>1, <2>2, ConstantsAssumption DEF Select, IInv, LastPickStamped, NoPick
  <2>4. Before(a, b)
    BY <1>1, <2>1, <2>2
  <2>5. /\ account[a].fails \in Nat /\ account[b].fails \in Nat
        /\ account[a].used \in Nat /\ account[b].used \in Nat
        /\ last.at \in Nat
    BY <1>1, <2>2 DEF IInv, TypeOK
  <2> QED
    BY <1>1, <2>2, <2>3, <2>4, <2>5 DEF Before
<1> DEFINE Turn ==
      \A t \in Tasks, skip \in SUBSET Accounts :
          Select(t, skip) /\ last'.acct = last.acct =>
            \A b \in Open(skip) \ {last'.acct} :
                account[b].fails <= account[last.acct].fails =>
                    account[b].used >= last.at
<1>2. IInv => Turn
  BY <1>1
<1>3. IInv => [Turn]_vars
  BY <1>2
<1> HIDE DEF Turn
<1>4. Spec => [][Turn]_vars
  BY Invariance, <1>3, PTL
<1> QED
  BY <1>4 DEF Turn, RepeatOnlyAfterOthers

-------------------------------------------------------------------------------
\* Every step keeps accounts that failed too often out of the rotation.
LEMMA NextDead ==
  TypeOK /\ DeadLeavesRotation /\ [Next]_vars => DeadLeavesRotation'
<1> SUFFICES ASSUME TypeOK, DeadLeavesRotation, [Next]_vars,
                    NEW a \in Accounts, account'[a].fails >= MaxFailures
             PROVE  \/ ~account'[a].enabled
                    \/ Disabling(a)'
                    \/ a \in pardoned'
  BY DEF DeadLeavesRotation
<1> USE ConstantsAssumption DEF TypeOK
<1> DEFINE Safe == ~account[a].enabled \/ Disabling(a) \/ a \in pardoned
<1>1. account[a].fails >= MaxFailures => Safe
  BY DEF DeadLeavesRotation
<1>2. ASSUME account'[a] = account[a], pardoned' = pardoned,
             Disabling(a) => Disabling(a)'
      PROVE  Safe'
  BY <1>1, <1>2
<1>3. ASSUME NEW t \in Tasks, NEW what, Go(t, what),
             task[t].pc \notin {"check", "disable"}
      PROVE  Disabling(a) => Disabling(a)'
  BY <1>3 DEF Disabling, Go
<1>4. CASE Tick
  BY <1>4, <1>2 DEF Tick, Disabling
<1>5. ASSUME NEW t \in Tasks, NEW skip \in SUBSET Accounts, Select(t, skip)
      PROVE Safe'
  <2>1. PICK b \in Open(skip) : Go(t, [pc |-> "stamp", acct |-> b])
    BY <1>5 DEF Select
  <2>2. Disabling(a) => Disabling(a)'
    BY <1>5, <2>1, <1>3 DEF Select, Idle
  <2> QED
    BY <1>5, <2>2, <1>2 DEF Select
<1>6. ASSUME NEW t \in Tasks, Stamp(t) PROVE Safe'
  <2>1. Disabling(a) => Disabling(a)'
    BY <1>6, <1>3 DEF Stamp
  <2>2. /\ account'[a].enabled = account[a].enabled
        /\ account'[a].fails = account[a].fails
        /\ pardoned' = pardoned
    BY <1>6 DEF Stamp
  <2> QED
    BY <1>1, <2>1, <2>2
<1>7. ASSUME NEW t \in Tasks, NEW b \in Accounts, MarkOk(t, b) PROVE Safe'
  <2>1. a # b
    BY <1>7 DEF MarkOk
  <2> QED
    BY <1>7, <2>1, <1>2 DEF MarkOk, Disabling
<1>8. ASSUME NEW t \in Tasks, NEW b \in Accounts, MarkFailure(t, b) PROVE Safe'
  <2>1. CASE a = b
    BY <1>8, <2>1 DEF MarkFailure, Go, Disabling
  <2>2. CASE a # b
    <3>1. Disabling(a) => Disabling(a)'
      BY <1>8, <1>3 DEF MarkFailure, Idle
    <3>2. account'[a] = account[a] /\ (a \in pardoned' <=> a \in pardoned)
      BY <1>8, <2>2 DEF MarkFailure
    <3> QED
      BY <1>1, <3>1, <3>2
  <2> QED
    BY <2>1, <2>2
<1>9. ASSUME NEW t \in Tasks, NEW b \in Accounts, Toggle(t, b) PROVE Safe'
  <2>1. Disabling(a) => Disabling(a)'
    BY <1>9, <1>3 DEF Toggle, Idle
  <2> QED
    BY <1>9, <2>1, <1>2 DEF Toggle
<1>10. ASSUME NEW t \in Tasks, CheckDead(t) PROVE Safe'
  <2>1. account' = account /\ pardoned' = pardoned
    BY <1>10 DEF CheckDead
  <2>2. CASE task[t].acct = a
    BY <1>10, <2>1, <2>2 DEF CheckDead, Go, Disabling
  <2>3. CASE task[t].acct # a
    BY <1>10, <2>1, <2>3, <1>2 DEF CheckDead, Go, Disabling
  <2> QED
    BY <2>2, <2>3
<1>11. ASSUME NEW t \in Tasks, Disable(t) PROVE Safe'
  <2>1. CASE task[t].acct = a
    BY <1>11, <2>1 DEF Disable
  <2>2. CASE task[t].acct # a
    BY <1>11, <2>2, <1>2 DEF Disable, Go, Disabling
  <2> QED
    BY <2>1, <2>2
<1>12. ASSUME NEW t \in Tasks, SetStatus(t) PROVE Safe'
  <2>1. Disabling(a) => Disabling(a)'
    BY <1>12, <1>3 DEF SetStatus
  <2>2. CASE task[t].acct = a
    BY <1>12, <2>2 DEF SetStatus
  <2>3. CASE task[t].acct # a
    <3>1. account'[a] = account[a] /\ (a \in pardoned' <=> a \in pardoned)
      BY <1>12, <2>3 DEF SetStatus
    <3> QED
      BY <1>1, <2>1, <3>1
  <2> QED
    BY <2>2, <2>3
<1>13. CASE UNCHANGED vars
  BY <1>13, <1>2 DEF vars, Disabling
<1> QED
  BY <1>4, <1>5, <1>6, <1>7, <1>8, <1>9, <1>10, <1>11, <1>12, <1>13 DEF Next

\* An account with MaxFailures failures leaves the rotation, whatever is done
\* to it by how many goroutines in between.
THEOREM DeadAccountsLeave == Spec => []DeadLeavesRotation
<1>1. Init => DeadLeavesRotation
  BY InitIInv
<1> QED
  BY <1>1, TypeCorrect, NextDead, PTL DEF Spec

===============================================================================
