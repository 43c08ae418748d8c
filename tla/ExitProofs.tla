------------------------------ MODULE ExitProofs ------------------------------
(* Which exits requests leave by.                                             *)
(*                                                                            *)
(* About ProxyPool: its types, and that what requests choose from is never    *)
(* anything but a state of the table, however loads, results and admin calls  *)
(* overlap.                                                                   *)
(*                                                                            *)
(* About ExitChoice, for every number of requests and exits and all settings: *)
(* an exit of the remote pool is one exit for the limiter.  Two things make   *)
(* it so: no URL has two slots, and no slot has more requests on it than      *)
(* trySlotAcquire allows.  The second needs that nobody is on a slot before   *)
(* it is handed out.  Then, an exit handed out is none the request gave up    *)
(* and none that cools.                                                       *)
EXTENDS ExitChoice, ProxyPool, FiniteSetTheorems, TLAPS

(******************************************************************************)
(* The table of the proxies and its copy: ProxyPool.                          *)
(******************************************************************************)

-------------------------------------------------------------------------------
\* A table is a function from some of the proxies to rows.
LEMMA TableShape ==
    ASSUME NEW table
    PROVE  table \in Table <=> /\ DOMAIN table \in SUBSET Proxies
                               /\ table \in [DOMAIN table -> Row]
  BY DEF Table

\* The table without rows, and what admins configured in it.
LEMMA EmptyTable == Empty \in Table /\ Configured(Empty) = Empty
  <1>1. Empty = [p \in {} |-> NewRow]
    BY DEF Empty
  <1>2. Empty = [p \in {} |-> Empty[p].enabled]
    BY DEF Empty
  <1>3. DOMAIN Empty = {}
    BY DEF Empty
  <1> QED
    BY <1>1, <1>2, <1>3, TableShape DEF Configured

\* A result touches no switch and no row that is not there
\* (recordProxyResult, forceProxyCooldown, proxyResetFailures).
LEMMA ResultKeepsConfiguration ==
    ASSUME NEW table \in Table, NEW p, NEW result \in Results
    PROVE  /\ WithResult(table, p, result) \in Table
           /\ Configured(WithResult(table, p, result)) = Configured(table)
  <1>1. /\ DOMAIN table \in SUBSET Proxies
        /\ table \in [DOMAIN table -> Row]
    BY TableShape
  <1>2. CASE p \notin DOMAIN table
    BY <1>2 DEF WithResult
  <1>3. CASE p \in DOMAIN table
    <2> DEFINE fails == CASE result = "success" -> 0
                          [] result = "failure" ->
                               IF table[p].fails < Threshold
                               THEN table[p].fails + 1 ELSE table[p].fails
                          [] result = "cooldown" -> Threshold
               after == [table EXCEPT ![p].fails = fails]
    <2>1. WithResult(table, p, result) = after
      BY <1>3 DEF WithResult
    <2>2. table[p] \in Row /\ Threshold \in Nat \ {0}
      BY <1>1, <1>3, PoolAssumption
    <2>3. fails \in 0 .. Threshold
      BY <2>2 DEF Results, Row
    <2> HIDE DEF fails
    <2>4. after \in [DOMAIN table -> Row]
      BY <1>1, <1>3, <2>2, <2>3 DEF Row
    <2>5. \A q \in DOMAIN table : after[q].enabled = table[q].enabled
      BY <1>1, <1>3, <2>2, <2>3 DEF Row
    <2>6. DOMAIN after = DOMAIN table
      BY <1>1
    <2> HIDE DEF after
    <2>7. Configured(after) = Configured(table)
      BY <2>5, <2>6 DEF Configured
    <2> QED
      BY <1>1, <2>1, <2>4, <2>6, <2>7, TableShape
  <1> QED
    BY <1>2, <1>3

\* What admins configured is a function from proxies to switches.
LEMMA ConfiguredType ==
    ASSUME NEW table \in Table
    PROVE  Configured(table) \in UNION {[ids -> BOOLEAN] : ids \in SUBSET Proxies}
  <1>1. DOMAIN table \in SUBSET Proxies /\ table \in [DOMAIN table -> Row]
    BY TableShape
  <1>2. Configured(table) \in [DOMAIN table -> BOOLEAN]
    BY <1>1 DEF Configured, Row
  <1> QED
    BY <1>1, <1>2

\* The tables the admin handlers and the import write.
LEMMA WrittenTables ==
    ASSUME NEW table \in Table, NEW p \in Proxies, NEW enabled \in BOOLEAN
    PROVE  /\ WithRow(table, p) \in Table
           /\ (IF p \in DOMAIN table
               THEN [table EXCEPT ![p].enabled = enabled] ELSE table) \in Table
           /\ [q \in DOMAIN table \ {p} |-> table[q]] \in Table
  <1>1. DOMAIN table \in SUBSET Proxies /\ table \in [DOMAIN table -> Row]
    BY TableShape
  <1>2. NewRow \in Row
    BY PoolAssumption DEF NewRow, Row
  <1>3. WithRow(table, p) \in Table
    <2>1. WithRow(table, p) \in [DOMAIN table \cup {p} -> Row]
      BY <1>1, <1>2 DEF WithRow
    <2> QED
      BY <1>1, <2>1 DEF Table
  <1>4. (IF p \in DOMAIN table
         THEN [table EXCEPT ![p].enabled = enabled] ELSE table) \in Table
    <2>1. CASE p \in DOMAIN table
      <3>1. [table EXCEPT ![p].enabled = enabled] \in [DOMAIN table -> Row]
        BY <1>1, <2>1 DEF Row
      <3> QED
        BY <1>1, <2>1, <3>1 DEF Table
    <2> QED
      BY <2>1
  <1>5. [q \in DOMAIN table \ {p} |-> table[q]] \in [DOMAIN table \ {p} -> Row]
    BY <1>1
  <1> QED
    BY <1>1, <1>3, <1>4, <1>5 DEF Table

-------------------------------------------------------------------------------
\* What a task that is past its first step carries.
LEMMA TaskShapes ==
    ASSUME PoolTypeOK, NEW t \in Tasks
    PROVE  /\ task[t].pc = "memory" => /\ task[t].proxy \in Proxies
                                       /\ task[t].result \in Results
           /\ task[t].pc = "store" => task[t].list \in Table
           /\ task[t].pc = "import" => task[t].imported \in BOOLEAN
           /\ task[t].pc = "choose" => task[t].hasProxies \in BOOLEAN
  BY DEF PoolTypeOK, TaskState, IdleTask

\* A step of a goroutine changes no other goroutine's place.
LEMMA GoType ==
    ASSUME PoolTypeOK, NEW t \in Tasks, NEW what \in TaskState, Go(t, what)
    PROVE  task' \in [Tasks -> TaskState]
  BY DEF PoolTypeOK, Go

\* Starting an operation keeps to the bound.
LEMMA StartType ==
    ASSUME PoolTypeOK, NEW t, Start(t)
    PROVE  ops' \in 0 .. MaxOps
  BY PoolAssumption DEF PoolTypeOK, Start

\* Writing the table adds what it configures to the history.
LEMMA SetTableType ==
    ASSUME PoolTypeOK, NEW table \in Table, SetTable(table)
    PROVE  /\ db' \in Table
           /\ \A old \in tables' :
                 old \in UNION {[ids -> BOOLEAN] : ids \in SUBSET Proxies}
  BY ConfiguredType DEF PoolTypeOK, SetTable

\* Every variable keeps to its type.
THEOREM ProxyPoolTypes == PoolSpec => []PoolTypeOK
  <1>1. PoolInit => PoolTypeOK
    <2> SUFFICES ASSUME PoolInit PROVE PoolTypeOK
      OBVIOUS
    <2>1. db \in Table /\ cache \in Table /\ tables = {Configured(db)}
      BY EmptyTable DEF PoolInit
    <2>2. task \in [Tasks -> TaskState]
      BY DEF PoolInit, TaskState
    <2>3. ops \in 0 .. MaxOps
      BY PoolAssumption DEF PoolInit
    <2>4. booted \in BOOLEAN /\ direct \in BOOLEAN
      BY DEF PoolInit
    <2> QED
      BY <2>1, <2>2, <2>3, <2>4, ConfiguredType DEF PoolTypeOK
  <1>2. PoolTypeOK /\ [PoolNext]_poolVars => PoolTypeOK'
    <2> SUFFICES ASSUME PoolTypeOK, [PoolNext]_poolVars PROVE PoolTypeOK'
      OBVIOUS
    <2>1. CASE Reload
      <3>1. Scheduler \in Tasks /\ [pc |-> "read"] \in TaskState
        BY DEF Tasks, TaskState
      <3> QED
        BY <2>1, <3>1, GoType DEF Reload, PoolTypeOK
    <2>2. ASSUME NEW t \in Tasks, ReadTable(t) PROVE PoolTypeOK'
      <3>1. [pc |-> "store", list |-> db] \in TaskState
        BY DEF TaskState, PoolTypeOK
      <3> QED
        BY <2>2, <3>1, GoType DEF ReadTable, PoolTypeOK
    <2>3. ASSUME NEW t \in Tasks, ReadFails(t) PROVE PoolTypeOK'
      <3>1. IdleTask \in TaskState
        BY DEF TaskState
      <3> QED
        BY <2>3, <3>1, GoType DEF ReadFails, PoolTypeOK
    <2>4. ASSUME NEW t \in Tasks, Store(t) PROVE PoolTypeOK'
      <3>1. IdleTask \in TaskState /\ task[t].list \in Table
        BY <2>4, TaskShapes DEF TaskState, Store
      <3> QED
        BY <2>4, <3>1, GoType DEF Store, PoolTypeOK
    <2>5. ASSUME NEW t \in Workers, NEW p \in Proxies, NEW result \in Results,
                 RecordInTable(t, p, result)
          PROVE  PoolTypeOK'
      <3>1. [pc |-> "memory", proxy |-> p, result |-> result] \in TaskState
        BY DEF TaskState
      <3>2. db' \in Table
        BY <2>5, ResultKeepsConfiguration DEF RecordInTable, PoolTypeOK
      <3>3. t \in Tasks
        BY DEF Tasks
      <3> QED
        BY <2>5, <3>1, <3>2, <3>3, GoType, StartType DEF RecordInTable, PoolTypeOK
    <2>6. ASSUME NEW t \in Workers, NEW p \in Proxies, NEW enabled \in BOOLEAN,
                 Update(t, p, enabled)
          PROVE  PoolTypeOK'
      <3>1. [pc |-> "read"] \in TaskState /\ t \in Tasks
        BY DEF TaskState, Tasks
      <3>2. (IF p \in DOMAIN db
             THEN [db EXCEPT ![p].enabled = enabled] ELSE db) \in Table
        BY WrittenTables DEF PoolTypeOK
      <3> QED
        BY <2>6, <3>1, <3>2, GoType, StartType, SetTableType DEF Update, PoolTypeOK
    <2>7. ASSUME NEW t \in Workers, NEW p \in Proxies, Create(t, p)
          PROVE  PoolTypeOK'
      <3>1. [pc |-> "read"] \in TaskState /\ t \in Tasks
        BY DEF TaskState, Tasks
      <3>2. WithRow(db, p) \in Table
        BY WrittenTables DEF PoolTypeOK
      <3> QED
        BY <2>7, <3>1, <3>2, GoType, StartType, SetTableType DEF Create, PoolTypeOK
    <2>8. ASSUME NEW t \in Workers, NEW p \in Proxies, Delete(t, p)
          PROVE  PoolTypeOK'
      <3>1. [pc |-> "read"] \in TaskState /\ t \in Tasks
        BY DEF TaskState, Tasks
      <3>2. [q \in DOMAIN db \ {p} |-> db[q]] \in Table
        BY WrittenTables DEF PoolTypeOK
      <3> QED
        BY <2>8, <3>1, <3>2, GoType, StartType, SetTableType DEF Delete, PoolTypeOK
    <2>9. ASSUME NEW t \in Workers, NEW p \in Proxies, Reset(t, p)
          PROVE  PoolTypeOK'
      <3>1. [pc |-> "read"] \in TaskState /\ t \in Tasks
        BY DEF TaskState, Tasks
      <3>2. db' \in Table
        BY <2>9, ResultKeepsConfiguration DEF Reset, PoolTypeOK, Results
      <3> QED
        BY <2>9, <3>1, <3>2, GoType, StartType DEF Reset, PoolTypeOK
    <2>10. ASSUME NEW t \in Workers, NEW p \in Proxies, ImportRow(t, p)
           PROVE  PoolTypeOK'
      <3>1. [pc |-> "import", imported |-> TRUE] \in TaskState /\ t \in Tasks
        BY DEF TaskState, Tasks
      <3>2. WithRow(db, p) \in Table
        BY WrittenTables DEF PoolTypeOK
      <3> QED
        BY <2>10, <3>1, <3>2, GoType, SetTableType DEF ImportRow, PoolTypeOK
    <2>11. ASSUME NEW t \in Workers, RecordInMemory(t) PROVE PoolTypeOK'
      <3>1. IdleTask \in TaskState /\ t \in Tasks
        BY DEF TaskState, Tasks
      <3>2. cache' \in Table
        BY <2>11, <3>1, TaskShapes, ResultKeepsConfiguration
           DEF RecordInMemory, PoolTypeOK
      <3> QED
        BY <2>11, <3>1, <3>2, GoType DEF RecordInMemory, PoolTypeOK
    <2>12. ASSUME NEW t \in Workers, Import(t) PROVE PoolTypeOK'
      <3>1. [pc |-> "import", imported |-> FALSE] \in TaskState /\ t \in Tasks
        BY DEF TaskState, Tasks
      <3> QED
        BY <2>12, <3>1, GoType, StartType DEF Import, PoolTypeOK
    <2>13. ASSUME NEW t \in Workers, ImportEnds(t) PROVE PoolTypeOK'
      <3>1. /\ (IF task[t].imported THEN [pc |-> "read"] ELSE IdleTask) \in TaskState
            /\ t \in Tasks
        BY DEF TaskState, Tasks
      <3> QED
        BY <2>13, <3>1, GoType DEF ImportEnds, PoolTypeOK
    <2>14. ASSUME NEW t \in Workers, LookAtPool(t) PROVE PoolTypeOK'
      <3>1. [pc |-> "choose", hasProxies |-> cache # Empty] \in TaskState
        BY DEF TaskState
      <3>2. t \in Tasks
        BY DEF Tasks
      <3> QED
        BY <2>14, <3>1, <3>2, GoType, StartType DEF LookAtPool, PoolTypeOK
    <2>15. ASSUME NEW t \in Workers, ChooseExit(t) PROVE PoolTypeOK'
      <3>1. IdleTask \in TaskState /\ t \in Tasks
        BY DEF TaskState, Tasks
      <3>2. direct' \in BOOLEAN
        BY <2>15 DEF ChooseExit, PoolTypeOK
      <3> QED
        BY <2>15, <3>1, <3>2, GoType DEF ChooseExit, PoolTypeOK
    <2>16. CASE UNCHANGED poolVars
      BY <2>16 DEF poolVars, PoolTypeOK
    <2> QED
      BY <2>1, <2>2, <2>3, <2>4, <2>5, <2>6, <2>7, <2>8, <2>9, <2>10, <2>11,
         <2>12, <2>13, <2>14, <2>15, <2>16 DEF PoolNext
  <1> QED
    BY <1>1, <1>2, PTL DEF PoolSpec

-------------------------------------------------------------------------------
(***************************************************************************)
(* What the copy shows comes from the table by way of a task that carries  *)
(* what it read, and meanwhile the table moves on: the invariant follows   *)
(* the list from the table, through the task, to the copy, and the         *)
(* emptiness of the copy from there into the request that looked at it.    *)
(***************************************************************************)
ListInv ==
    /\ Configured(db) \in tables
    /\ \A t \in Tasks :
          task[t].pc = "store" => Configured(task[t].list) \in tables
    /\ Configured(cache) \in tables \cup {Empty}
    /\ booted /\ ~BootReadMayFail => Configured(cache) \in tables

DirectInv ==
    /\ \A t \in Tasks :
          task[t].pc = "choose" /\ ~task[t].hasProxies => Empty \in tables
    /\ direct => Empty \in tables

\* A read that is stored later, a result that is late and an admin call that
\* overtakes either never mix in the copy: it shows one state of the table.
LEMMA ListInvHolds == PoolSpec => []ListInv
  <1>1. PoolInit => ListInv
    BY EmptyTable DEF PoolInit, ListInv, IdleTask
  <1>2. PoolTypeOK /\ ListInv /\ [PoolNext]_poolVars => ListInv'
    <2> SUFFICES ASSUME PoolTypeOK, ListInv, [PoolNext]_poolVars PROVE ListInv'
      OBVIOUS
    <2>1. CASE Reload
      BY <2>1 DEF Reload, Go, PoolTypeOK, ListInv
    <2>2. ASSUME NEW t \in Tasks, ReadTable(t) PROVE ListInv'
      BY <2>2 DEF ReadTable, Go, PoolTypeOK, ListInv
    <2>3. ASSUME NEW t \in Tasks, ReadFails(t) PROVE ListInv'
      BY <2>3 DEF ReadFails, Go, PoolTypeOK, ListInv, IdleTask
    <2>4. ASSUME NEW t \in Tasks, Store(t) PROVE ListInv'
      BY <2>4 DEF Store, Go, PoolTypeOK, ListInv, IdleTask
    <2>5. ASSUME NEW t \in Workers, NEW p \in Proxies, NEW result \in Results,
                 RecordInTable(t, p, result)
          PROVE  ListInv'
      <3>1. Configured(db') = Configured(db) /\ tables' = tables
        BY <2>5, ResultKeepsConfiguration DEF RecordInTable, PoolTypeOK
      <3> QED
        BY <2>5, <3>1 DEF RecordInTable, Go, PoolTypeOK, ListInv
    <2>6. ASSUME NEW t \in Workers,
                 db' \in Table, tables' = tables \cup {Configured(db')},
                 Go(t, [pc |-> "read"])
                    \/ Go(t, [pc |-> "import", imported |-> TRUE]),
                 UNCHANGED <<cache, booted>>
          PROVE  ListInv'
      BY <2>6 DEF Go, PoolTypeOK, ListInv
    <2>7. ASSUME NEW t \in Workers, NEW p \in Proxies,
                 \/ \E enabled \in BOOLEAN : Update(t, p, enabled)
                 \/ Create(t, p) \/ Delete(t, p) \/ ImportRow(t, p)
          PROVE  ListInv'
      <3>1. db' \in Table /\ tables' = tables \cup {Configured(db')}
        BY <2>7, WrittenTables
           DEF Update, Create, Delete, ImportRow, SetTable, PoolTypeOK
      <3> QED
        BY <2>7, <2>6, <3>1 DEF Update, Create, Delete, ImportRow
    <2>8. ASSUME NEW t \in Workers, NEW p \in Proxies, Reset(t, p)
          PROVE  ListInv'
      <3>1. Configured(db') = Configured(db) /\ tables' = tables
        BY <2>8, ResultKeepsConfiguration DEF Reset, PoolTypeOK, Results
      <3> QED
        BY <2>8, <3>1 DEF Reset, Go, PoolTypeOK, ListInv
    <2>9. ASSUME NEW t \in Workers, RecordInMemory(t) PROVE ListInv'
      <3>1. t \in Tasks
        BY DEF Tasks
      <3>2. Configured(cache') = Configured(cache)
        BY <2>9, <3>1, TaskShapes, ResultKeepsConfiguration
           DEF RecordInMemory, PoolTypeOK
      <3> QED
        BY <2>9, <3>2 DEF RecordInMemory, Go, PoolTypeOK, ListInv, IdleTask
    <2>10. ASSUME NEW t \in Workers,
                  Import(t) \/ ImportEnds(t) \/ LookAtPool(t) \/ ChooseExit(t)
           PROVE  ListInv'
      <3>1. UNCHANGED <<db, cache, booted, tables>>
        BY <2>10 DEF Import, ImportEnds, LookAtPool, ChooseExit
      <3>2. \A u \in Tasks : task'[u].pc = "store" => task'[u] = task[u]
        <4>1. CASE Import(t)
          BY <4>1 DEF Import, Go, PoolTypeOK
        <4>2. CASE ImportEnds(t)
          BY <4>2 DEF ImportEnds, Go, PoolTypeOK, IdleTask
        <4>3. CASE LookAtPool(t)
          BY <4>3 DEF LookAtPool, Go, PoolTypeOK
        <4>4. CASE ChooseExit(t)
          BY <4>4 DEF ChooseExit, Go, PoolTypeOK, IdleTask
        <4> QED
          BY <2>10, <4>1, <4>2, <4>3, <4>4
      <3> QED
        BY <3>1, <3>2 DEF ListInv
    <2>11. CASE UNCHANGED poolVars
      BY <2>11 DEF poolVars, ListInv
    <2> QED
      BY <2>1, <2>2, <2>3, <2>4, <2>5, <2>7, <2>8, <2>9, <2>10, <2>11 DEF PoolNext
  <1> QED
    BY <1>1, <1>2, ProxyPoolTypes, PTL DEF PoolSpec

\* For every state after the first load, if that one succeeds, requests
\* choose from a list the admins had configured at one moment: never from
\* half of a read, from two reads at once, or from rows brought back.
THEOREM CopyShowsTheTable ==
    ASSUME BootReadMayFail = FALSE
    PROVE  PoolSpec => []CopyWasTheTable
  <1>1. ListInv => CopyWasTheTable
    BY DEF ListInv, CopyWasTheTable
  <1> QED
    BY <1>1, ListInvHolds, PTL

\* With FallbackDirect off a request leaves from the host's own address only
\* if there was a moment at which no proxy was configured: the emptiness a
\* request acts on was once the table's, however long ago it looked.
THEOREM DirectNeedsAnEmptyTable ==
    ASSUME BootReadMayFail = FALSE, FallbackDirect = FALSE
    PROVE  PoolSpec => []DirectOnlyWithoutProxies
  <1>1. PoolInit => DirectInv
    BY DEF PoolInit, DirectInv, IdleTask
  <1>2. PoolTypeOK /\ ListInv /\ DirectInv /\ [PoolNext]_poolVars => DirectInv'
    <2> SUFFICES ASSUME PoolTypeOK, ListInv, DirectInv, [PoolNext]_poolVars
                 PROVE  DirectInv'
      OBVIOUS
    <2>1. ASSUME NEW t \in Tasks, NEW what, Go(t, what), what.pc # "choose",
                 tables \subseteq tables', UNCHANGED direct
          PROVE  DirectInv'
      BY <2>1 DEF Go, PoolTypeOK, DirectInv
    <2>2. CASE Reload
      BY <2>1, <2>2 DEF Reload, Tasks
    <2>3. ASSUME NEW t \in Tasks, ReadTable(t) \/ ReadFails(t) \/ Store(t)
          PROVE  DirectInv'
      BY <2>1, <2>3 DEF ReadTable, ReadFails, Store, IdleTask
    <2>4. ASSUME NEW t \in Workers, NEW p \in Proxies,
                 \/ \E result \in Results : RecordInTable(t, p, result)
                 \/ \E enabled \in BOOLEAN : Update(t, p, enabled)
                 \/ Create(t, p) \/ Delete(t, p) \/ Reset(t, p) \/ ImportRow(t, p)
          PROVE  DirectInv'
      <3>1. tables \subseteq tables' /\ UNCHANGED direct
        BY <2>4 DEF RecordInTable, Update, Create, Delete, Reset, ImportRow,
                    SetTable
      <3>2. \A u \in Tasks : task'[u].pc = "choose" => task'[u] = task[u]
        <4>1. ASSUME NEW result \in Results, RecordInTable(t, p, result)
              PROVE  \A u \in Tasks : task'[u].pc = "choose" => task'[u] = task[u]
          BY <4>1 DEF RecordInTable, Go, PoolTypeOK
        <4>2. ASSUME NEW enabled \in BOOLEAN, Update(t, p, enabled)
              PROVE  \A u \in Tasks : task'[u].pc = "choose" => task'[u] = task[u]
          BY <4>2 DEF Update, Go, PoolTypeOK
        <4>3. CASE Create(t, p)
          BY <4>3 DEF Create, Go, PoolTypeOK
        <4>4. CASE Delete(t, p)
          BY <4>4 DEF Delete, Go, PoolTypeOK
        <4>5. CASE Reset(t, p)
          BY <4>5 DEF Reset, Go, PoolTypeOK
        <4>6. CASE ImportRow(t, p)
          BY <4>6 DEF ImportRow, Go, PoolTypeOK
        <4> QED
          BY <2>4, <4>1, <4>2, <4>3, <4>4, <4>5, <4>6
      <3> QED
        BY <3>1, <3>2 DEF DirectInv
    <2>5. ASSUME NEW t \in Workers,
                 RecordInMemory(t) \/ Import(t) \/ ImportEnds(t)
          PROVE  DirectInv'
      <3>1. \E what : Go(t, what) /\ what.pc # "choose"
        BY <2>5 DEF RecordInMemory, Import, ImportEnds, IdleTask
      <3> QED
        BY <2>1, <2>5, <3>1 DEF RecordInMemory, Import, ImportEnds, Tasks
    <2>6. ASSUME NEW t \in Workers, LookAtPool(t) PROVE DirectInv'
      <3>1. cache = Empty => Empty \in tables
        BY <2>6, EmptyTable DEF LookAtPool, Start, ListInv
      <3> QED
        BY <2>6, <3>1 DEF LookAtPool, Go, PoolTypeOK, DirectInv
    <2>7. ASSUME NEW t \in Workers, ChooseExit(t) PROVE DirectInv'
      <3>1. t \in Tasks
        BY DEF Tasks
      <3>2. direct' => Empty \in tables
        BY <2>7, <3>1, TaskShapes DEF ChooseExit, DirectInv
      <3> QED
        BY <2>7, <3>2 DEF ChooseExit, Go, PoolTypeOK, DirectInv, IdleTask
    <2>8. CASE UNCHANGED poolVars
      BY <2>8 DEF poolVars, DirectInv
    <2> QED
      BY <2>2, <2>3, <2>4, <2>5, <2>6, <2>7, <2>8 DEF PoolNext
  <1>3. DirectInv => DirectOnlyWithoutProxies
    BY DEF DirectInv, DirectOnlyWithoutProxies
  <1> QED
    BY <1>1, <1>2, <1>3, ProxyPoolTypes, ListInvHolds, PTL DEF PoolSpec


(******************************************************************************)
(* The exit a request is handed: ExitChoice.                                  *)
(******************************************************************************)

\* The local variables of each request.
Shape == DOMAIN req = Requests /\ \A r \in Requests : DOMAIN req[r] = DOMAIN Idle

\* getDynamicSlotID gives every URL one slot.
SlotsDiffer ==
    /\ \E S : slots \in Seq(S)
    /\ \A m, n \in Slots : slots[m] = slots[n] => m = n

\* What a request holds is a static proxy, the direct exit, or a slot handed out.
KnownExits == \A r \in Requests : req[r].exit \in Static \cup {Direct, None} \cup Slots

\* No slot is held by more requests than an address may have.
NoMoreThanFit == \A n \in Slots : Cardinality(Holders(n)) <= PerIPConcurrent

IInv == Shape /\ SlotsDiffer /\ KnownExits /\ NoMoreThanFit

\* A step that brings nobody to an exit of the remote pool.
Quiet ==
    /\ Shape'
    /\ slots' = slots
    /\ \A r \in Requests : req'[r].exit \in {req[r].exit, None, Direct} \cup Static

-------------------------------------------------------------------------------
\* The requests on an exit are finitely many.
LEMMA HoldersFinite ==
    ASSUME NEW e
    PROVE  IsFiniteSet(Holders(e)) /\ Cardinality(Holders(e)) \in Nat
<1>1. IsFiniteSet(Requests) /\ Holders(e) \in SUBSET Requests
  BY ExitAssumption DEF Holders
<1> QED
  BY <1>1, FS_Subset, FS_CardinalityType

\* If nobody comes to slots, the invariant stays.
LEMMA QuietPreserves == IInv /\ Quiet => IInv'
<1> SUFFICES ASSUME IInv, Quiet PROVE IInv'
  OBVIOUS
<1>1. Slots' = Slots
  BY DEF Quiet, Slots
<1>2. SlotsDiffer'
  BY <1>1 DEF Quiet, SlotsDiffer, IInv
<1>3. KnownExits'
  BY <1>1 DEF Quiet, KnownExits, IInv
<1>4. NoMoreThanFit'
  <2> SUFFICES ASSUME NEW n \in Slots PROVE Cardinality(Holders(n)') <= PerIPConcurrent
    BY <1>1 DEF NoMoreThanFit
  <2>1. n \in Nat /\ n \notin Static \cup {Direct, None}
    BY ExitAssumption DEF Slots, IInv, SlotsDiffer
  <2>2. Holders(n)' \in SUBSET Holders(n)
    BY <2>1 DEF Quiet, Holders
  <2>3. Cardinality(Holders(n)') <= Cardinality(Holders(n)) /\ Cardinality(Holders(n)') \in Nat
    BY <2>2, HoldersFinite, FS_Subset, FS_CardinalityType
  <2>4. Cardinality(Holders(n)) <= PerIPConcurrent
    BY DEF IInv, NoMoreThanFit
  <2> QED
    BY <2>3, <2>4, HoldersFinite, ExitAssumption
<1> QED
  BY <1>2, <1>3, <1>4 DEF Quiet, IInv

\* Going on to another place, or ending, brings nobody anywhere.
LEMMA GotoQuiet ==
    ASSUME Shape, NEW r \in Requests, NEW pc, Goto(r, pc), slots' = slots
    PROVE  Quiet
  BY DEF Goto, Shape, Quiet, Idle

\* Taking a static proxy or the direct exit brings nobody to a slot.
LEMMA TakesQuiet ==
    ASSUME Shape, NEW r \in Requests, NEW e \in Static \cup {Direct}, Takes(r, e), slots' = slots
    PROVE  Quiet
  BY DEF Takes, Shape, Quiet, Idle

\* getDynamicSlotID: a slot is the URL's own, and a new one is the next.
LEMMA SlotOfUrl ==
    ASSUME SlotsDiffer, NEW u
    PROVE  \/ GetSlot(u) \in Slots /\ slots[GetSlot(u)] = u
           \/ GetSlot(u) = Len(slots) + 1 /\ \A n \in Slots : slots[n] # u
<1>1. PICK S : slots \in Seq(S)
  BY DEF SlotsDiffer
<1>2. ToSet(slots) = {slots[n] : n \in Slots}
  BY <1>1 DEF ToSet, Slots
<1> QED
  BY <1>2 DEF GetSlot

\* The table of slots after a URL was looked up.
LEMMA AcquireKeepsSlots ==
    ASSUME SlotsDiffer, NEW r \in Requests, Acquire(r)
    PROVE  SlotsDiffer' /\ Slots \subseteq Slots' /\ GetSlot(req[r].url) \in Slots'
<1> DEFINE u == req[r].url
           n == GetSlot(u)
<1>1. slots' = IF n \in Slots THEN slots ELSE Append(slots, u)
  BY DEF Acquire
<1>2. PICK S : slots \in Seq(S)
  BY DEF SlotsDiffer
<1>3. CASE n \in Slots
  BY <1>1, <1>3 DEF SlotsDiffer, Slots
<1>4. CASE n \notin Slots
  <2>1. n = Len(slots) + 1 /\ \A m \in Slots : slots[m] # u
    BY <1>4, SlotOfUrl
  <2>2. slots' = Append(slots, u) /\ slots \in Seq(S \cup {u})
    BY <1>1, <1>2, <1>4
  <2>3. /\ slots' \in Seq(S \cup {u})
        /\ Len(slots') = Len(slots) + 1 /\ Len(slots) \in Nat
        /\ slots'[n] = u /\ \A m \in Slots : slots'[m] = slots[m]
    BY <2>1, <2>2 DEF Slots
  <2>4. Slots' = Slots \cup {n}
    BY <2>1, <2>3 DEF Slots
  <2> QED
    BY <2>1, <2>3, <2>4 DEF SlotsDiffer
<1> QED
  BY <1>3, <1>4

\* Taking a slot that has room, or finding none.
LEMMA AcquirePreserves ==
    ASSUME IInv, NEW r \in Requests, Acquire(r)
    PROVE  IInv'
<1> DEFINE n == GetSlot(req[r].url)
<1>1. SlotsDiffer' /\ Slots \subseteq Slots' /\ n \in Slots'
  BY AcquireKeepsSlots DEF IInv
<1>2. \/ Free(n) /\ Takes(r, n)
      \/ req' = [req EXCEPT ![r].pc = "fetch", ![r].url = None, ![r].reuse = FALSE]
  BY DEF Acquire
<1>3. Shape' /\ \A q \in Requests \ {r} : req'[q].exit = req[q].exit
  BY <1>2 DEF Takes, Shape, IInv, Idle
<1>4. req'[r].exit \in {n, req[r].exit} /\ (req'[r].exit = req[r].exit \/ (Free(n) /\ req'[r].exit = n))
  BY <1>2 DEF Takes, Shape, IInv, Idle
<1>5. KnownExits'
  BY <1>1, <1>3, <1>4 DEF KnownExits, IInv
<1>6. NoMoreThanFit'
  <2> SUFFICES ASSUME NEW m \in Slots' PROVE Cardinality(Holders(m)') <= PerIPConcurrent
    BY DEF NoMoreThanFit
  <2>1. m \in Nat /\ m \notin Static \cup {Direct, None}
    BY ExitAssumption, <1>1 DEF Slots, SlotsDiffer
  <2>2. Cardinality(Holders(m)) <= PerIPConcurrent
    <3>1. CASE m \in Slots
      BY <3>1 DEF IInv, NoMoreThanFit
    <3>2. CASE m \notin Slots
      <4>1. Holders(m) = {}
        BY <2>1, <3>2 DEF Holders, IInv, KnownExits
      <4> QED
        BY <4>1, FS_EmptySet, ExitAssumption
    <3> QED
      BY <3>1, <3>2
  <2>3. CASE Free(n) /\ m = n
    <3>1. Holders(m)' \in SUBSET (Holders(m) \cup {r})
      BY <1>3 DEF Holders
    <3>2. IsFiniteSet(Holders(m) \cup {r}) /\ Cardinality(Holders(m) \cup {r}) <= Cardinality(Holders(m)) + 1
      BY HoldersFinite, FS_AddElement
    <3>3. Cardinality(Holders(m)) + 1 <= PerIPConcurrent
      BY <2>3, HoldersFinite, ExitAssumption DEF Free
    <3>4. Cardinality(Holders(m)') <= Cardinality(Holders(m) \cup {r})
          /\ Cardinality(Holders(m)') \in Nat /\ Cardinality(Holders(m) \cup {r}) \in Nat
      BY <3>1, <3>2, FS_Subset, FS_CardinalityType
    <3> QED
      BY <3>2, <3>3, <3>4, HoldersFinite, ExitAssumption
  <2>4. CASE ~(Free(n) /\ m = n)
    <3>1. Holders(m)' \in SUBSET Holders(m)
      BY <1>3, <1>4, <2>4 DEF Holders
    <3>2. Cardinality(Holders(m)') <= Cardinality(Holders(m)) /\ Cardinality(Holders(m)') \in Nat
      BY <3>1, HoldersFinite, FS_Subset, FS_CardinalityType
    <3> QED
      BY <2>2, <3>2, HoldersFinite, ExitAssumption
  <2> QED
    BY <2>3, <2>4
<1> QED
  BY <1>1, <1>3, <1>5, <1>6 DEF IInv

-------------------------------------------------------------------------------
\* A cooldown that is over, of an exit that cooled or was used, moves nobody.
LEMMA CooledQuiet ==
    ASSUME Shape, NEW k, NEW requests, slots' = slots, req' = Cooled(k, requests),
           DOMAIN requests = Requests,
           \A r \in Requests : /\ DOMAIN requests[r] = DOMAIN Idle
                               /\ requests[r].exit \in {req[r].exit, None}
    PROVE  Quiet
<1>1. \A r \in Requests : DOMAIN req'[r] = DOMAIN Idle /\ req'[r].exit = requests[r].exit
  BY DEF Cooled, Idle
<1>2. DOMAIN req' = Requests
  BY DEF Cooled
<1> QED
  BY <1>1, <1>2 DEF Quiet, Shape

\* Picking an exit.
LEMMA PickPreserves ==
    ASSUME IInv, NEW r \in Requests, Pick(r)
    PROVE  IInv'
<1> USE DEF IInv
<1>1. CASE Begin(r)
  <2>1. PICK prefer : req' = [req EXCEPT ![r] = [Idle EXCEPT !.pc = FirstStage, !.prefer = prefer]]
    BY <1>1 DEF Begin
  <2>2. Quiet
    BY <1>1, <2>1 DEF Begin, Shape, Quiet, Idle
  <2> QED
    BY <2>2, QuietPreserves
<1>2. CASE PickStatic(r)
  <2>1. \/ \E e \in Static \cup {Direct} : Takes(r, e)
        \/ Goto(r, AfterStatic)
    BY <1>2 DEF PickStatic, PickPreferred, PickSticky, PickRoundRobin, Pool
  <2>2. slots' = slots
    BY <1>2 DEF PickStatic
  <2> QED
    BY <2>1, <2>2, TakesQuiet, GotoQuiet, QuietPreserves
<1>3. CASE Dynamically(r)
  <2>1. slots' = slots
    BY <1>3 DEF Dynamically
  <2>2. \/ Goto(r, AfterDynamic)
        \/ req' = [req EXCEPT ![r].pc = "fetch", ![r].hot = Cooling \cap Urls]
        \/ req' = [[req EXCEPT ![r].pc = "fetch", ![r].hot = Cooling \cap Urls]
                      EXCEPT ![r].pc = "count", ![r].url = sticky.url, ![r].reuse = TRUE]
    BY <1>3 DEF Dynamically
  <2>3. Quiet
    BY <2>1, <2>2, GotoQuiet DEF Shape, Quiet, Idle
  <2> QED
    BY <2>3, QuietPreserves
<1>4. CASE Fetch(r)
  <2>1. slots' = slots
    BY <1>4 DEF Fetch
  <2>2. \/ Goto(r, AfterDynamic)
        \/ \E u \in config.pool :
             req' = [req EXCEPT ![r].fetches = @ + 1,
                                ![r].pc = IF Acceptable(r, u) THEN AfterCount(u) ELSE "fetch",
                                ![r].url = IF Acceptable(r, u) THEN u ELSE None]
    BY <1>4 DEF Fetch
  <2>3. CASE Goto(r, AfterDynamic)
    BY <2>1, <2>3, GotoQuiet, QuietPreserves
  <2>4. ASSUME NEW u \in config.pool,
               req' = [req EXCEPT ![r].fetches = @ + 1,
                                  ![r].pc = IF Acceptable(r, u) THEN AfterCount(u) ELSE "fetch",
                                  ![r].url = IF Acceptable(r, u) THEN u ELSE None]
        PROVE  Quiet
    <3> DEFINE n == req[r].fetches + 1
               next == IF Acceptable(r, u) THEN AfterCount(u) ELSE "fetch"
               url == IF Acceptable(r, u) THEN u ELSE None
    <3>1. req' = [req EXCEPT ![r].fetches = n, ![r].pc = next, ![r].url = url]
      BY <2>4 DEF Shape
    <3> HIDE DEF n, next, url
    <3> QED
      BY <2>1, <3>1 DEF Shape, Quiet, Idle
  <2> QED
    BY <2>2, <2>3, <2>4, QuietPreserves
<1>5. CASE CheckCount(r)
  BY <1>5, GotoQuiet, QuietPreserves DEF CheckCount
<1>6. CASE CheckTime(r)
  <2>1. slots' = slots
    BY <1>6 DEF CheckTime
  <2>2. \/ Goto(r, "acquire")
        \/ req' = [req EXCEPT ![r].pc = "fetch", ![r].url = None, ![r].reuse = FALSE]
    BY <1>6 DEF CheckTime
  <2>3. Quiet
    BY <2>1, <2>2, GotoQuiet DEF Shape, Quiet, Idle
  <2> QED
    BY <2>3, QuietPreserves
<1>7. CASE Acquire(r)
  BY <1>7, AcquirePreserves
<1>8. CASE PickDirect(r)
  BY <1>8, TakesQuiet, GotoQuiet, QuietPreserves DEF PickDirect
<1> QED
  BY <1>1, <1>2, <1>3, <1>4, <1>5, <1>6, <1>7, <1>8 DEF Pick

\* What a use of an exit ends with.
LEMMA OutcomePreserves ==
    ASSUME IInv, NEW r \in Requests, Outcome(r)
    PROVE  IInv'
<1> USE DEF IInv
<1>1. CASE Succeeds(r)
  <2>1. slots' = slots
    BY <1>1 DEF Succeeds
  <2>2. CASE req' = [req EXCEPT ![r] = Idle]
    <3>1. Quiet
      BY <2>1, <2>2 DEF Shape, Quiet, Idle
    <3> QED
      BY <3>1, QuietPreserves
  <2>3. CASE req' = Cooled(Key(req[r].exit), [req EXCEPT ![r] = Idle])
    <3> DEFINE ended == [req EXCEPT ![r] = Idle]
    <3>1. DOMAIN ended = Requests
      BY DEF Shape
    <3>2. \A q \in Requests : DOMAIN ended[q] = DOMAIN Idle /\ ended[q].exit \in {req[q].exit, None}
      BY DEF Shape, Idle
    <3>3. req' = Cooled(Key(req[r].exit), ended)
      BY <2>3
    <3> HIDE DEF ended
    <3>4. Quiet
      BY <2>1, <3>1, <3>2, <3>3, CooledQuiet
    <3> QED
      BY <3>4, QuietPreserves
  <2> QED
    BY <1>1, <2>2, <2>3 DEF Succeeds
<1>2. CASE Fails(r)
  BY <1>2, GotoQuiet, QuietPreserves DEF Fails
<1>3. CASE Counted(r)
  <2>1. slots' = slots
    BY <1>3 DEF Counted
  <2>2. \/ req' = [req EXCEPT ![r].attempt = @ + 1, ![r].pc = "use"]
        \/ req' = [req EXCEPT ![r] = Idle]
        \/ Goto(r, "force")
    BY <1>3 DEF Counted
  <2>3. Quiet
    BY <2>1, <2>2, GotoQuiet DEF Shape, Quiet, Idle
  <2> QED
    BY <2>3, QuietPreserves
<1>4. CASE Forced(r)
  <2>1. slots' = slots
    BY <1>4 DEF Forced
  <2>2. \/ req' = [req EXCEPT ![r] = Idle]
        \/ \E n, ids, urls :
             req' = [req EXCEPT ![r].pc = FirstStage, ![r].prefer = None, ![r].exit = None,
                                ![r].switch = n, ![r].excludedIDs = ids,
                                ![r].excludedURLs = urls]
    BY <1>4 DEF Forced
  <2>3. CASE req' = [req EXCEPT ![r] = Idle]
    <3>1. Quiet
      BY <2>1, <2>3 DEF Shape, Quiet, Idle
    <3> QED
      BY <3>1, QuietPreserves
  <2>4. ASSUME NEW n, NEW ids, NEW urls,
               req' = [req EXCEPT ![r].pc = FirstStage, ![r].prefer = None, ![r].exit = None,
                                  ![r].switch = n, ![r].excludedIDs = ids,
                                  ![r].excludedURLs = urls]
        PROVE  Quiet
    BY <2>1, <2>4 DEF Shape, Quiet, Idle
  <2> QED
    BY <2>2, <2>3, <2>4, QuietPreserves
<1> QED
  BY <1>1, <1>2, <1>3, <1>4 DEF Outcome

\* At the start there are no slots and nobody holds an exit.
LEMMA InitIInv == Init => IInv
<1> SUFFICES ASSUME Init PROVE IInv
  OBVIOUS
<1>1. Slots = {} /\ slots \in Seq({})
  BY DEF Init, Slots
<1>2. Shape /\ KnownExits
  BY DEF Init, Shape, KnownExits, Idle
<1> QED
  BY <1>1, <1>2 DEF IInv, SlotsDiffer, NoMoreThanFit

\* Every step of the program keeps the invariant.
LEMMA NextPreserves == IInv /\ [Next]_vars => IInv'
<1> SUFFICES ASSUME IInv, [Next]_vars PROVE IInv'
  OBVIOUS
<1>1. CASE TimePasses
  <2>1. PICK k : req' = Cooled(k, req)
    BY <1>1 DEF TimePasses
  <2>2. Quiet
    BY <1>1, <2>1, CooledQuiet DEF TimePasses, IInv, Shape
  <2> QED
    BY <2>2, QuietPreserves
<1>2. ASSUME NEW r \in Requests, Pick(r) \/ Outcome(r) PROVE IInv'
  BY <1>2, PickPreserves, OutcomePreserves
<1>3. CASE UNCHANGED vars
  <2>1. Quiet
    BY <1>3 DEF vars, Quiet, IInv, Shape
  <2> QED
    BY <2>1, QuietPreserves
<1> QED
  BY <1>1, <1>2, <1>3 DEF Next

\* The requests on a URL are those on its one slot.
LEMMA SlotsBoundUrls == IInv => OneSlotPerUrl
<1> SUFFICES ASSUME IInv, NEW u \in Urls
             PROVE  Cardinality({r \in Requests : req[r].exit \in Slots /\ Url(req[r].exit) = u})
                        <= PerIPConcurrent
  BY DEF OneSlotPerUrl
<1> DEFINE On == {r \in Requests : req[r].exit \in Slots /\ Url(req[r].exit) = u}
<1>1. CASE On = {}
  <2>1. Cardinality(On) = 0
    BY <1>1, FS_EmptySet
  <2> HIDE DEF On
  <2>2. Cardinality(On) <= PerIPConcurrent
    BY <2>1, ExitAssumption
  <2> QED
    BY <2>2 DEF On
<1>2. CASE On # {}
  <2>1. PICK first \in Requests : req[first].exit \in Slots /\ Url(req[first].exit) = u
    BY <1>2
  <2>2. \A n \in Slots : Url(n) = slots[n]
    BY ExitAssumption DEF Url, Slots, IInv, SlotsDiffer
  <2>3. On \in SUBSET Holders(req[first].exit)
    BY <2>1, <2>2 DEF Holders, IInv, SlotsDiffer
  <2>4. Cardinality(On) <= Cardinality(Holders(req[first].exit)) /\ Cardinality(On) \in Nat
    BY <2>3, HoldersFinite, FS_Subset, FS_CardinalityType
  <2>5. Cardinality(Holders(req[first].exit)) <= PerIPConcurrent
    BY <2>1 DEF IInv, NoMoreThanFit
  <2> QED
    BY <2>4, <2>5, HoldersFinite, ExitAssumption
<1> QED
  BY <1>1, <1>2

\* Whatever requests do at the same time, a remote exit never has more of them
\* than one address may have.
THEOREM RemoteExitIsOne == Spec => []OneSlotPerUrl
<1>1. Init => IInv
  BY InitIInv
<1>2. IInv /\ [Next]_vars => IInv'
  BY NextPreserves
<1>3. IInv => OneSlotPerUrl
  BY SlotsBoundUrls
<1> QED
  BY <1>1, <1>2, <1>3, PTL DEF Spec


-------------------------------------------------------------------------------
(* The types, and what a request is given.  For a slot to be fresh three       *)
(* things hold while a request looks at a URL: the URL is none of those given  *)
(* up, and neither is then its slot, which no other URL has; behind the last   *)
(* look at its health it is not one that has been cooling all along; and       *)
(* whatever is cooling all along is cooling now.                               *)

PCs == {"idle", "static", "dynamic", "fetch", "direct", "count", "time", "acquire",
        "use", "failed", "force"}
Looking == {"count", "time", "acquire"}
Using == {"use", "failed", "force"}
StaticUrls == {UrlOf[p] : p \in Static}

Local == [pc : PCs, prefer : Static \cup {None},
          excludedIDs : SUBSET (Static \cup {Direct} \cup Nat),
          excludedURLs : SUBSET (Urls \cup StaticUrls),
          exit : Static \cup {Direct, None} \cup Nat,
          url : Urls \cup {None}, reuse : BOOLEAN,
          fetches : 0 .. MaxFetches, switch : 0 .. MaxSwitches, attempt : Nat,
          hot : SUBSET Urls]

\* The exits there are at the moment.
Given == Static \cup {Direct} \cup Slots

\* The local variables q of a request fit the slots and the health.
Fits(q) ==
    /\ q.exit \in Given \cup {None}
    /\ q.exit # None <=> q.pc \in Using
    /\ q.url # None <=> q.pc \in Looking
    /\ q.excludedIDs \subseteq Given
    /\ \A n \in q.excludedIDs : n \in Slots => slots[n] \in q.excludedURLs
    /\ q.url # None => q.url \notin q.excludedURLs
    /\ q.pc = "acquire" => q.url \notin q.hot
    /\ q.hot \subseteq Cooling

Tables ==
    /\ config \in Settings
    /\ slots \in Seq(Urls)
    /\ health \in [Static \cup Urls -> [fails : 0 .. RetryAttempts, recent : BOOLEAN]]

StickyFits ==
    sticky = NotSticky \/ (sticky.exit \in Static \cup Slots /\ sticky.url = Url(sticky.exit))

JInv ==
    /\ IInv /\ Tables /\ StickyFits
    /\ \A r \in Requests : req[r] \in Local /\ Fits(req[r])

\* There are no more slots than URLs.
LEMMA SlotsAreFew ==
    ASSUME SlotsDiffer, slots \in Seq(Urls)
    PROVE  Slots \subseteq Dynamic
<1>1. Len(slots) \in Nat /\ Slots = 1 .. Len(slots) /\ slots \in [Slots -> Urls]
  BY DEF Slots
<1>2. /\ IsFiniteSet(Urls) /\ Cardinality(Urls) \in Nat
      /\ IsFiniteSet(Slots) /\ Cardinality(Slots) = Len(slots)
  <2>1. 1 \in Int /\ Len(slots) \in Int
    BY <1>1
  <2>2. /\ IsFiniteSet(1 .. Len(slots))
        /\ Cardinality(1 .. Len(slots)) = IF 1 > Len(slots) THEN 0 ELSE Len(slots) - 1 + 1
    BY <2>1, FS_Interval
  <2>3. IsFiniteSet(Urls) /\ Cardinality(Urls) \in Nat
    BY ExitAssumption, FS_CardinalityType
  <2> QED
    BY <1>1, <2>2, <2>3
<1>3. ~(Cardinality(Urls) < Cardinality(Slots))
  <2> SUFFICES ASSUME Cardinality(Urls) < Cardinality(Slots) PROVE FALSE
    OBVIOUS
  <2>1. \E m, n \in Slots : m # n /\ slots[m] = slots[n]
    BY <1>1, <1>2, FS_PigeonHole
  <2> QED
    BY <2>1 DEF SlotsDiffer
<1> QED
  BY <1>1, <1>2, <1>3 DEF Dynamic

\* The invariant says what the types are.
LEMMA FitsAreTypes == JInv => TypeOK
<1> SUFFICES ASSUME JInv PROVE TypeOK
  OBVIOUS
<1>1. Slots \subseteq Dynamic
  BY SlotsAreFew DEF JInv, IInv, Tables
<1>2. ASSUME NEW r \in Requests
      PROVE  /\ req[r].exit \in Exits \cup {None}
             /\ req[r].exit # None <=> req[r].pc \in {"use", "failed", "force"}
             /\ req[r].url # None <=> req[r].pc \in {"count", "time", "acquire"}
             /\ req[r].excludedIDs \subseteq Exits
             /\ req[r].excludedURLs \subseteq Urls \cup {UrlOf[p] : p \in Static}
             /\ req[r].switch \in 0 .. MaxSwitches /\ req[r].fetches \in 0 .. MaxFetches
             /\ req[r].hot \subseteq Urls
  <2>1. req[r] \in Local /\ Fits(req[r])
    BY DEF JInv
  <2>2. Given \subseteq Exits
    BY <1>1 DEF Given, Exits
  <2> QED
    BY <2>1, <2>2 DEF Local, Fits, Looking, Using, StaticUrls
<1>3. Tables /\ StickyFits
  BY DEF JInv
<1> QED
  BY <1>2, <1>3 DEF TypeOK, Tables, StickyFits

\* Slots are not taken back, and keep their URL.
Extended == Slots \subseteq Slots' /\ \A n \in Slots : slots'[n] = slots[n] /\ n \in Nat

\* A URL has no other slot than it had.
OneMore == \A n \in Slots' \ Slots : n = Len(slots) + 1

\* What fits goes on to fit while slots are added and what it counts on cools.
LEMMA FitsOn ==
    ASSUME NEW q, Fits(q), Extended, q.hot \subseteq Cooling',
           \A n \in q.excludedIDs : n \in Slots' => n \in Slots
    PROVE  Fits(q)'
  BY DEF Fits, Extended, Given

\* A number that is a new slot was excluded by nobody.
LEMMA NewSlotIsNew ==
    ASSUME Tables, NEW q, Fits(q), Extended, OneMore
    PROVE  \A n \in q.excludedIDs : n \in Slots' => n \in Slots
<1>1. Len(slots) \in Nat /\ Slots = 1 .. Len(slots)
  BY DEF Tables, Slots
<1>2. Len(slots) + 1 \notin Given
  BY <1>1, ExitAssumption DEF Given
<1> QED
  BY <1>2 DEF Fits, OneMore


-------------------------------------------------------------------------------
(* How the local variables of a request change.                                *)

\* A request that does nothing fits.
LEMMA IdleFits == Idle \in Local /\ Fits(Idle)'
<1>1. Idle \in Local
  BY ExitAssumption DEF Idle, Local, PCs
<1>2. Fits(Idle)'
  BY DEF Idle, Fits, Using, Looking
<1> QED
  BY <1>1, <1>2

\* Going on to another place.
LEMMA MovedFits ==
    ASSUME NEW w \in Local, Fits(w)', NEW pc \in PCs,
           pc \in Using <=> w.pc \in Using, pc \in Looking <=> w.pc \in Looking,
           pc = "acquire" => w.url \notin w.hot
    PROVE  [w EXCEPT !.pc = pc] \in Local /\ Fits([w EXCEPT !.pc = pc])'
<1> DEFINE q == [w EXCEPT !.pc = pc]
<1>1. /\ q \in Local /\ q.pc = pc /\ q.exit = w.exit /\ q.url = w.url
      /\ q.excludedIDs = w.excludedIDs /\ q.excludedURLs = w.excludedURLs /\ q.hot = w.hot
  BY DEF Local
<1> HIDE DEF q
<1>2. Fits(q)'
  BY <1>1 DEF Fits
<1> QED
  BY <1>1, <1>2 DEF q

\* Taking an exit.
LEMMA TakenFits ==
    ASSUME NEW w \in Local, Fits(w)', Tables', NEW e \in Given'
    PROVE  LET q == [w EXCEPT !.exit = e, !.pc = "use", !.attempt = 0, !.url = None,
                              !.reuse = FALSE, !.fetches = 0, !.hot = {}]
           IN  q \in Local /\ Fits(q)' /\ q.exit = e
<1> DEFINE q == [w EXCEPT !.exit = e, !.pc = "use", !.attempt = 0, !.url = None,
                          !.reuse = FALSE, !.fetches = 0, !.hot = {}]
<1>1. e \in Static \cup {Direct} \cup Nat /\ e # None
  <2>1. Slots' \subseteq Nat
    BY DEF Tables, Slots
  <2> QED
    BY <2>1, ExitAssumption DEF Given
<1>2. /\ q \in Local /\ q.pc = "use" /\ q.exit = e /\ q.url = None
      /\ q.excludedIDs = w.excludedIDs /\ q.excludedURLs = w.excludedURLs /\ q.hot = {}
  <2>1. PICK v : v = [w EXCEPT !.exit = e, !.pc = "use", !.attempt = 0]
    OBVIOUS
  <2>2. /\ v \in Local /\ v.pc = "use" /\ v.exit = e
        /\ v.excludedIDs = w.excludedIDs /\ v.excludedURLs = w.excludedURLs
    BY <1>1, <2>1 DEF Local, PCs
  <2>3. q = [v EXCEPT !.url = None, !.reuse = FALSE, !.fetches = 0, !.hot = {}]
    BY <2>1, <2>2 DEF Local
  <2>4. 0 \in 0 .. MaxFetches
    BY ExitAssumption
  <2> HIDE DEF q
  <2> QED
    BY <2>2, <2>3, <2>4 DEF Local
<1> HIDE DEF q
<1>3. Fits(q)'
  BY <1>1, <1>2 DEF Fits, Using, Looking
<1> QED
  BY <1>2, <1>3 DEF q

\* Looking for another exit of the remote pool.
LEMMA FetchFits ==
    ASSUME NEW w \in Local, Fits(w)', w.pc \notin Using
    PROVE  LET q == [w EXCEPT !.pc = "fetch", !.url = None, !.reuse = FALSE]
           IN  q \in Local /\ Fits(q)' /\ q.exit = w.exit
<1> DEFINE q == [w EXCEPT !.pc = "fetch", !.url = None, !.reuse = FALSE]
<1>1. /\ q \in Local /\ q.pc = "fetch" /\ q.exit = w.exit /\ q.url = None
      /\ q.excludedIDs = w.excludedIDs /\ q.excludedURLs = w.excludedURLs /\ q.hot = w.hot
  BY DEF Local, PCs
<1> HIDE DEF q
<1>2. Fits(q)'
  BY <1>1 DEF Fits, Using, Looking
<1> QED
  BY <1>1, <1>2 DEF q

\* Turning to the remote pool: to its next exit, or to the sticky one.
LEMMA TurnedFits ==
    ASSUME NEW w \in Local, Fits(w)', w.pc = "dynamic",
           NEW q \in Local, q.pc \in {"fetch", "count"}, q.exit = w.exit,
           q.excludedIDs = w.excludedIDs, q.excludedURLs = w.excludedURLs,
           q.hot \subseteq Cooling',
           q.pc = "fetch" => q.url = None,
           q.pc = "count" => q.url \in Urls \ w.excludedURLs
    PROVE  Fits(q)'
<1>1. q.url # None <=> q.pc = "count"
  BY ExitAssumption
<1> QED
  BY <1>1 DEF Fits, Using, Looking

\* The remote pool has named an exit.
LEMMA FetchedFits ==
    ASSUME NEW w \in Local, Fits(w)', w.pc = "fetch",
           NEW q \in Local, q.pc \in {"fetch", "time", "acquire"}, q.exit = w.exit,
           q.excludedIDs = w.excludedIDs, q.excludedURLs = w.excludedURLs, q.hot = w.hot,
           q.pc = "fetch" => q.url = None,
           q.pc # "fetch" => q.url \in Urls \ w.excludedURLs,
           q.pc = "acquire" => q.url \notin w.hot
    PROVE  Fits(q)'
<1>1. q.url # None <=> q.pc # "fetch"
  BY ExitAssumption
<1> QED
  BY <1>1 DEF Fits, Using, Looking

\* Giving an exit up.
LEMMA GivenUpFits ==
    ASSUME NEW w \in Local, Fits(w)', Tables', w.pc = "force", w.switch < MaxSwitches,
           NEW first \in {"static", "dynamic", "direct"}, NEW urls \in SUBSET (Urls \cup StaticUrls),
           w.excludedURLs \subseteq urls,
           w.exit \in Slots' => slots'[w.exit] \in urls
    PROVE  LET q == [w EXCEPT !.pc = first, !.exit = None, !.switch = w.switch + 1,
                              !.excludedIDs = w.excludedIDs \cup {w.exit},
                              !.excludedURLs = urls]
           IN  q \in Local /\ Fits(q)'
<1> DEFINE n == w.switch + 1
           ids == w.excludedIDs \cup {w.exit}
           q == [w EXCEPT !.pc = first, !.exit = None, !.switch = n,
                          !.excludedIDs = ids, !.excludedURLs = urls]
<1>1. n \in 0 .. MaxSwitches
  BY ExitAssumption DEF Local
<1>2. w.exit \in Given' /\ w.url = None
  BY DEF Fits, Using, Looking
<1>3. Given' \subseteq Static \cup {Direct} \cup Nat
  BY DEF Given, Tables, Slots
<1>4. /\ ids \in SUBSET (Static \cup {Direct} \cup Nat) /\ ids \subseteq Given'
      /\ \A i \in ids : i \in Slots' => slots'[i] \in urls
  BY <1>2, <1>3 DEF Fits, Local
<1> HIDE DEF n, ids
<1>5. /\ q \in Local /\ q.pc = first /\ q.exit = None /\ q.url = w.url
      /\ q.excludedIDs = ids /\ q.excludedURLs = urls /\ q.hot = w.hot
  BY <1>1, <1>4, ExitAssumption, ZenonT(60) DEF Local, PCs
<1> HIDE DEF q
<1>6. Fits(q)'
  BY <1>2, <1>4, <1>5 DEF Fits, Using, Looking
<1> QED
  BY <1>5, <1>6 DEF q, n, ids


-------------------------------------------------------------------------------
(* How the steps of one request leave the others.                              *)

\* One request changes its local variables to q, and nothing that cooled ceases to.
LEMMA OneChanged ==
    ASSUME JInv, IInv', Tables', StickyFits', Extended, OneMore, Cooling \subseteq Cooling',
           NEW r \in Requests, NEW q \in Local, Fits(q)', req' = [req EXCEPT ![r] = q]
    PROVE  JInv'
<1>1. DOMAIN req = Requests
  BY DEF JInv, IInv, Shape
<1>2. ASSUME NEW p \in Requests PROVE \E v \in Local : v = req'[p] /\ Fits(v)'
  <2>1. CASE p = r
    <3>1. req'[p] = q
      BY <1>1, <2>1
    <3> QED
      BY <3>1
  <2>2. CASE p # r
    <3>1. PICK w \in Local : w = req[p] /\ Fits(w)
      BY DEF JInv
    <3>2. Fits(w)'
      <4>1. w.hot \subseteq Cooling'
        BY <3>1 DEF Fits
      <4>2. \A n \in w.excludedIDs : n \in Slots' => n \in Slots
        BY <3>1, NewSlotIsNew DEF JInv
      <4> QED
        BY <3>1, <4>1, <4>2, FitsOn
    <3>3. req'[p] = w
      BY <1>1, <2>2, <3>1
    <3> QED
      BY <3>2, <3>3
  <2> QED
    BY <2>1, <2>2
<1>3. \A p \in Requests : req'[p] \in Local /\ Fits(req[p])'
  <2> SUFFICES ASSUME NEW p \in Requests PROVE req'[p] \in Local /\ Fits(req[p])'
    OBVIOUS
  <2>1. PICK w \in Local : w = req'[p] /\ Fits(w)'
    BY <1>2
  <2> QED
    BY <2>1
<1> QED
  BY <1>3 DEF JInv

\* What the slots and the health are is left alone.
LEMMA TableKept ==
    ASSUME JInv, UNCHANGED <<config, slots, health>>
    PROVE  /\ Tables' /\ Extended /\ OneMore /\ Cooling' = Cooling
           /\ \A w : Fits(w) => Fits(w)'
           /\ sticky' \in {sticky, NotSticky} => StickyFits'
<1>1. Slots' = Slots /\ Cooling' = Cooling
  BY DEF Slots, Cooling, Usable
<1>2. Tables' /\ Tables
  BY DEF JInv, Tables
<1>3. Extended /\ OneMore
  BY <1>1, <1>2 DEF Extended, OneMore, Slots, Tables
<1>4. \A w : Fits(w) => Fits(w)'
  BY <1>1 DEF Fits, Given
<1>5. sticky' \in {sticky, NotSticky} => StickyFits'
  BY <1>1 DEF JInv, StickyFits, Url
<1> QED
  BY <1>1, <1>2, <1>3, <1>4, <1>5

\* A slot is handed out, or one that was handed out before.
LEMMA SlotsExtended ==
    ASSUME JInv, NEW r \in Requests, Acquire(r)
    PROVE  LET n == GetSlot(req[r].url)
           IN  /\ Tables' /\ Extended /\ OneMore /\ Cooling' = Cooling
               /\ n \in Slots' /\ slots'[n] = req[r].url
               /\ n \in Slots \/ (n = Len(slots) + 1 /\ Slots' = Slots \cup {n})
<1>1. PICK w \in Local : w = req[r] /\ Fits(w)
  BY DEF JInv
<1>2. PICK u : u = w.url
  OBVIOUS
<1>3. PICK n : n = GetSlot(u)
  OBVIOUS
<1>4. slots' = (IF n \in Slots THEN slots ELSE Append(slots, u)) /\ UNCHANGED <<config, health>>
      /\ w.pc = "acquire"
  BY <1>1, <1>2, <1>3 DEF Acquire
<1>5. u \in Urls
  BY <1>1, <1>2, <1>4 DEF Fits, Local, Looking
<1>6. Tables /\ slots \in Seq(Urls) /\ Slots = 1 .. Len(slots) /\ Len(slots) \in Nat
  BY DEF JInv, Tables, Slots
<1>7. \/ n \in Slots /\ slots[n] = u
      \/ n = Len(slots) + 1 /\ n \notin Slots
  BY <1>3, <1>6, SlotOfUrl DEF JInv, IInv
<1>8. Cooling' = Cooling
  BY <1>4 DEF Cooling, Usable
<1>9. CASE n \in Slots
  <2>1. slots' = slots /\ Slots' = Slots /\ slots[n] = u
    BY <1>4, <1>6, <1>7, <1>9 DEF Slots
  <2> QED
    BY <1>1, <1>2, <1>3, <1>4, <1>6, <1>8, <1>9, <2>1 DEF Tables, Extended, OneMore
<1>10. CASE n \notin Slots
  <2>1. /\ slots' \in Seq(Urls) /\ Len(slots') = Len(slots) + 1
        /\ \A m \in Slots : slots'[m] = slots[m]
        /\ slots'[n] = u
    BY <1>4, <1>5, <1>6, <1>7, <1>10
  <2>2. Slots' = Slots \cup {n}
    BY <1>6, <1>7, <1>10, <2>1 DEF Slots
  <2>3. Tables'
    BY <1>4, <1>6, <2>1 DEF Tables
  <2> QED
    BY <1>1, <1>2, <1>3, <1>6, <1>7, <1>8, <1>10, <2>1, <2>2, <2>3 DEF Extended, OneMore
<1> QED
  BY <1>9, <1>10

\* What a request may be given.
Fresh(r, e) ==
    /\ e \notin req[r].excludedIDs
    /\ e \in Static => Usable(e)
    /\ e \in Dynamic => slots'[e] \notin req[r].hot

\* What one request's step may do to the exits of requests.
GivenFresh(r) ==
    /\ \A p \in Requests \ {r} : req'[p].exit = req[p].exit
    /\ req'[r].exit \in {req[r].exit, None} \/ Fresh(r, req'[r].exit)

\* One request changes, as in OneChanged.
LEMMA OneGiven ==
    ASSUME JInv, NEW r \in Requests, NEW q, req' = [req EXCEPT ![r] = q],
           q.exit \in {req[r].exit, None} \/ Fresh(r, q.exit)
    PROVE  GivenFresh(r)
<1>1. DOMAIN req = Requests
  BY DEF JInv, IInv, Shape
<1>2. req'[r] = q /\ \A p \in Requests \ {r} : req'[p] = req[p]
  BY <1>1
<1> QED
  BY <1>2 DEF GivenFresh, Fresh

\* A step to another place, or the end.
LEMMA GotoStep ==
    ASSUME JInv, IInv', NEW r \in Requests, NEW pc \in PCs \cup {"over"}, Goto(r, pc),
           UNCHANGED <<config, slots, health>>, sticky' \in {sticky, NotSticky},
           pc # "over" =>
              /\ pc \in Using <=> req[r].pc \in Using
              /\ pc \in Looking <=> req[r].pc \in Looking
              /\ pc = "acquire" => req[r].url \notin req[r].hot
    PROVE  JInv' /\ GivenFresh(r)
<1>1. PICK w \in Local : w = req[r] /\ Fits(w)
  BY DEF JInv
<1>2. /\ Tables' /\ Extended /\ OneMore /\ Cooling' = Cooling /\ Fits(w)' /\ StickyFits'
  BY <1>1, TableKept
<1>3. PICK q : q = IF pc = "over" THEN Idle ELSE [w EXCEPT !.pc = pc]
  OBVIOUS
<1>4. req' = [req EXCEPT ![r] = q]
  BY <1>1, <1>3 DEF Goto, JInv, IInv, Shape
<1>5. q \in Local /\ Fits(q)' /\ q.exit \in {w.exit, None}
  <2>1. CASE pc = "over"
    BY <1>3, <2>1, IdleFits DEF Idle
  <2>2. CASE pc # "over"
    <3>1. pc \in PCs
      BY <2>2
    <3>2. [w EXCEPT !.pc = pc].exit = w.exit
      BY DEF Local
    <3> QED
      BY <1>1, <1>2, <1>3, <2>2, <3>1, <3>2, MovedFits
  <2> QED
    BY <2>1, <2>2
<1>6. JInv'
  BY <1>2, <1>4, <1>5, OneChanged
<1> QED
  BY <1>1, <1>4, <1>5, <1>6, OneGiven

\* Taking an exit that may be given.
LEMMA TakesStep ==
    ASSUME JInv, IInv', NEW r \in Requests, NEW e, e \in Given', Takes(r, e), Fresh(r, e),
           Tables', StickyFits', Extended, OneMore, Cooling' = Cooling
    PROVE  JInv' /\ GivenFresh(r)
<1>1. PICK w \in Local : w = req[r] /\ Fits(w)
  BY DEF JInv
<1>2. Fits(w)'
  <2>1. w.hot \subseteq Cooling'
    BY <1>1 DEF Fits
  <2>2. \A n \in w.excludedIDs : n \in Slots' => n \in Slots
    BY <1>1, NewSlotIsNew DEF JInv
  <2> QED
    BY <1>1, <2>1, <2>2, FitsOn
<1>3. PICK q : q = [w EXCEPT !.exit = e, !.pc = "use", !.attempt = 0, !.url = None,
                             !.reuse = FALSE, !.fetches = 0, !.hot = {}]
  OBVIOUS
<1>4. q \in Local /\ Fits(q)' /\ q.exit = e
  BY <1>2, <1>3, TakenFits
<1>5. req' = [req EXCEPT ![r] = q]
  BY <1>1, <1>3 DEF Takes, JInv, IInv, Shape, Local
<1>6. JInv'
  BY <1>4, <1>5, OneChanged
<1> QED
  BY <1>4, <1>5, <1>6, OneGiven


-------------------------------------------------------------------------------
(* Picking.                                                                    *)

\* The places where a pick begins and goes on.
LEMMA StagesArePlaces ==
    /\ FirstStage \in {"static", "dynamic", "direct"}
    /\ AfterStatic \in {"over", "dynamic"} /\ AfterDynamic \in {"over", "direct"}
    /\ \A u : AfterCount(u) \in {"acquire", "time"}
  BY DEF FirstStage, AfterStatic, AfterDynamic, AfterCount

\* A request begins.
LEMMA BeginFits ==
    ASSUME JInv, IInv', NEW r \in Requests, Begin(r)
    PROVE  JInv' /\ GivenFresh(r)
<1>1. PICK prefer \in Static \cup {None} :
         req' = [req EXCEPT ![r] = [Idle EXCEPT !.pc = FirstStage, !.prefer = prefer]]
  BY DEF Begin
<1>2. PICK first \in {"static", "dynamic", "direct"} : first = FirstStage
  BY StagesArePlaces
<1>3. PICK q : q = [Idle EXCEPT !.pc = first, !.prefer = prefer]
  OBVIOUS
<1>4. q \in Local /\ q.exit = None
  <2>1. Idle \in Local /\ Idle.exit = None
    BY IdleFits DEF Idle
  <2> QED
    BY <1>2, <1>3, <2>1, ZenonT(60) DEF Local, PCs
<1>5. Fits(q)'
  BY <1>2, <1>3 DEF Idle, Fits, Using, Looking
<1>6. /\ Tables' /\ Extended /\ OneMore /\ Cooling' = Cooling /\ StickyFits'
  BY TableKept DEF Begin
<1>7. req' = [req EXCEPT ![r] = q]
  BY <1>1, <1>2, <1>3
<1>8. JInv'
  BY <1>4, <1>5, <1>6, <1>7, OneChanged
<1> QED
  BY <1>4, <1>7, <1>8, OneGiven

\* The pick among the static proxies.
LEMMA PickStaticFits ==
    ASSUME JInv, IInv', NEW r \in Requests, PickStatic(r)
    PROVE  JInv' /\ GivenFresh(r)
<1>1. UNCHANGED <<config, slots, health>> /\ req[r].pc = "static"
  BY DEF PickStatic
<1>2. CASE Goto(r, AfterStatic) /\ UNCHANGED sticky
  <2>1. AfterStatic \in {"over", "dynamic"}
    BY StagesArePlaces
  <2> QED
    BY <1>1, <1>2, <2>1, GotoStep DEF PCs, Using, Looking
<1>3. ASSUME NEW e \in Pool(r), Takes(r, e), sticky' = sticky \/ sticky' = [url |-> UrlOf[e], exit |-> e]
      PROVE  JInv' /\ GivenFresh(r)
  <2>1. /\ Tables' /\ Extended /\ OneMore /\ Cooling' = Cooling
        /\ sticky' = sticky => StickyFits'
    BY <1>1, TableKept
  <2>2. e \in Static /\ e \notin req[r].excludedIDs /\ Usable(e)
    BY DEF Pool
  <2>3. e \in Given' /\ e \notin Dynamic
    BY <2>2, ExitAssumption DEF Given, Dynamic
  <2>4. Fresh(r, e)
    BY <2>2, <2>3 DEF Fresh
  <2>5. StickyFits'
    BY <1>3, <2>1, <2>2 DEF StickyFits, Url
  <2> QED
    BY <1>3, <2>1, <2>3, <2>4, <2>5, TakesStep
<1>4. CASE PickPreferred(r)
  BY <1>3, <1>4 DEF PickPreferred
<1>5. CASE PickSticky(r)
  BY <1>3, <1>5 DEF PickSticky
<1>6. CASE PickRoundRobin(r)
  BY <1>3, <1>6 DEF PickRoundRobin, Stick
<1> QED
  BY <1>2, <1>4, <1>5, <1>6 DEF PickStatic

\* The request turns to the remote pool.
LEMMA DynamicallyFits ==
    ASSUME JInv, IInv', NEW r \in Requests, Dynamically(r)
    PROVE  JInv' /\ GivenFresh(r)
<1>1. UNCHANGED <<config, slots, health>> /\ req[r].pc = "dynamic"
  BY DEF Dynamically
<1>2. PICK w \in Local : w = req[r] /\ Fits(w)
  BY DEF JInv
<1>3. /\ Tables' /\ Extended /\ OneMore /\ Cooling' = Cooling /\ Fits(w)'
      /\ sticky' \in {sticky, NotSticky} => StickyFits'
  BY <1>1, <1>2, TableKept
<1>4. CASE Goto(r, AfterDynamic) /\ UNCHANGED sticky
  <2>1. AfterDynamic \in {"over", "direct"}
    BY StagesArePlaces
  <2> QED
    BY <1>1, <1>4, <2>1, GotoStep DEF PCs, Using, Looking
<1>5. ASSUME NEW q \in Local, q.pc \in {"fetch", "count"}, q.exit = w.exit,
             q.excludedIDs = w.excludedIDs, q.excludedURLs = w.excludedURLs,
             q.hot \subseteq Cooling,
             q.pc = "fetch" => q.url = None,
             q.pc = "count" => q.url \in Urls \ w.excludedURLs,
             req' = [req EXCEPT ![r] = q],
             sticky' \in {sticky, NotSticky}
      PROVE  JInv' /\ GivenFresh(r)
  <2>1. Fits(q)'
    BY <1>1, <1>2, <1>3, <1>5, TurnedFits
  <2>2. JInv'
    BY <1>3, <1>5, <2>1, OneChanged
  <2> QED
    BY <1>2, <1>5, <2>2, OneGiven
<1>6. w.url = None /\ DOMAIN req = Requests
  BY <1>1, <1>2 DEF Fits, Looking, JInv, IInv, Shape
<1>7. PICK v : v = [w EXCEPT !.pc = "fetch", !.hot = Cooling \cap Urls]
  OBVIOUS
<1>8. /\ v \in Local /\ v.pc = "fetch" /\ v.exit = w.exit /\ v.url = None
      /\ v.excludedIDs = w.excludedIDs /\ v.excludedURLs = w.excludedURLs
      /\ v.hot \subseteq Cooling
  <2>1. PICK hot \in SUBSET Urls : hot = Cooling \cap Urls
    OBVIOUS
  <2>2. v = [w EXCEPT !.pc = "fetch", !.hot = hot]
    BY <1>7, <2>1
  <2> QED
    BY <1>6, <2>1, <2>2, ZenonT(40) DEF Local, PCs
<1>9. PICK turned : turned = [req EXCEPT ![r].pc = "fetch", ![r].hot = Cooling \cap Urls]
  OBVIOUS
<1>10. turned = [req EXCEPT ![r] = v]
  BY <1>2, <1>6, <1>7, <1>9
<1>11. CASE req' = turned /\ sticky' \in {sticky, NotSticky}
  BY <1>5, <1>8, <1>10, <1>11
<1>12. CASE /\ sticky.exit \in Slots /\ sticky.url \notin w.excludedURLs /\ sticky' = sticky
            /\ req' = [turned EXCEPT ![r].pc = "count", ![r].url = sticky.url, ![r].reuse = TRUE]
  <2>1. sticky.url \in Urls
    <3>1. sticky.exit \notin Static /\ sticky.exit # None
      BY <1>12, ExitAssumption DEF Slots, JInv, Tables
    <3>2. sticky.url = slots[sticky.exit]
      BY <3>1 DEF JInv, StickyFits, NotSticky, Url
    <3> QED
      BY <1>12, <3>2 DEF Slots, JInv, Tables
  <2>2. PICK q : q = [v EXCEPT !.pc = "count", !.url = sticky.url, !.reuse = TRUE]
    OBVIOUS
  <2>3. /\ q \in Local /\ q.pc = "count" /\ q.exit = w.exit /\ q.url = sticky.url
        /\ q.excludedIDs = w.excludedIDs /\ q.excludedURLs = w.excludedURLs
        /\ q.hot \subseteq Cooling
    BY <1>8, <2>1, <2>2 DEF Local, PCs
  <2>4. req' = [req EXCEPT ![r] = q]
    BY <1>6, <1>10, <1>12, <2>2
  <2> QED
    BY <1>5, <1>12, <2>1, <2>3, <2>4
<1> QED
  BY <1>2, <1>4, <1>9, <1>11, <1>12 DEF Dynamically

\* A URL that may be tried, or that has not failed enough, is not one that
\* cools all along.
LEMMA UsableIsNotHot ==
    ASSUME NEW w, Fits(w), NEW u, health[u].fails < RetryAttempts \/ ~health[u].recent
    PROVE  u \notin w.hot
  BY DEF Fits, Cooling, Usable

\* A look at the count, or at the time, of a URL.
LEMMA CheckFits ==
    ASSUME JInv, IInv', NEW r \in Requests, CheckCount(r) \/ CheckTime(r)
    PROVE  JInv' /\ GivenFresh(r)
<1>1. UNCHANGED <<config, slots, health>>
  BY DEF CheckCount, CheckTime
<1>2. PICK w \in Local : w = req[r] /\ Fits(w)
  BY DEF JInv
<1>3. CASE CheckCount(r)
  <2>1. PICK pc \in {"acquire", "time"} : pc = AfterCount(w.url)
    BY StagesArePlaces
  <2>2. pc = "acquire" => w.url \notin w.hot
    BY <1>2, <2>1, UsableIsNotHot DEF AfterCount
  <2> QED
    BY <1>1, <1>2, <1>3, <2>1, <2>2, GotoStep DEF CheckCount, PCs, Using, Looking
<1>4. CASE CheckTime(r) /\ ~health[req[r].url].recent
  <2>1. w.url \notin w.hot
    BY <1>2, <1>4, UsableIsNotHot
  <2> QED
    BY <1>1, <1>2, <1>4, <2>1, GotoStep DEF CheckTime, PCs, Using, Looking
<1>5. CASE CheckTime(r) /\ health[req[r].url].recent
  <2>1. /\ Tables' /\ Extended /\ OneMore /\ Cooling' = Cooling /\ Fits(w)' /\ StickyFits'
    BY <1>1, <1>2, <1>5, TableKept DEF CheckTime
  <2>2. PICK q : q = [w EXCEPT !.pc = "fetch", !.url = None, !.reuse = FALSE]
    OBVIOUS
  <2>3. w.pc \notin Using
    BY <1>2, <1>5 DEF CheckTime, Using
  <2>4. q \in Local /\ Fits(q)' /\ q.exit = w.exit
    BY <2>1, <2>2, <2>3, FetchFits
  <2>5. req' = [req EXCEPT ![r] = q]
    BY <1>2, <1>5, <2>2 DEF CheckTime, JInv, IInv, Shape, Local
  <2>6. JInv'
    BY <2>1, <2>4, <2>5, OneChanged
  <2> QED
    BY <1>2, <2>4, <2>5, <2>6, OneGiven
<1> QED
  BY <1>3, <1>4, <1>5


\* The remote pool names an exit, or fails.
LEMMA FetchStepFits ==
    ASSUME JInv, IInv', NEW r \in Requests, Fetch(r)
    PROVE  JInv' /\ GivenFresh(r)
<1>1. UNCHANGED <<config, slots, health, sticky>> /\ req[r].pc = "fetch"
  BY DEF Fetch
<1>2. PICK w \in Local : w = req[r] /\ Fits(w)
  BY DEF JInv
<1>3. /\ Tables' /\ Extended /\ OneMore /\ Cooling' = Cooling /\ Fits(w)' /\ StickyFits'
  BY <1>1, <1>2, TableKept
<1>4. CASE Goto(r, AfterDynamic)
  <2>1. AfterDynamic \in {"over", "direct"}
    BY StagesArePlaces
  <2> QED
    BY <1>1, <1>4, <2>1, GotoStep DEF PCs, Using, Looking
<1>5. ASSUME NEW u \in config.pool, w.fetches < MaxFetches,
             req' = [req EXCEPT ![r].fetches = @ + 1,
                                ![r].pc = IF Acceptable(r, u) THEN AfterCount(u) ELSE "fetch",
                                ![r].url = IF Acceptable(r, u) THEN u ELSE None]
      PROVE  JInv' /\ GivenFresh(r)
  <2>1. PICK pc \in {"fetch", "time", "acquire"} :
           pc = IF Acceptable(r, u) THEN AfterCount(u) ELSE "fetch"
    BY StagesArePlaces
  <2>2. PICK url : url = IF Acceptable(r, u) THEN u ELSE None
    OBVIOUS
  <2>3. u \in Urls
    BY ExitAssumption DEF JInv, Tables
  <2>4. /\ pc = "fetch" => url = None
        /\ pc # "fetch" => url \in Urls \ w.excludedURLs
    <3>1. pc = "fetch" <=> ~Acceptable(r, u)
      BY <2>1, StagesArePlaces
    <3> QED
      BY <1>2, <2>2, <2>3, <3>1 DEF Acceptable
  <2>5. pc = "acquire" => url \notin w.hot
    BY <1>2, <2>1, <2>2, UsableIsNotHot DEF AfterCount
  <2>6. PICK n \in 0 .. MaxFetches : n = w.fetches + 1
    BY <1>5, ExitAssumption DEF Local
  <2>7. PICK q : q = [w EXCEPT !.fetches = n, !.pc = pc, !.url = url]
    OBVIOUS
  <2>8. q \in Local /\ Fits(q)' /\ q.exit = w.exit
    <3>1. url \in Urls \cup {None}
      BY <2>4
    <3>2. /\ q \in Local /\ q.pc = pc /\ q.exit = w.exit /\ q.url = url
          /\ q.excludedIDs = w.excludedIDs /\ q.excludedURLs = w.excludedURLs /\ q.hot = w.hot
      BY <2>7, <3>1 DEF Local, PCs
    <3>3. w.pc = "fetch" /\ Fits(w)'
      BY <1>1, <1>2, <1>3
    <3> QED
      BY <2>4, <2>5, <3>2, <3>3, FetchedFits
  <2>9. req' = [req EXCEPT ![r] = q]
    <3>1. req' = [req EXCEPT ![r].fetches = n, ![r].pc = pc, ![r].url = url]
      BY <1>2, <1>5, <2>1, <2>2, <2>6 DEF JInv, IInv, Shape
    <3> QED
      BY <1>2, <2>7, <3>1 DEF JInv, IInv, Shape
  <2>10. JInv'
    BY <1>3, <2>8, <2>9, OneChanged
  <2> QED
    BY <1>2, <2>8, <2>9, <2>10, OneGiven
<1> QED
  BY <1>2, <1>4, <1>5 DEF Fetch

\* A slot is looked up and taken, or has no room.
LEMMA AcquireFits ==
    ASSUME JInv, IInv', NEW r \in Requests, Acquire(r)
    PROVE  JInv' /\ GivenFresh(r)
<1>1. PICK w \in Local : w = req[r] /\ Fits(w)
  BY DEF JInv
<1>2. PICK u : u = w.url
  OBVIOUS
<1>3. PICK n : n = GetSlot(u)
  OBVIOUS
<1>4. /\ Tables' /\ Extended /\ OneMore /\ Cooling' = Cooling
      /\ n \in Slots' /\ slots'[n] = u
      /\ n \in Slots \/ (n = Len(slots) + 1 /\ Slots' = Slots \cup {n})
  BY <1>1, <1>2, <1>3, SlotsExtended
<1>5. w.pc = "acquire" /\ u \notin w.hot /\ u \notin w.excludedURLs /\ u \in Urls
  BY <1>1, <1>2 DEF Acquire, Fits, Looking, Local
<1>6. n \notin Static
  BY <1>4, ExitAssumption, SMTT(20) DEF Tables, Slots
<1>7. StickyFits \/ sticky' = NotSticky
  BY DEF JInv
<1>8. CASE sticky' = sticky
  <2>1. StickyFits'
    <3>1. CASE sticky = NotSticky
      BY <1>8, <3>1 DEF StickyFits
    <3>2. CASE sticky.exit \in Static /\ sticky.url = UrlOf[sticky.exit]
      BY <1>8, <3>2 DEF StickyFits, Url
    <3>3. CASE sticky.exit \in Slots /\ sticky.exit \notin Static /\ sticky.url = slots[sticky.exit]
      BY <1>4, <1>8, <3>3 DEF StickyFits, Url, Extended
    <3> QED
      BY <3>1, <3>2, <3>3 DEF JInv, StickyFits, Url
  <2>2. CASE req' = [req EXCEPT ![r].pc = "fetch", ![r].url = None, ![r].reuse = FALSE]
    <3>1. PICK q : q = [w EXCEPT !.pc = "fetch", !.url = None, !.reuse = FALSE]
      OBVIOUS
    <3>2. Fits(w)'
      <4>1. w.hot \subseteq Cooling'
        BY <1>1, <1>4 DEF Fits
      <4>2. \A i \in w.excludedIDs : i \in Slots' => i \in Slots
        BY <1>1, <1>4, NewSlotIsNew DEF JInv
      <4> QED
        BY <1>1, <1>4, <4>1, <4>2, FitsOn
    <3>3. q \in Local /\ Fits(q)' /\ q.exit = w.exit
      BY <1>5, <3>1, <3>2, FetchFits DEF Using
    <3>4. req' = [req EXCEPT ![r] = q]
      BY <1>1, <2>2, <3>1 DEF JInv, IInv, Shape, Local
    <3>5. JInv'
      BY <1>4, <2>1, <3>3, <3>4, OneChanged
    <3> QED
      BY <1>1, <3>3, <3>4, <3>5, OneGiven
  <2>3. CASE Takes(r, n)
    <3>1. Fresh(r, n)
      <4>1. n \notin w.excludedIDs
        <5>1. CASE n \in Slots
          <6>1. slots[n] = u
            BY <1>4, <5>1 DEF Extended
          <6> QED
            BY <1>1, <1>5, <5>1, <6>1 DEF Fits
        <5>2. CASE n \notin Slots
          BY <1>1, <1>4, <5>2, NewSlotIsNew DEF JInv
        <5> QED
          BY <5>1, <5>2
      <4> QED
        BY <1>1, <1>4, <1>5, <1>6, <4>1 DEF Fresh
    <3> QED
      BY <1>4, <2>1, <2>3, <3>1, TakesStep DEF Given
  <2> QED
    BY <1>1, <1>2, <1>3, <2>2, <2>3 DEF Acquire
<1>9. CASE sticky' # sticky
  <2>1. Takes(r, n) /\ sticky' = [url |-> u, exit |-> n]
    BY <1>1, <1>2, <1>3, <1>9 DEF Acquire, Stick
  <2>2. StickyFits'
    BY <1>4, <1>6, <2>1 DEF StickyFits, Url
  <2>3. Fresh(r, n)
    <3>1. n \notin w.excludedIDs
      <4>1. CASE n \in Slots
        <5>1. slots[n] = u
          BY <1>4, <4>1 DEF Extended
        <5> QED
          BY <1>1, <1>5, <4>1, <5>1 DEF Fits
      <4>2. CASE n \notin Slots
        BY <1>1, <1>4, <4>2, NewSlotIsNew DEF JInv
      <4> QED
        BY <4>1, <4>2
    <3> QED
      BY <1>1, <1>4, <1>5, <1>6, <3>1 DEF Fresh
  <2> QED
    BY <1>4, <2>1, <2>2, <2>3, TakesStep DEF Given
<1> QED
  BY <1>8, <1>9

\* The direct exit.
LEMMA PickDirectFits ==
    ASSUME JInv, IInv', NEW r \in Requests, PickDirect(r)
    PROVE  JInv' /\ GivenFresh(r)
<1>1. UNCHANGED <<config, slots, health, sticky>> /\ req[r].pc = "direct"
  BY DEF PickDirect
<1>2. /\ Tables' /\ Extended /\ OneMore /\ Cooling' = Cooling /\ StickyFits'
  BY <1>1, TableKept
<1>3. CASE Goto(r, "over")
  BY <1>1, <1>3, GotoStep
<1>4. CASE Direct \notin req[r].excludedIDs /\ Takes(r, Direct)
  <2>1. Direct \notin Static /\ Direct \notin Dynamic
    BY ExitAssumption DEF Dynamic
  <2> QED
    BY <1>2, <1>4, <2>1, TakesStep DEF Given, Fresh
<1> QED
  BY <1>3, <1>4 DEF PickDirect


-------------------------------------------------------------------------------
(* Outcomes.                                                                   *)

\* What counting leaves of an exit's health, whatever the count.
LEMMA HealthTypes ==
    ASSUME NEW f \in Nat
    PROVE  /\ Health(f) \in [fails : 0 .. RetryAttempts, recent : BOOLEAN]
           /\ f >= RetryAttempts => Health(f).fails = RetryAttempts /\ Health(f).recent
<1>1. RetryAttempts \in Nat \ {0}
  BY ExitAssumption
<1> QED
  BY <1>1 DEF Health

\* A failure that is counted, or forced, ends nobody's cooldown.
LEMMA HealthWorse ==
    ASSUME JInv, UNCHANGED <<config, slots>>, NEW k, NEW f \in Nat,
           health[k].fails >= RetryAttempts => f >= RetryAttempts,
           health' = [health EXCEPT ![k] = Health(f)]
    PROVE  Tables' /\ Extended /\ OneMore /\ Cooling \subseteq Cooling'
<1>1. PICK h \in [fails : 0 .. RetryAttempts, recent : BOOLEAN] : h = Health(f)
  BY HealthTypes
<1>2. f >= RetryAttempts => h.fails = RetryAttempts /\ h.recent
  BY <1>1, HealthTypes
<1>3. health' = [health EXCEPT ![k] = h]
  BY <1>1
<1>4. RetryAttempts \in Nat \ {0}
  BY ExitAssumption
<1>5. Tables /\ Tables' /\ DOMAIN health' = DOMAIN health /\ Slots' = Slots
  BY <1>1, <1>3 DEF JInv, Tables, Slots
<1>6. ASSUME NEW j \in Cooling PROVE j \in Cooling'
  <2>1. /\ j \in DOMAIN health /\ health[j].fails \in 0 .. RetryAttempts
        /\ ~(health[j].fails < RetryAttempts) /\ health[j].recent
    BY <1>4, <1>5 DEF Cooling, Usable, Tables
  <2>2. CASE j = k
    BY <1>2, <1>3, <1>4, <1>5, <2>1, <2>2 DEF Cooling, Usable
  <2>3. CASE j # k
    BY <1>3, <1>5, <2>1, <2>3 DEF Cooling, Usable
  <2> QED
    BY <2>2, <2>3
<1>7. Extended /\ OneMore
  BY <1>5 DEF Extended, OneMore, Slots, Tables
<1> QED
  BY <1>5, <1>6, <1>7

\* The cooldown of k is over, and no request counts on it any more.
LEMMA CooledFits ==
    ASSUME JInv, IInv', NEW k, NEW h \in [fails : 0 .. RetryAttempts, recent : BOOLEAN],
           UNCHANGED <<config, slots, sticky>>, health' = [health EXCEPT ![k] = h],
           NEW requests, \A p \in Requests : requests[p] \in {req[p], Idle},
           req' = Cooled(k, requests)
    PROVE  JInv' /\ \A p \in Requests : req'[p].exit \in {req[p].exit, None}
<1>1. Tables /\ Tables' /\ Slots' = Slots /\ DOMAIN health' = DOMAIN health
  BY DEF JInv, Tables, Slots
<1>2. StickyFits'
  BY <1>1 DEF JInv, StickyFits, Url
<1>3. \A j \in Cooling \ {k} : j \in Cooling'
  BY <1>1 DEF Cooling, Usable
<1>4. ASSUME NEW p \in Requests
      PROVE  /\ \E v \in Local : v = req'[p] /\ Fits(v)'
             /\ req'[p].exit \in {req[p].exit, None}
  <2>1. PICK w \in Local : w = requests[p] /\ Fits(w) /\ w.exit \in {req[p].exit, None}
    <3>1. Idle \in Local /\ Idle.exit = None
      BY IdleFits DEF Idle
    <3>2. Fits(Idle)
      BY DEF Idle, Fits, Using, Looking
    <3> QED
      BY <3>1, <3>2 DEF JInv
  <2>2. PICK hot \in SUBSET Urls : hot = w.hot \ {k}
    BY DEF Local
  <2>3. PICK v : v = [w EXCEPT !.hot = hot]
    OBVIOUS
  <2>4. /\ v \in Local /\ v.pc = w.pc /\ v.exit = w.exit /\ v.url = w.url
        /\ v.excludedIDs = w.excludedIDs /\ v.excludedURLs = w.excludedURLs /\ v.hot = hot
    BY <2>3 DEF Local
  <2>5. Fits(v)'
    <3>1. hot \subseteq Cooling'
      BY <1>3, <2>1, <2>2 DEF Fits
    <3> QED
      BY <1>1, <2>1, <2>2, <2>4, <3>1 DEF Fits, Given
  <2>6. req'[p] = v
    BY <2>1, <2>2, <2>3 DEF Cooled, Local
  <2> QED
    BY <2>1, <2>4, <2>5, <2>6
<1>5. \A p \in Requests : req'[p] \in Local /\ Fits(req[p])'
  <2> SUFFICES ASSUME NEW p \in Requests PROVE req'[p] \in Local /\ Fits(req[p])'
    OBVIOUS
  <2>1. PICK v \in Local : v = req'[p] /\ Fits(v)'
    BY <1>4
  <2> QED
    BY <2>1
<1> QED
  BY <1>1, <1>2, <1>4, <1>5 DEF JInv

\* A use that succeeded.
LEMMA SucceedsFits ==
    ASSUME JInv, IInv', NEW r \in Requests, Succeeds(r)
    PROVE  JInv' /\ \A p \in Requests : req'[p].exit \in {req[p].exit, None}
<1>1. UNCHANGED <<config, slots, sticky>>
  BY DEF Succeeds
<1>2. DOMAIN req = Requests
  BY DEF JInv, IInv, Shape
<1>3. CASE health' = health /\ req' = [req EXCEPT ![r] = Idle]
  <2>1. Tables' /\ Extended /\ OneMore /\ Cooling' = Cooling /\ StickyFits'
    BY <1>1, <1>3, TableKept
  <2>2. JInv'
    BY <1>3, <2>1, IdleFits, OneChanged
  <2> QED
    BY <1>2, <1>3, <2>2 DEF Idle
<1>4. CASE /\ health' = [health EXCEPT ![Key(req[r].exit)] = Health(0)]
           /\ req' = Cooled(Key(req[r].exit), [req EXCEPT ![r] = Idle])
  <2>1. PICK h \in [fails : 0 .. RetryAttempts, recent : BOOLEAN] : h = Health(0)
    BY HealthTypes
  <2>2. PICK k : k = Key(req[r].exit)
    OBVIOUS
  <2>3. PICK requests : requests = [req EXCEPT ![r] = Idle]
    OBVIOUS
  <2>4. \A p \in Requests : requests[p] \in {req[p], Idle}
    BY <1>2, <2>3
  <2> QED
    BY <1>1, <1>4, <2>1, <2>2, <2>3, <2>4, CooledFits
<1> QED
  BY <1>3, <1>4 DEF Succeeds

\* A failure before it is counted.
LEMMA FailsFits ==
    ASSUME JInv, IInv', NEW r \in Requests, Fails(r)
    PROVE  JInv' /\ GivenFresh(r)
<1>1. PICK pc \in {"failed", "force"} : Goto(r, pc)
  BY DEF Fails
<1>2. UNCHANGED <<config, slots, health>> /\ req[r].pc = "use" /\ sticky' \in {sticky, NotSticky}
  BY DEF Fails
<1> QED
  BY <1>1, <1>2, GotoStep DEF PCs, Using, Looking


\* The sticky exit stays what it is while no slots are added, or is cleared.
LEMMA StickyKept ==
    ASSUME JInv, slots' = slots, sticky' \in {sticky, NotSticky}
    PROVE  StickyFits'
<1>1. Slots' = Slots
  BY DEF Slots
<1> QED
  BY <1>1 DEF JInv, StickyFits, Url

\* The health behind a failure that is counted or forced.
LEMMA FailedHealth ==
    ASSUME JInv, UNCHANGED <<config, slots>>, NEW e \in Given,
           \/ health' = health
           \/ health' = [health EXCEPT ![Key(e)] = Health(RetryAttempts)]
           \/ health' = [health EXCEPT ![Key(e)] = Health(health[Key(e)].fails + 1)]
              /\ e # Direct
    PROVE  Tables' /\ Extended /\ OneMore /\ Cooling \subseteq Cooling'
<1>1. RetryAttempts \in Nat \ {0}
  BY ExitAssumption
<1>2. CASE health' = health
  BY <1>2, TableKept
<1>3. CASE health' = [health EXCEPT ![Key(e)] = Health(RetryAttempts)]
  <2>1. PICK k : k = Key(e)
    OBVIOUS
  <2>2. PICK g \in Nat : g = RetryAttempts /\ g >= RetryAttempts
    BY <1>1
  <2>3. health' = [health EXCEPT ![k] = Health(g)]
    BY <1>3, <2>1, <2>2
  <2> QED
    BY <2>2, <2>3, HealthWorse
<1>4. CASE health' = [health EXCEPT ![Key(e)] = Health(health[Key(e)].fails + 1)] /\ e # Direct
  <2>1. PICK k : k = Key(e)
    OBVIOUS
  <2>2. k \in Static \cup Urls
    BY <1>4, <2>1 DEF Key, Given, Slots, JInv, Tables
  <2>3. PICK f \in Nat : f = health[k].fails
    BY <1>1, <2>2 DEF JInv, Tables
  <2>4. PICK g \in Nat : g = f + 1
    OBVIOUS
  <2>5. health' = [health EXCEPT ![k] = Health(g)]
    BY <1>4, <2>1, <2>3, <2>4
  <2>6. health[k].fails >= RetryAttempts => g >= RetryAttempts
    BY <1>1, <2>3, <2>4
  <2> QED
    BY <2>5, <2>6, HealthWorse
<1> QED
  BY <1>2, <1>3, <1>4

\* A failure that is counted.
LEMMA CountedFits ==
    ASSUME JInv, IInv', NEW r \in Requests, Counted(r)
    PROVE  JInv' /\ GivenFresh(r)
<1>1. UNCHANGED <<config, slots>> /\ req[r].pc = "failed" /\ sticky' \in {sticky, NotSticky}
  BY DEF Counted
<1>2. PICK w \in Local : w = req[r] /\ Fits(w)
  BY DEF JInv
<1>3. w.exit \in Given
  BY <1>1, <1>2 DEF Fits, Using
<1>4. Tables' /\ Extended /\ OneMore /\ Cooling \subseteq Cooling'
  <2>1. \/ health' = health
        \/ health' = [health EXCEPT ![Key(w.exit)] = Health(health[Key(w.exit)].fails + 1)]
           /\ w.exit # Direct
    BY <1>2 DEF Counted
  <2> QED
    BY <1>1, <1>3, <2>1, FailedHealth
<1>5. Fits(w)' /\ StickyFits'
  <2>1. \A n \in w.excludedIDs : n \in Slots' => n \in Slots
    BY <1>2, <1>4, NewSlotIsNew DEF JInv
  <2>2. w.hot \subseteq Cooling'
    BY <1>2, <1>4 DEF Fits
  <2> QED
    BY <1>1, <1>2, <1>4, <2>1, <2>2, FitsOn, StickyKept
<1>6. DOMAIN req = Requests
  BY DEF JInv, IInv, Shape
<1>7. PICK n \in Nat : n = w.attempt + 1
  BY DEF Local
<1>8. \/ req' = [req EXCEPT ![r] = Idle]
      \/ req' = [req EXCEPT ![r] = [w EXCEPT !.pc = "force"]]
      \/ req' = [req EXCEPT ![r] = [w EXCEPT !.attempt = n, !.pc = "use"]]
  <2>1. CASE req' = [req EXCEPT ![r].attempt = @ + 1, ![r].pc = "use"]
    <3>1. req' = [req EXCEPT ![r].attempt = n, ![r].pc = "use"]
      BY <1>2, <1>6, <1>7, <2>1
    <3> QED
      BY <1>2, <1>6, <3>1
  <2>2. CASE Goto(r, "force")
    BY <1>2, <1>6, <2>2 DEF Goto
  <2> QED
    BY <2>1, <2>2 DEF Counted
<1>9. ASSUME NEW q \in Local, Fits(q)', q.exit \in {w.exit, None}, req' = [req EXCEPT ![r] = q]
      PROVE  JInv' /\ GivenFresh(r)
  <2>1. JInv'
    BY <1>4, <1>5, <1>9, OneChanged
  <2> QED
    BY <1>2, <1>9, <2>1, OneGiven
<1>10. CASE req' = [req EXCEPT ![r] = Idle]
  <2>1. Idle.exit = None
    BY DEF Idle
  <2> QED
    BY <1>9, <1>10, <2>1, IdleFits
<1>11. CASE req' = [req EXCEPT ![r] = [w EXCEPT !.pc = "force"]]
  <2>1. PICK q : q = [w EXCEPT !.pc = "force"]
    OBVIOUS
  <2>2. q \in Local /\ Fits(q)'
    <3>1. "force" \in PCs /\ "force" \in Using /\ w.pc \in Using
          /\ "force" \notin Looking /\ w.pc \notin Looking
      BY <1>1, <1>2 DEF PCs, Using, Looking
    <3> QED
      BY <1>5, <2>1, <3>1, MovedFits
  <2>3. q.exit = w.exit
    BY <2>1 DEF Local
  <2> QED
    BY <1>9, <1>11, <2>1, <2>2, <2>3
<1>12. CASE req' = [req EXCEPT ![r] = [w EXCEPT !.attempt = n, !.pc = "use"]]
  <2>1. PICK q : q = [w EXCEPT !.attempt = n, !.pc = "use"]
    OBVIOUS
  <2>2. /\ q \in Local /\ q.pc = "use" /\ q.exit = w.exit /\ q.url = w.url
        /\ q.excludedIDs = w.excludedIDs /\ q.excludedURLs = w.excludedURLs /\ q.hot = w.hot
    BY <2>1 DEF Local, PCs
  <2>3. Fits(q)'
    BY <1>1, <1>2, <1>5, <2>2 DEF Fits, Using, Looking
  <2> QED
    BY <1>9, <1>12, <2>1, <2>2, <2>3
<1> QED
  BY <1>8, <1>10, <1>11, <1>12

\* An exit is given up.
LEMMA ForcedFits ==
    ASSUME JInv, IInv', NEW r \in Requests, Forced(r)
    PROVE  JInv' /\ \A p \in Requests : req'[p].exit \in {req[p].exit, None}
<1>1. UNCHANGED <<config, slots, sticky>> /\ req[r].pc = "force"
  BY DEF Forced
<1>2. PICK w \in Local : w = req[r] /\ Fits(w)
  BY DEF JInv
<1>3. PICK e \in Given : e = w.exit
  BY <1>1, <1>2 DEF Fits, Using
<1>4. Tables' /\ Extended /\ OneMore /\ Cooling \subseteq Cooling'
  <2>1. \/ health' = health
        \/ health' = [health EXCEPT ![Key(e)] = Health(RetryAttempts)]
    BY <1>2, <1>3 DEF Forced
  <2> QED
    BY <1>1, <2>1, FailedHealth
<1>5. Fits(w)' /\ StickyFits'
  <2>1. \A n \in w.excludedIDs : n \in Slots' => n \in Slots
    BY <1>2, <1>4, NewSlotIsNew DEF JInv
  <2>2. w.hot \subseteq Cooling'
    BY <1>2, <1>4 DEF Fits
  <2> QED
    BY <1>1, <1>2, <1>4, <2>1, <2>2, FitsOn, StickyKept
<1>6. DOMAIN req = Requests
  BY DEF JInv, IInv, Shape
<1>7. ASSUME NEW q \in Local, Fits(q)', q.exit = None, req' = [req EXCEPT ![r] = q]
      PROVE  JInv' /\ \A p \in Requests : req'[p].exit \in {req[p].exit, None}
  <2>1. JInv'
    BY <1>4, <1>5, <1>7, OneChanged
  <2> QED
    BY <1>6, <1>7, <2>1
<1>8. CASE w.switch = MaxSwitches
  <2>1. req' = [req EXCEPT ![r] = Idle] /\ Idle.exit = None
    BY <1>2, <1>8 DEF Forced, Idle
  <2> QED
    BY <1>7, <2>1, IdleFits
<1>9. CASE w.switch # MaxSwitches
  <2>1. PICK first \in {"static", "dynamic", "direct"} : first = FirstStage
    BY StagesArePlaces
  <2>2. PICK urls : urls = IF e = Direct THEN w.excludedURLs ELSE w.excludedURLs \cup {Url(e)}
    OBVIOUS
  <2>3. e = Direct \/ Url(e) \in Urls \cup StaticUrls
    BY DEF Url, Given, StaticUrls, Slots, JInv, Tables
  <2>4. urls \in SUBSET (Urls \cup StaticUrls) /\ w.excludedURLs \subseteq urls
    BY <2>2, <2>3 DEF Local
  <2>5. e \in Slots' => slots'[e] \in urls
    <3>1. ASSUME e \in Slots' PROVE slots'[e] \in urls
      <4>1. e \in Nat /\ slots'[e] = slots[e]
        BY <1>1, <3>1 DEF Slots, JInv, Tables
      <4>2. e # Direct /\ e \notin Static
        BY <4>1, ExitAssumption
      <4> QED
        BY <2>2, <4>1, <4>2 DEF Url
    <3> QED
      BY <3>1
  <2>6. w.switch < MaxSwitches /\ w.switch + 1 \in 0 .. MaxSwitches
    BY <1>9, ExitAssumption DEF Local
  <2>7. PICK n \in 0 .. MaxSwitches : n = w.switch + 1
    BY <2>6
  <2>8. PICK ids : ids = w.excludedIDs \cup {e}
    OBVIOUS
  <2>9. PICK q : q = [w EXCEPT !.pc = first, !.exit = None, !.switch = n,
                               !.excludedIDs = ids, !.excludedURLs = urls]
    OBVIOUS
  <2>10. q \in Local /\ Fits(q)'
    <3>1. q = [w EXCEPT !.pc = first, !.exit = None, !.switch = w.switch + 1,
                        !.excludedIDs = w.excludedIDs \cup {w.exit}, !.excludedURLs = urls]
      BY <1>3, <2>7, <2>8, <2>9
    <3> QED
      BY <1>1, <1>2, <1>3, <1>4, <1>5, <2>4, <2>5, <2>6, <3>1, GivenUpFits
  <2>11. q.exit = None
    BY <2>9 DEF Local
  <2>12. req' = [req EXCEPT ![r] = q]
    <3>1. req' = [req EXCEPT ![r].pc = first, ![r].exit = None, ![r].switch = n,
                             ![r].excludedIDs = ids, ![r].excludedURLs = urls]
      BY <1>2, <1>3, <1>6, <1>9, <2>1, <2>2, <2>7, <2>8 DEF Forced, Local
    <3> QED
      BY <1>2, <1>6, <2>9, <3>1
  <2> QED
    BY <1>7, <2>10, <2>11, <2>12
<1> QED
  BY <1>8, <1>9


\* At first there are no slots, nothing has failed and no request has begun.
LEMMA InitFits == Init => JInv
<1> SUFFICES ASSUME Init PROVE JInv
  OBVIOUS
<1>1. IInv
  BY InitIInv
<1>2. Tables
  <2>1. 0 \in 0 .. RetryAttempts
    BY ExitAssumption
  <2> QED
    BY <2>1 DEF Init, Tables
<1>3. StickyFits
  BY DEF Init, StickyFits
<1>4. Idle \in Local /\ Fits(Idle)
  BY IdleFits DEF Idle, Fits, Using, Looking
<1> QED
  BY <1>1, <1>2, <1>3, <1>4 DEF Init, JInv

\* What the action property says of a step.
NothingStale ==
    \A r \in Requests :
        req[r].exit = None /\ req'[r].exit # None =>
            LET e == req'[r].exit
            IN  /\ e \notin req[r].excludedIDs
                /\ e \in Static => Usable(e)
                /\ e \in Dynamic => slots'[e] \notin req[r].hot

\* Every step keeps what a request looks at fresh, and gives it nothing else.
LEMMA NextFits == JInv /\ [Next]_vars => JInv' /\ NothingStale
<1> SUFFICES ASSUME JInv, [Next]_vars PROVE JInv' /\ NothingStale
  OBVIOUS
<1>1. IInv'
  BY NextPreserves DEF JInv
<1>2. ASSUME \A p \in Requests : req'[p].exit \in {req[p].exit, None}
      PROVE  NothingStale
  BY <1>2 DEF NothingStale
<1>3. ASSUME NEW r \in Requests, GivenFresh(r) PROVE NothingStale
  <2> SUFFICES ASSUME NEW p \in Requests, req[p].exit = None, req'[p].exit # None
               PROVE  Fresh(p, req'[p].exit)
    BY DEF NothingStale, Fresh
  <2> QED
    BY <1>3 DEF GivenFresh
<1>4. CASE TimePasses
  <2>1. PICK k \in Cooling :
          /\ health' = [health EXCEPT ![k].recent = FALSE]
          /\ req' = Cooled(k, req)
    BY <1>4 DEF TimePasses
  <2>2. health[k] \in [fails : 0 .. RetryAttempts, recent : BOOLEAN]
    BY DEF Cooling, JInv, Tables
  <2>3. PICK h \in [fails : 0 .. RetryAttempts, recent : BOOLEAN] :
           h = [health[k] EXCEPT !.recent = FALSE]
    BY <2>2
  <2>4. health' = [health EXCEPT ![k] = h] /\ UNCHANGED <<config, slots, sticky>>
    BY <1>4, <2>1, <2>3 DEF TimePasses
  <2>5. PICK requests : requests = req
    OBVIOUS
  <2>6. req' = Cooled(k, requests) /\ \A p \in Requests : requests[p] \in {req[p], Idle}
    BY <2>1, <2>5
  <2>7. JInv' /\ \A p \in Requests : req'[p].exit \in {req[p].exit, None}
    BY <1>1, <2>4, <2>6, CooledFits
  <2> QED
    BY <1>2, <2>7
<1>5. ASSUME NEW r \in Requests, Pick(r) PROVE JInv' /\ GivenFresh(r)
  BY <1>1, <1>5, BeginFits, PickStaticFits, DynamicallyFits, FetchStepFits, CheckFits,
     AcquireFits, PickDirectFits
  DEF Pick
<1>6. ASSUME NEW r \in Requests, Outcome(r) PROVE JInv' /\ NothingStale
  BY <1>1, <1>2, <1>3, <1>6, SucceedsFits, FailsFits, CountedFits, ForcedFits DEF Outcome
<1>7. CASE UNCHANGED vars
  <2>1. UNCHANGED <<config, slots, health>> /\ sticky' = sticky /\ req' = req
    BY <1>7 DEF vars
  <2>2. Tables' /\ StickyFits' /\ \A w : Fits(w) => Fits(w)'
    BY <2>1, TableKept
  <2>3. \A p \in Requests : req'[p] \in Local /\ Fits(req[p])'
    <3> SUFFICES ASSUME NEW p \in Requests PROVE req'[p] \in Local /\ Fits(req[p])'
      OBVIOUS
    <3>1. PICK w \in Local : w = req[p] /\ Fits(w)
      BY DEF JInv
    <3>2. w = req'[p] /\ Fits(w)'
      BY <2>1, <2>2, <3>1
    <3> QED
      BY <3>2
  <2>4. NothingStale
    BY <1>2, <2>1
  <2> QED
    BY <1>1, <2>2, <2>3, <2>4 DEF JInv
<1> QED
  BY <1>3, <1>4, <1>5, <1>6, <1>7 DEF Next

\* The types of the state, and the sticky exit being a URL and an id that
\* belong together whatever requests do to it (setStickyProxy, getStickyProxy).
THEOREM ExitTypes == Spec => []TypeOK
<1>1. JInv /\ [Next]_vars => JInv'
  BY NextFits
<1> QED
  BY InitFits, <1>1, FitsAreTypes, PTL DEF Spec

\* No request is given an exit it has given up before, a static proxy that
\* cools, or an exit of the remote pool that has been cooling ever since the
\* request turned to the pool: for every number of requests and exits, all
\* settings, and every order of what they do to health and sticky exit
\* (acquireSlotExcept, fetchOrStickyRemoteProxyExcept, isDynamicProxyCooling).
THEOREM FreshExitGiven == Spec => GivenAFreshExit
<1>1. JInv /\ [Next]_vars => JInv' /\ NothingStale
  BY NextFits
<1>2. NothingStale =>
        \A r \in Requests :
           req[r].exit = None /\ req'[r].exit # None =>
              LET e == req'[r].exit
              IN  /\ e \notin req[r].excludedIDs
                  /\ e \in Static => Usable(e)
                  /\ e \in Dynamic => slots'[e] \notin req[r].hot
  BY DEF NothingStale
<1> QED
  BY InitFits, <1>1, <1>2, PTL DEF Spec, GivenAFreshExit

===============================================================================
