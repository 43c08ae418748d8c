------------------------------- MODULE ProxyPool -------------------------------
(***************************************************************************)
(* The static proxy pool of proxy.go: the table proxies in the database,   *)
(* its copy proxyCache in memory, and everything that writes the one and   *)
(* then the other: request results, forced cooldowns, the admin handlers   *)
(* (each followed by loadProxies), the import of a remote pool's list and  *)
(* the scheduler's reload every minute.                                    *)
(* Requests read only the copy, and take the host's own address when it is *)
(* empty: acquireSlotExcept in mode auto without a remote pool.            *)
(*                                                                         *)
(* One task is one goroutine; a task's step is one statement sent to the   *)
(* database or one section under proxyMu.  Columns nobody decides by       *)
(* (name, weight, last_error) and the cooldown clock are left out.         *)
(***************************************************************************)
EXTENDS Integers, FiniteSets, TLC

CONSTANTS Workers,        \* goroutines of requests and admin calls
          Scheduler,      \* the goroutine of startScheduler
          Proxies,        \* ids the table may give out
          Threshold,      \* proxyFailThreshold()
          FallbackDirect,
          BootReadMayFail,\* whether the first loadProxies may find an error
          MaxOps          \* bound: operations started by workers

ASSUME PoolAssumption ==
    /\ IsFiniteSet(Proxies)
    /\ Scheduler \notin Workers
    /\ Threshold \in Nat \ {0}
    /\ FallbackDirect \in BOOLEAN
    /\ BootReadMayFail \in BOOLEAN
    /\ MaxOps \in Nat

Tasks == Workers \cup {Scheduler}
Row == [enabled : BOOLEAN, fails : 0 .. Threshold]
Table == UNION {[ids -> Row] : ids \in SUBSET Proxies}
Empty == <<>>

VARIABLES db,      \* the table proxies
          cache,   \* proxyCache
          task,    \* task[t]: what a goroutine is about to do
          booted,  \* Run has come past its loadProxies
          ops,     \* operations started so far
          tables,  \* history: what admins configured, at each moment so far
          direct   \* history: a request was sent from the host's address

poolVars == <<db, cache, task, booted, ops, tables, direct>>

IdleTask == [pc |-> "idle"]
NewRow == [enabled |-> TRUE, fails |-> 0]

\* The part of a table that only admins change.
Configured(table) == [p \in DOMAIN table |-> table[p].enabled]

PoolInit ==
    /\ db \in {table \in Table : \A p \in DOMAIN table : table[p] = NewRow}
    /\ cache = Empty
    /\ task = [t \in Tasks |-> IdleTask]
    /\ booted = FALSE
    /\ ops = 0
    /\ tables = {Configured(db)}
    /\ direct = FALSE

-------------------------------------------------------------------------------
Results == {"success", "failure", "cooldown"}

\* A mutant of WithResult: a success takes one failure back.
WithResultCounted(table, p, result) ==
    IF p \notin DOMAIN table THEN table
    ELSE [table EXCEPT ![p].fails =
            CASE result = "success" -> @ - 1
              [] result = "failure" -> IF @ < Threshold THEN @ + 1 ELSE @
              [] result = "cooldown" -> Threshold]

\* What a result does to the row of the proxy it came from, if the row is
\* there.  Failures are counted up to the threshold, from where on they are
\* all the same.
WithResult(table, p, result) ==
    IF p \notin DOMAIN table THEN table
    ELSE [table EXCEPT ![p].fails =
            CASE result = "success" -> 0
              [] result = "failure" -> IF @ < Threshold THEN @ + 1 ELSE @
              [] result = "cooldown" -> Threshold]

Start(t) ==
    /\ booted
    /\ task[t] = IdleTask
    /\ ops < MaxOps
    /\ ops' = ops + 1

Go(t, what) == task' = [task EXCEPT ![t] = what]

\* The table with a new row.
WithRow(table, p) ==
    [q \in DOMAIN table \cup {p} |-> IF q = p THEN NewRow ELSE table[q]]

SetTable(table) ==
    /\ db' = table
    /\ tables' = tables \cup {Configured(table)}

-------------------------------------------------------------------------------
\* recordProxyResult and forceProxyCooldown: the row in the table (an error
\* of the database is ignored), then the row in memory.
RecordInTable(t, p, result) ==
    /\ Start(t)
    /\ db' \in {db, WithResult(db, p, result)}
    /\ Go(t, [pc |-> "memory", proxy |-> p, result |-> result])
    /\ UNCHANGED <<cache, booted, tables, direct>>

RecordInMemory(t) ==
    /\ task[t].pc = "memory"
    /\ cache' = WithResult(cache, task[t].proxy, task[t].result)
    /\ Go(t, IdleTask)
    /\ UNCHANGED <<db, booted, ops, tables, direct>>

\* The table never gives out an id twice.
NeverGiven(p) == p \notin UNION {DOMAIN table : table \in tables}

\* proxyCreate
Create(t, p) ==
    /\ Start(t)
    /\ NeverGiven(p)
    /\ SetTable(WithRow(db, p))
    /\ Go(t, [pc |-> "read"])
    /\ UNCHANGED <<cache, booted, direct>>

\* proxyUpdate; the admin page's toggle sets the opposite of what the copy
\* says, which may be either.
Update(t, p, enabled) ==
    /\ Start(t)
    /\ SetTable(IF p \in DOMAIN db THEN [db EXCEPT ![p].enabled = enabled] ELSE db)
    /\ Go(t, [pc |-> "read"])
    /\ UNCHANGED <<cache, booted, direct>>

Delete(t, p) ==
    /\ Start(t)
    /\ SetTable([q \in DOMAIN db \ {p} |-> db[q]])
    /\ Go(t, [pc |-> "read"])
    /\ UNCHANGED <<cache, booted, direct>>

\* proxyResetFailures
Reset(t, p) ==
    /\ Start(t)
    /\ db' = WithResult(db, p, "success")
    /\ Go(t, [pc |-> "read"])
    /\ UNCHANGED <<cache, booted, tables, direct>>

\* syncRemoteProxies: what a remote pool lists and the table does not have is
\* inserted row by row, whatever fails is passed over, and the copy is loaded
\* at the end if there was anything.  Which URLs the table has is left open.
Import(t) ==
    /\ Start(t)
    /\ Go(t, [pc |-> "import", imported |-> FALSE])
    /\ UNCHANGED <<db, cache, booted, tables, direct>>

ImportRow(t, p) ==
    /\ task[t].pc = "import"
    /\ NeverGiven(p)
    /\ SetTable(WithRow(db, p))
    /\ Go(t, [pc |-> "import", imported |-> TRUE])
    /\ UNCHANGED <<cache, booted, ops, direct>>

ImportEnds(t) ==
    /\ task[t].pc = "import"
    /\ Go(t, IF task[t].imported THEN [pc |-> "read"] ELSE IdleTask)
    /\ UNCHANGED <<db, cache, booted, ops, tables, direct>>

-------------------------------------------------------------------------------
\* loadProxies.

\* The SELECT, all rows of it.
ReadTable(t) ==
    /\ task[t].pc = "read"
    /\ Go(t, [pc |-> "store", list |-> db])
    /\ UNCHANGED <<db, cache, booted, ops, tables, direct>>

\* A mutant of ReadFails: what was read before the error is stored.
ReadHalf(t) ==
    /\ task[t].pc = "read"
    /\ \E ids \in SUBSET DOMAIN db :
          Go(t, [pc |-> "store", list |-> [p \in ids |-> db[p]]])
    /\ UNCHANGED <<db, cache, booted, ops, tables, direct>>

\* The query, a row or the iteration fails: the copy stays as it is.
ReadFails(t) ==
    /\ task[t].pc = "read"
    /\ booted \/ BootReadMayFail
    /\ Go(t, IdleTask)
    /\ booted' = TRUE
    /\ UNCHANGED <<db, cache, ops, tables, direct>>

\* A mutant of Store: the copy is extended and corrected, never shortened.
StoreMerged(t) ==
    /\ task[t].pc = "store"
    /\ cache' = task[t].list @@ cache
    /\ Go(t, IdleTask)
    /\ booted' = TRUE
    /\ UNCHANGED <<db, ops, tables, direct>>

Store(t) ==
    /\ task[t].pc = "store"
    /\ cache' = task[t].list
    /\ Go(t, IdleTask)
    /\ booted' = TRUE
    /\ UNCHANGED <<db, ops, tables, direct>>

\* The first load, before anything is served, and the scheduler's reloads.
Reload ==
    /\ task[Scheduler] = IdleTask
    /\ Go(Scheduler, [pc |-> "read"])
    /\ UNCHANGED <<db, cache, booted, ops, tables, direct>>

-------------------------------------------------------------------------------
\* acquireSlotExcept: hasProxies under the lock, then the choice.

LookAtPool(t) ==
    /\ Start(t)
    /\ Go(t, [pc |-> "choose", hasProxies |-> cache # Empty])
    /\ UNCHANGED <<db, cache, booted, tables, direct>>

\* A mutant of ChooseExit: an unusable pool is left for the host's address.
ChooseAlwaysFallsBack(t) ==
    /\ task[t].pc = "choose"
    /\ direct' \in {direct, TRUE}
    /\ Go(t, IdleTask)
    /\ UNCHANGED <<db, cache, booted, ops, tables>>

\* With proxies, one of them or a refusal (all full or resting), and the
\* host's address only by FallbackDirect; without, the host's address, or a
\* refusal when its limit is reached.
ChooseExit(t) ==
    /\ task[t].pc = "choose"
    /\ direct' \in IF task[t].hasProxies /\ ~FallbackDirect
                   THEN {direct} ELSE {direct, TRUE}
    /\ Go(t, IdleTask)
    /\ UNCHANGED <<db, cache, booted, ops, tables>>

-------------------------------------------------------------------------------
PoolNext ==
    \/ Reload
    \/ \E t \in Tasks : ReadTable(t) \/ ReadFails(t) \/ Store(t)
    \/ \E t \in Workers :
          \/ \E p \in Proxies :
                \/ \E result \in Results : RecordInTable(t, p, result)
                \/ \E enabled \in BOOLEAN : Update(t, p, enabled)
                \/ Create(t, p) \/ Delete(t, p) \/ Reset(t, p) \/ ImportRow(t, p)
          \/ RecordInMemory(t)
          \/ Import(t) \/ ImportEnds(t)
          \/ LookAtPool(t) \/ ChooseExit(t)

PoolSpec == PoolInit /\ [][PoolNext]_poolVars

\* Goroutines go on, the ticker ticks, and the database does not refuse for
\* ever: a read that is tried again and again succeeds at last.
PoolFairSpec ==
    /\ PoolSpec
    /\ WF_poolVars(Reload)
    /\ \A t \in Tasks : SF_poolVars(ReadTable(t)) /\ WF_poolVars(Store(t))
    /\ \A t \in Workers : WF_poolVars(RecordInMemory(t)) /\ WF_poolVars(ImportEnds(t))

-------------------------------------------------------------------------------
TaskState ==
    {IdleTask, [pc |-> "read"]}
    \cup [pc : {"store"}, list : Table]
    \cup [pc : {"memory"}, proxy : Proxies, result : Results]
    \cup [pc : {"choose"}, hasProxies : BOOLEAN]
    \cup [pc : {"import"}, imported : BOOLEAN]

PoolTypeOK ==
    /\ db \in Table
    /\ cache \in Table
    /\ task \in [Tasks -> TaskState]
    /\ booted \in BOOLEAN
    /\ ops \in 0 .. MaxOps
    /\ \A table \in tables :
          table \in UNION {[ids -> BOOLEAN] : ids \in SUBSET Proxies}
    /\ direct \in BOOLEAN

\* What requests choose from is, proxies and their switches together, what
\* the table held at one moment: never half of a read, never a mixture of
\* two reads, never a row that a late result brings back.
CopyWasTheTable == booted => Configured(cache) \in tables

\* runtime.go:43-45, CHANGELOG.md:411-412: with FallbackDirect off and
\* proxies configured, no request leaves from the host's own address.
DirectOnlyWithoutProxies == direct => Empty \in tables

\* Once nobody changes anything the copy becomes the table and stays it:
\* what a lost race between two loads, or between a load and a result, left
\* wrong in memory lasts until a reload.
Converges == <>[](cache = db)

===============================================================================
