-------------------------------- MODULE Seeding --------------------------------
(***************************************************************************)
(* What a start does with the exits and accounts that do not come from the *)
(* admin panel: seedProxiesFromConfig (proxy.go) and seedCookiesFromConfig *)
(* (cookie_pool.go).  Both first move a value that an old version kept     *)
(* elsewhere into the pool, once, and then let one row of the pool follow  *)
(* a start parameter: --proxy, or the content of --cookie-file.            *)
(*                                                                         *)
(* The two work on tables and keys of their own, so a behaviour is about   *)
(* one of them.  They are the same but for this: exits are looked up in    *)
(* the copy of their table (proxyCache), accounts in the table; an account *)
(* cannot be edited by the admin but gets its cookie refreshed by          *)
(* rotations (CookieRefresh); a file that cannot be read or parsed stops   *)
(* the start before it touches the pool, an exit's URL is only refused     *)
(* when it is inserted.                                                    *)
(*                                                                         *)
(* Every statement of the database may fail, and the process may be killed *)
(* between any two.  Nothing else runs before the start has ended.         *)
(***************************************************************************)
EXTENDS Naturals, FiniteSets

CONSTANTS Names,            \* what a URL or a cookie is recognised by
          Bad,              \* the names that no row can be made of
          None,             \* no value: "" in kv, no start parameter
          Unreadable,       \* the cookie file cannot be read
          MaxRows,          \* bound: rows that are ever inserted
          MaxRefresh,       \* bound: refreshes of one cookie
          MaxFaults,        \* bound: statements that fail, and kills in a start
          MaxStarts         \* bound: starts

ASSUME SeedingAssumption ==
    /\ IsFiniteSet(Names) /\ Bad \subseteq Names
    /\ {None, Unreadable} \cap [name : Names, gen : Nat] = {}
    /\ MaxRows \in Nat /\ MaxRefresh \in Nat /\ MaxFaults \in Nat /\ MaxStarts \in Nat

VARIABLES kind,     \* "proxy" or "cookie"
          legacy,   \* the value under the key of the old version
          rows,     \* the table: from ids to rows
          copy,     \* proxyCache: what exits are looked up in
          kv,       \* done, value, id: the three keys of the kv table
          config,   \* the start parameter of this start
          newId,    \* local: the row made in this start, 0 for none
          pc,       \* where the start is; "up" behind it, "down" before it
          inserted, \* rows ever inserted (ids are not used again)
          starts, faults,
          moved,    \* history: legacy, as it is now, was found or put in the pool
          misread,  \* history: a key could not be read, which counts as ""
          fresh,    \* history: nobody changed the pool since kv.value was set
          refused   \* history: a start had a value no row can be made of

pool == <<rows, copy, inserted>>
ghosts == <<moved, misread, fresh, refused>>
vars == <<kind, legacy, pool, kv, config, newId, pc, starts, faults, ghosts>>

Value == [name : Names, gen : 0 .. MaxRefresh]
Written == [name : Names, gen : {0}]
Good == {v \in Value : v.name \notin Bad}    \* what a row can be made of

\* seeded: the value a start made it for.  touched: it was changed since.
Row == [value : Value, seeded : Written \cup {None}, touched : BOOLEAN]

Init ==
    /\ kind \in {"proxy", "cookie"}
    /\ legacy \in Written \cup {None}
    /\ rows = [i \in {} |-> None]
    /\ copy = rows
    /\ kv = [done |-> FALSE, value |-> None, id |-> 0]
    /\ config = None
    /\ newId = 0
    /\ pc = "down"
    /\ inserted = 0
    /\ starts = 0
    /\ faults = 0
    /\ moved = FALSE
    /\ misread = FALSE
    /\ fresh = TRUE
    /\ refused = FALSE

-------------------------------------------------------------------------------
\* kvGet: a key that cannot be read is as good as one that is not there.
Read(value, absent, unread) == IF unread THEN absent ELSE value

\* A step of which something fails counts as a fault.
Fault(happens) ==
    /\ happens => faults < MaxFaults
    /\ faults' = IF happens THEN faults + 1 ELSE faults

\* What a look into the pool shows: exits in the copy, accounts in the table,
\* of which nothing is seen when it cannot be read.
Seen(fails) ==
    IF kind = "proxy" THEN copy ELSE IF fails THEN [i \in {} |-> None] ELSE rows
Has(table, v) == \E i \in DOMAIN table : table[i].value = v

\* The copy after the table was changed: loadProxies, which may fail.
Reloaded(fails) == IF kind = "proxy" THEN (copy' = IF fails THEN copy ELSE rows')
                   ELSE copy' = copy

Plus(v, seed) ==
    [i \in DOMAIN rows \cup {inserted + 1} |->
        IF i \in DOMAIN rows THEN rows[i] ELSE [value |-> v, seeded |-> seed, touched |-> FALSE]]
Minus(id) == [i \in DOMAIN rows \ {id} |-> rows[i]]

\* A mutant of Insert: a table that gives an id again.
InsertReusing(v, seed, fails) ==
    /\ inserted < MaxRows
    /\ rows' = Plus(v, seed)
    /\ Reloaded(fails)
    /\ UNCHANGED inserted

\* proxyCreate and accountInsert
Insert(v, seed, fails) ==
    /\ inserted < MaxRows
    /\ inserted' = inserted + 1
    /\ rows' = Plus(v, seed)
    /\ Reloaded(fails)

Keep == UNCHANGED pool
Local == UNCHANGED <<kind, legacy, config, starts, refused>>

\* The process starts, with a parameter that may differ from the last time.
\* The copy is loaded from the table, and stays empty if that fails.
Start ==
    /\ pc = "down"
    /\ starts < MaxStarts
    /\ \E c \in Written \cup {None} \cup (IF kind = "cookie" THEN {Unreadable} ELSE {}) :
         /\ config' = c
         /\ refused' = (refused \/ (c \in Value /\ c \notin Good))
    /\ \E fails \in BOOLEAN :
         /\ fails => kind = "proxy"
         /\ Fault(fails)
         /\ copy' = IF fails \/ kind = "cookie" THEN [i \in {} |-> None] ELSE rows
    /\ starts' = starts + 1
    /\ newId' = 0
    /\ pc' = "migrate"
    /\ UNCHANGED <<kind, legacy, rows, inserted, kv, moved, misread, fresh>>

\* A mutant of Moved: the mark is set before the value is in the pool.
MovedMarked(v, fails) ==
    /\ kv' = [kv EXCEPT !.done = TRUE]
    /\ IF v \in Good /\ ~Has(rows, v) /\ ~fails
       THEN Insert(v, None, fails) /\ moved' = TRUE /\ pc' = "mark"
       ELSE Keep /\ UNCHANGED moved /\ pc' = "sync"

\* The value of the old version is inserted unless the pool has it.  The mark
\* is for the next statement, and not set if the value could not be inserted.
Moved(v, fails) ==
    /\ UNCHANGED kv
    /\ \/ /\ Has(Seen(fails), v)
          /\ pc' = "mark"
          /\ moved' = TRUE
          /\ Keep
       \/ /\ ~Has(Seen(fails), v)
          /\ v \in Good
          /\ Insert(v, None, fails)
          /\ pc' = "mark"
          /\ moved' = TRUE
       \/ /\ ~Has(Seen(fails), v)
          /\ fails \/ v \notin Good
          /\ pc' = "sync"
          /\ UNCHANGED moved
          /\ Keep

\* legacyStaticProxy, or the cookie under google_cookie
LegacyValue(unread) == Read(legacy, None, unread)

\* migrateLegacyStaticProxy, migrateLegacyCookie
Migrate ==
    /\ pc = "migrate"
    /\ \E fails, undone, unread \in BOOLEAN :
         /\ Fault(fails \/ undone \/ unread)
         /\ misread' = (misread \/ undone \/ unread)
         /\ LET done == Read(kv.done, FALSE, undone)
                old == LegacyValue(unread)
            IN  IF ~done /\ old # None
                THEN Moved(old, fails)
                ELSE /\ pc' = IF done THEN "sync" ELSE "mark"
                     /\ Keep
                     /\ UNCHANGED <<kv, moved>>
    /\ UNCHANGED <<newId, fresh>>
    /\ Local

Mark ==
    /\ pc = "mark"
    /\ \E fails \in BOOLEAN :
         /\ Fault(fails)
         /\ kv' = IF fails THEN kv ELSE [kv EXCEPT !.done = TRUE]
    /\ pc' = "sync"
    /\ Keep
    /\ UNCHANGED <<newId, moved, misread, fresh>>
    /\ Local

-------------------------------------------------------------------------------
\* A mutant of MayDrop: whatever the row has become.
MayDropAnyway(table, was) == kv.id \in DOMAIN table

\* dropSeededProxy, dropSeededCookie: only a row that still has the value it
\* was given is withdrawn.
MayDrop(table, was) ==
    /\ kv.id # 0 /\ was # None
    /\ kv.id \in DOMAIN table
    /\ table[kv.id].value = was

\* A start that leaves the pool as it is: the value is the one recorded, or
\* the file cannot be read or makes no sense.
Idle(was) ==
    \/ config \in {was, Unreadable}
    \/ kind = "cookie" /\ config # None /\ config \notin Good

\* The row of the last value is withdrawn, if that goes well.
Withdraw(was, fails) ==
    \/ /\ MayDrop(Seen(FALSE), was)
       /\ rows' = Minus(kv.id)
       /\ Reloaded(fails)
       /\ UNCHANGED inserted
    \/ /\ fails \/ ~MayDrop(Seen(FALSE), was)
       /\ Keep

\* syncSeededProxy, syncSeededCookieFile: the parameter is compared with the
\* value recorded.
Sync ==
    /\ pc = "sync"
    /\ \E fails, unread \in BOOLEAN :
         LET was == Read(kv.value, None, unread)
         IN  /\ Fault(fails \/ unread)
             /\ misread' = (misread \/ unread)
             /\ \/ Idle(was) /\ pc' = "up" /\ Keep
                \/ ~Idle(was) /\ pc' = "add" /\ Withdraw(was, fails)
    /\ UNCHANGED <<kind, legacy, kv, config, newId, starts, moved, fresh, refused>>

\* A row for the parameter, if there is one and the pool does not have it.
Add ==
    /\ pc = "add"
    /\ \E fails \in BOOLEAN :
         /\ Fault(fails)
         /\ \/ /\ config = None \/ Has(Seen(fails), config)
               /\ newId' = 0
               /\ pc' = "setValue"
               /\ Keep
            \/ /\ config # None
               /\ ~Has(Seen(fails), config)
               /\ \/ /\ config \in Good
                     /\ Insert(config, config, fails)
                     /\ newId' = inserted + 1
                     /\ pc' = "setValue"
                  \/ /\ fails \/ config \notin Good
                     /\ newId' = 0
                     /\ pc' = "up"
                     /\ Keep
    /\ UNCHANGED <<kv, moved, misread, fresh>>
    /\ Local

\* A mutant of Record: the id of the row is not written.
RecordValueOnly(key, v) ==
    \E fails \in BOOLEAN :
        /\ Fault(fails)
        /\ kv' = IF fails \/ key = "id" THEN kv ELSE [kv EXCEPT ![key] = v]

Record(key, v) ==
    \E fails \in BOOLEAN :
        /\ Fault(fails)
        /\ kv' = IF fails THEN kv ELSE [kv EXCEPT ![key] = v]

\* What was seeded is recorded, its value and then its id.
SetValue ==
    /\ pc = "setValue"
    /\ Record("value", config)
    /\ pc' = "setId"
    /\ fresh' = TRUE
    /\ Keep
    /\ UNCHANGED <<newId, moved, misread>>
    /\ Local

SetId ==
    /\ pc = "setId"
    /\ Record("id", newId)
    /\ pc' = "up"
    /\ Keep
    /\ UNCHANGED <<newId, moved, misread, fresh>>
    /\ Local

-------------------------------------------------------------------------------
\* The program is running, and the pool is changed by its users.
Serving ==
    /\ pc = "up"
    /\ fresh' = FALSE
    /\ UNCHANGED <<kind, legacy, kv, config, newId, pc, starts, faults,
                   moved, misread, refused>>

AddsByHand ==
    /\ \E v \in Written \cap Good : Insert(v, None, FALSE)
    /\ Serving
AdminAddsProxy == kind = "proxy" /\ AddsByHand
AdminAddsAccount == kind = "cookie" /\ AddsByHand

DeletesByHand ==
    /\ \E i \in DOMAIN rows : rows' = Minus(i)
    /\ Reloaded(FALSE)
    /\ UNCHANGED inserted
    /\ Serving
AdminDeletesProxy == kind = "proxy" /\ DeletesByHand
AdminDeletesAccount == kind = "cookie" /\ DeletesByHand

\* proxyUpdate, which takes any URL
AdminEdits ==
    /\ kind = "proxy"
    /\ \E i \in DOMAIN rows, v \in Written :
         rows' = [rows EXCEPT ![i].value = v, ![i].touched = TRUE]
    /\ Reloaded(FALSE)
    /\ UNCHANGED inserted
    /\ Serving

\* A rotation, or an answer, brought a newer cookie of the same session.
CookieRefreshed ==
    /\ kind = "cookie"
    /\ \E i \in DOMAIN rows :
         /\ rows[i].value.gen < MaxRefresh
         /\ rows' = [rows EXCEPT ![i].value.gen = @ + 1, ![i].touched = TRUE]
    /\ UNCHANGED <<copy, inserted>>
    /\ Serving

\* The settings are saved, as a whole and as the request has them, into the key
\* the old version's proxy is read from.  RuntimeConfig has a field for it that
\* nothing validates: the panel's own requests leave it out, which clears the
\* value; any other client of the interface may set one.
AdminSavesSettings ==
    /\ pc = "up"
    /\ kind = "proxy"
    /\ legacy' \in Written \cup {None}
    /\ moved' = (moved /\ legacy' = legacy)
    /\ UNCHANGED <<kind, pool, kv, config, newId, pc, starts, faults,
                   misread, fresh, refused>>

\* The process ends, or is killed in its start.
Stop ==
    /\ pc # "down"
    /\ Fault(pc # "up")
    /\ pc' = "down"
    /\ UNCHANGED <<kind, legacy, pool, kv, config, newId, starts, ghosts>>

Next ==
    \/ Start \/ Migrate \/ Mark \/ Sync \/ Add \/ SetValue \/ SetId
    \/ AdminAddsProxy \/ AdminAddsAccount \/ AdminDeletesProxy \/ AdminDeletesAccount
    \/ AdminEdits \/ CookieRefreshed
    \/ AdminSavesSettings \/ Stop

Spec == Init /\ [][Next]_vars

-------------------------------------------------------------------------------
(* Properties *)

\* The types of the state, and what the local values of a start are about: a
\* row it made is there until the start has ended, and the copy of the exits
\* never shows a row that was not once in the table.
TypeOK ==
    /\ kind \in {"proxy", "cookie"}
    /\ legacy \in Written \cup {None}
    /\ \A i \in DOMAIN rows : i \in 1 .. inserted /\ rows[i] \in Row
    /\ \A i \in DOMAIN copy : i \in 1 .. inserted /\ copy[i] \in Row
    /\ kv \in [done : BOOLEAN, value : Written \cup {None}, id : 0 .. MaxRows]
    /\ config \in Written \cup {None, Unreadable}
    /\ pc \in {"down", "migrate", "mark", "sync", "add", "setValue", "setId", "up"}
    /\ inserted \in 0 .. MaxRows /\ starts \in 0 .. MaxStarts /\ faults \in 0 .. MaxFaults
    /\ pc \in {"setValue", "setId"} /\ newId # 0 => newId \in DOMAIN rows /\ rows[newId].value = config
    /\ moved \in BOOLEAN /\ misread \in BOOLEAN /\ fresh \in BOOLEAN /\ refused \in BOOLEAN

\* The migration is marked as done only when there is nothing under the old key
\* or what is there has been in the pool, whatever failed, wherever the process
\* was killed, and whatever a save of the settings put there since the last
\* attempt; if it is marked too early the exit or account is never moved
\* (migrateLegacyStaticProxy, migrateLegacyCookie).  It is a promise about the
\* moment of the mark: a proxy that a save puts under the key behind the mark is
\* not moved by any later start.
MovedBeforeMarked ==
    [][~kv.done /\ kv'.done /\ legacy # None /\ ~misread => moved]_vars

\* While nothing fails, a start removes a row only if it was a start that made
\* it and it still has the value it was made for: rows the users of the panel
\* added or took over stay (dropSeededProxy, dropSeededCookie).
TakenOverStays ==
    [][faults' = 0 => \A i \in DOMAIN rows \ DOMAIN rows' :
                         pc = "sync" => rows[i].value = rows[i].seeded]_vars

\* While nothing fails, the pool follows the parameter: of the rows that starts
\* made and nobody touched there is at most the one that is recorded, with the
\* value recorded; and unless the pool was changed since, or the parameter was
\* ever one that no row can be made of, that value is in the pool.
PoolFollowsConfig ==
    faults = 0 /\ pc = "up" =>
        /\ \A i \in DOMAIN rows :
             rows[i].seeded # None /\ ~rows[i].touched => i = kv.id /\ rows[i].value = kv.value
        /\ fresh /\ ~refused /\ kv.value # None => Has(rows, kv.value)
        /\ ~refused /\ config # Unreadable => kv.value = config

===============================================================================
