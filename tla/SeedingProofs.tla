----------------------------- MODULE SeedingProofs -----------------------------
(* What starts do to a pool, for any number of values, rows, starts and       *)
(* faults.  The migration of an old version's value comes first: the mark is  *)
(* set only behind a step that has seen the value in the pool, or has put it  *)
(* there.  Then the types, the row that follows the parameter, and the rows   *)
(* that belong to users.                                                      *)
EXTENDS Seeding, TLAPS

\* The keys of the kv table are always the same three.
KvKeys == DOMAIN kv = {"done", "value", "id"}

\* A start that is about to set the mark has the value in the pool.
MarkIsDue == pc = "mark" /\ legacy # None /\ ~misread => moved

IInv == KvKeys /\ MarkIsDue

\* What the mark means, of one step.
MarkedIsMoved == ~kv.done /\ kv'.done /\ legacy # None /\ ~misread => moved

\* What is recorded of a seeded row leaves the mark alone.
LEMMA RecordKeepsMark ==
    ASSUME NEW key \in {"value", "id"}, NEW v, KvKeys, Record(key, v)
    PROVE  KvKeys' /\ kv'.done = kv.done
  BY DEF Record, KvKeys

\* Taking the old value over sets no mark, and leads to one only behind moved.
LEMMA MovedIsMoved ==
    ASSUME NEW v, NEW fails \in BOOLEAN, Moved(v, fails)
    PROVE  kv' = kv /\ (pc' = "sync" \/ (pc' = "mark" /\ moved' = TRUE))
  BY DEF Moved

\* A start's first step.
LEMMA MigratePreserves == IInv /\ Migrate => IInv' /\ MarkedIsMoved
<1> SUFFICES ASSUME IInv, Migrate PROVE IInv' /\ MarkedIsMoved
  OBVIOUS
<1>1. PICK fails \in BOOLEAN, undone \in BOOLEAN, unread \in BOOLEAN :
        /\ misread' = (misread \/ undone \/ unread)
        /\ IF ~Read(kv.done, FALSE, undone) /\ LegacyValue(unread) # None
           THEN Moved(LegacyValue(unread), fails)
           ELSE /\ pc' = IF Read(kv.done, FALSE, undone) THEN "sync" ELSE "mark"
                /\ UNCHANGED <<kv, moved>>
  BY DEF Migrate
<1>2. legacy' = legacy
  BY DEF Migrate, Local
<1>3. kv' = kv
  BY <1>1, MovedIsMoved
<1>4. CASE ~Read(kv.done, FALSE, undone) /\ LegacyValue(unread) # None
  <2>1. pc' = "sync" \/ (pc' = "mark" /\ moved' = TRUE)
    BY <1>1, <1>4, MovedIsMoved
  <2> QED
    BY <1>3, <2>1 DEF IInv, KvKeys, MarkIsDue, MarkedIsMoved
<1>5. CASE ~(~Read(kv.done, FALSE, undone) /\ LegacyValue(unread) # None)
  <2>1. pc' = "mark" => legacy = None \/ unread
    BY <1>1, <1>5 DEF LegacyValue, Read
  <2> QED
    BY <1>1, <1>2, <1>3, <2>1 DEF IInv, KvKeys, MarkIsDue, MarkedIsMoved
<1> QED
  BY <1>4, <1>5

\* Setting the mark.
LEMMA MarkPreserves == IInv /\ Mark => IInv' /\ MarkedIsMoved
<1> SUFFICES ASSUME IInv, Mark PROVE IInv' /\ MarkedIsMoved
  OBVIOUS
<1>1. PICK fails \in BOOLEAN : kv' = IF fails THEN kv ELSE [kv EXCEPT !.done = TRUE]
  BY DEF Mark
<1>2. pc' = "sync" /\ pc = "mark"
  BY DEF Mark
<1> QED
  BY <1>1, <1>2 DEF IInv, KvKeys, MarkIsDue, MarkedIsMoved

\* The steps that leave the mark alone and do not lead to it.
LEMMA OthersPreserve ==
    ASSUME KvKeys', kv'.done = kv.done, pc' # "mark"
    PROVE  IInv' /\ MarkedIsMoved
  BY DEF IInv, MarkIsDue, MarkedIsMoved

\* The mark of a migration is set only when the old value was in the pool, in
\* every order of starts, faults, kills and changes by users, also when a save
\* of the settings had put the value there.
THEOREM MarkMeansMoved == Spec => MovedBeforeMarked
<1>1. Init => IInv
  BY DEF Init, IInv, KvKeys, MarkIsDue
<1>2. IInv /\ [Next]_vars => IInv' /\ [MarkedIsMoved]_vars
  <2> SUFFICES ASSUME IInv, [Next]_vars PROVE IInv' /\ [MarkedIsMoved]_vars
    OBVIOUS
  <2>1. CASE Migrate
    BY <2>1, MigratePreserves
  <2>2. CASE Mark
    BY <2>2, MarkPreserves
  <2>3. CASE SetValue \/ SetId
    <3>1. KvKeys' /\ kv'.done = kv.done
      BY <2>3, RecordKeepsMark DEF SetValue, SetId, IInv
    <3>2. pc' # "mark"
      BY <2>3 DEF SetValue, SetId
    <3> QED
      BY <3>1, <3>2, OthersPreserve
  <2>4. CASE Start \/ Sync \/ Add \/ AdminSavesSettings \/ Stop
    <3>1. kv' = kv /\ pc' # "mark"
      BY <2>4 DEF Start, Sync, Add, AdminSavesSettings, Stop
    <3> QED
      BY <3>1, OthersPreserve DEF IInv, KvKeys
  <2>5. CASE AdminAddsProxy \/ AdminAddsAccount \/ AdminDeletesProxy \/ AdminDeletesAccount
             \/ AdminEdits \/ CookieRefreshed
    <3>1. Serving
      BY <2>5 DEF AdminAddsProxy, AdminAddsAccount, AdminDeletesProxy, AdminDeletesAccount,
                  AddsByHand, DeletesByHand, AdminEdits, CookieRefreshed
    <3>2. kv' = kv /\ pc' # "mark"
      BY <3>1 DEF Serving
    <3> QED
      BY <3>2, OthersPreserve DEF IInv, KvKeys
  <2>6. CASE UNCHANGED vars
    BY <2>6 DEF vars, ghosts, IInv, KvKeys, MarkIsDue
  <2> QED
    BY <2>1, <2>2, <2>3, <2>4, <2>5, <2>6 DEF Next
<1> QED
  BY <1>1, <1>2, PTL DEF Spec, MovedBeforeMarked, MarkedIsMoved


-------------------------------------------------------------------------------
(* The types of the state.  The parameter of a start may be a file that cannot *)
(* be read, but no row is made and nothing is recorded in such a start.        *)

PoolTypes ==
    /\ \A i \in DOMAIN rows : i \in 1 .. inserted /\ rows[i] \in Row
    /\ \A i \in DOMAIN copy : i \in 1 .. inserted /\ copy[i] \in Row
    /\ inserted \in 0 .. MaxRows

KvTypes == kv \in [done : BOOLEAN, value : Written \cup {None}, id : 0 .. MaxRows]

OtherTypes ==
    /\ kind \in {"proxy", "cookie"}
    /\ legacy \in Written \cup {None}
    /\ config \in Written \cup {None, Unreadable}
    /\ pc \in {"down", "migrate", "mark", "sync", "add", "setValue", "setId", "up"}
    /\ starts \in 0 .. MaxStarts /\ faults \in 0 .. MaxFaults
    /\ moved \in BOOLEAN /\ misread \in BOOLEAN /\ fresh \in BOOLEAN /\ refused \in BOOLEAN

\* The row that a start made is there while the start goes on.
NewRow ==
    pc \in {"setValue", "setId"} /\ newId # 0 => newId \in DOMAIN rows /\ rows[newId].value = config

\* Behind its first comparison a start has a parameter that could be read.
ConfigRead == pc \in {"add", "setValue"} => config \in Written \cup {None}

TInv == PoolTypes /\ KvTypes /\ OtherTypes /\ NewRow /\ ConfigRead

\* The type invariant is these parts but the last.
LEMMA PartsAreTypes == TInv => TypeOK
  BY DEF TInv, PoolTypes, KvTypes, OtherTypes, NewRow, TypeOK

\* What a start writes is a value, and so is what it can make a row of.
LEMMA ValuesAreValues ==
    /\ Written \subseteq Value /\ Good \subseteq Value
    /\ None \notin Value /\ Unreadable \notin Value
<1>1. MaxRefresh \in Nat /\ {None, Unreadable} \cap [name : Names, gen : Nat] = {}
  BY SeedingAssumption
<1>2. Written \subseteq Value /\ Good \subseteq Value
  BY <1>1 DEF Written, Value, Good
<1>3. Value \subseteq [name : Names, gen : Nat]
  BY DEF Value
<1> QED
  BY <1>1, <1>2, <1>3

\* Counting a fault.
LEMMA FaultCounted ==
    ASSUME faults \in 0 .. MaxFaults, NEW h \in BOOLEAN, Fault(h)
    PROVE  faults' \in 0 .. MaxFaults /\ (faults' = 0 => faults = 0 /\ ~h)
  BY SeedingAssumption DEF Fault

\* Nothing is done to the pool.
LEMMA PoolKept ==
    ASSUME PoolTypes, Keep
    PROVE  PoolTypes' /\ rows' = rows /\ copy' = copy /\ inserted' = inserted
  BY DEF PoolTypes, Keep, pool

\* The copy is what it was or the table.
LEMMA CopyTypes ==
    ASSUME PoolTypes, inserted' \in 0 .. MaxRows, inserted' >= inserted,
           \A i \in DOMAIN rows' : i \in 1 .. inserted' /\ rows'[i] \in Row,
           copy' \in {copy, rows'}
    PROVE  PoolTypes'
<1>1. \A i \in 1 .. inserted : i \in 1 .. inserted'
  BY SeedingAssumption DEF PoolTypes
<1>2. \A i \in DOMAIN copy' : i \in 1 .. inserted' /\ copy'[i] \in Row
  <2>1. CASE copy' = copy
    BY <1>1, <2>1 DEF PoolTypes
  <2>2. CASE copy' = rows'
    BY <2>2
  <2> QED
    BY <2>1, <2>2
<1> QED
  BY <1>2 DEF PoolTypes

\* A row is inserted: under an id that was never used.
LEMMA PoolInserted ==
    ASSUME PoolTypes, NEW v \in Good, NEW seed \in Written \cup {None},
           NEW fails \in BOOLEAN, Insert(v, seed, fails)
    PROVE  /\ PoolTypes'
           /\ inserted' = inserted + 1 /\ inserted + 1 \notin DOMAIN rows
           /\ DOMAIN rows' = DOMAIN rows \cup {inserted + 1}
           /\ rows'[inserted + 1] = [value |-> v, seeded |-> seed, touched |-> FALSE]
           /\ \A i \in DOMAIN rows : rows'[i] = rows[i]
           /\ kind = "proxy" /\ ~fails => copy' = rows'
<1>1. inserted \in Nat /\ inserted + 1 \in 0 .. MaxRows /\ inserted' = inserted + 1
  BY SeedingAssumption DEF PoolTypes, Insert
<1>2. inserted + 1 \notin DOMAIN rows
  BY <1>1 DEF PoolTypes
<1>3. rows' = Plus(v, seed)
  BY DEF Insert
<1>4. /\ DOMAIN rows' = DOMAIN rows \cup {inserted + 1}
      /\ rows'[inserted + 1] = [value |-> v, seeded |-> seed, touched |-> FALSE]
      /\ \A i \in DOMAIN rows : rows'[i] = rows[i]
  BY <1>2, <1>3 DEF Plus
<1>5. [value |-> v, seeded |-> seed, touched |-> FALSE] \in Row
  BY ValuesAreValues DEF Row
<1>6. \A i \in DOMAIN rows' : i \in 1 .. inserted' /\ rows'[i] \in Row
  BY <1>1, <1>4, <1>5 DEF PoolTypes
<1>7. copy' \in {copy, rows'} /\ (kind = "proxy" /\ ~fails => copy' = rows')
  BY DEF Insert, Reloaded
<1>8. PoolTypes'
  BY <1>1, <1>6, <1>7, CopyTypes
<1> QED
  BY <1>1, <1>2, <1>4, <1>7, <1>8

\* A row is removed.
LEMMA PoolReduced ==
    ASSUME PoolTypes, NEW id, rows' = Minus(id), NEW fails \in BOOLEAN, Reloaded(fails),
           inserted' = inserted
    PROVE  /\ PoolTypes'
           /\ DOMAIN rows' = DOMAIN rows \ {id}
           /\ \A i \in DOMAIN rows' : rows'[i] = rows[i]
           /\ kind = "proxy" /\ ~fails => copy' = rows'
<1>1. DOMAIN rows' = DOMAIN rows \ {id} /\ \A i \in DOMAIN rows' : rows'[i] = rows[i]
  BY DEF Minus
<1>2. copy' \in {copy, rows'} /\ (kind = "proxy" /\ ~fails => copy' = rows')
  BY DEF Reloaded
<1>3. \A i \in DOMAIN rows' : i \in 1 .. inserted' /\ rows'[i] \in Row
  BY <1>1 DEF PoolTypes
<1>4. inserted' \in 0 .. MaxRows /\ inserted' >= inserted
  BY SeedingAssumption DEF PoolTypes
<1>5. PoolTypes'
  BY <1>2, <1>3, <1>4, CopyTypes
<1> QED
  BY <1>1, <1>2, <1>5


-------------------------------------------------------------------------------
(* What each action does, in the terms both proofs below need it in.           *)

\* Of the table only this changed: a row that no start made was added.
RowAdded ==
    /\ inserted' >= inserted
    /\ \A i \in DOMAIN rows : i \in DOMAIN rows' /\ rows'[i] = rows[i]
    /\ \A i \in DOMAIN rows' \ DOMAIN rows : i > inserted /\ rows'[i].seeded = None

\* If nothing failed the copy of the exits shows the table again.
CopyFollows == faults' = 0 /\ kind = "proxy" /\ copy = rows => copy' = rows'

Same == kind' = kind /\ config' = config /\ refused' = refused

\* A step without a change of the pool adds no row.
LEMMA NothingAdded ==
    ASSUME PoolTypes, rows' = rows, copy' = copy, inserted' = inserted
    PROVE  RowAdded /\ CopyFollows
<1>1. inserted \in Nat
  BY SeedingAssumption DEF PoolTypes
<1> QED
  BY <1>1 DEF RowAdded, CopyFollows

\* The insertion of a value that no start parameter asked for.
LEMMA UnseededAdded ==
    ASSUME PoolTypes, NEW v \in Good, NEW fails \in BOOLEAN, Insert(v, None, fails),
           faults' = 0 => ~fails
    PROVE  PoolTypes' /\ RowAdded /\ CopyFollows
<1>1. inserted \in Nat
  BY SeedingAssumption DEF PoolTypes
<1>2. /\ PoolTypes'
      /\ inserted' = inserted + 1
      /\ DOMAIN rows' = DOMAIN rows \cup {inserted + 1}
      /\ rows'[inserted + 1] = [value |-> v, seeded |-> None, touched |-> FALSE]
      /\ \A i \in DOMAIN rows : rows'[i] = rows[i]
      /\ kind = "proxy" /\ ~fails => copy' = rows'
  BY PoolInserted
<1>3. rows'[inserted + 1].seeded = None
  BY <1>2
<1> QED
  BY <1>1, <1>2, <1>3 DEF RowAdded, CopyFollows

\* The migration.
LEMMA MigrateDoes ==
    ASSUME TInv, Migrate
    PROVE  /\ TInv' /\ RowAdded /\ CopyFollows /\ Same
           /\ kv' = kv /\ fresh' = fresh
           /\ pc = "migrate" /\ pc' \in {"mark", "sync"}
           /\ faults' = 0 => faults = 0
<1>1. PICK fails \in BOOLEAN, undone \in BOOLEAN, unread \in BOOLEAN :
        /\ Fault(fails \/ undone \/ unread)
        /\ misread' = (misread \/ undone \/ unread)
        /\ IF ~Read(kv.done, FALSE, undone) /\ LegacyValue(unread) # None
           THEN Moved(LegacyValue(unread), fails)
           ELSE /\ pc' = IF Read(kv.done, FALSE, undone) THEN "sync" ELSE "mark"
                /\ Keep
                /\ UNCHANGED <<kv, moved>>
  BY DEF Migrate
<1>2. faults' \in 0 .. MaxFaults /\ (faults' = 0 => faults = 0 /\ ~fails)
  BY <1>1, FaultCounted DEF TInv, OtherTypes
<1>3. /\ pc = "migrate" /\ Same /\ legacy' = legacy /\ starts' = starts
      /\ fresh' = fresh /\ newId' = newId
  BY DEF Migrate, Local, Same
<1>4. /\ PoolTypes' /\ RowAdded /\ CopyFollows
      /\ kv' = kv /\ moved' \in BOOLEAN /\ pc' \in {"mark", "sync"}
  <2>1. CASE ~(~Read(kv.done, FALSE, undone) /\ LegacyValue(unread) # None)
    <3>1. Keep /\ kv' = kv /\ moved' = moved /\ pc' \in {"mark", "sync"}
      BY <1>1, <2>1
    <3> QED
      BY <3>1, PoolKept, NothingAdded DEF TInv, OtherTypes
  <2>2. CASE ~Read(kv.done, FALSE, undone) /\ LegacyValue(unread) # None
    <3>1. Moved(LegacyValue(unread), fails)
      BY <1>1, <2>2
    <3>2. kv' = kv /\ moved' \in BOOLEAN /\ pc' \in {"mark", "sync"}
      BY <3>1 DEF Moved, TInv, OtherTypes
    <3>3. CASE Keep
      BY <3>2, <3>3, PoolKept, NothingAdded DEF TInv
    <3>4. CASE LegacyValue(unread) \in Good /\ Insert(LegacyValue(unread), None, fails)
      BY <1>2, <3>2, <3>4, UnseededAdded DEF TInv
    <3> QED
      BY <3>1, <3>3, <3>4 DEF Moved
  <2> QED
    BY <2>1, <2>2
<1>5. misread' \in BOOLEAN
  BY <1>1 DEF TInv, OtherTypes
<1> QED
  BY <1>1, <1>2, <1>3, <1>4, <1>5
  DEF TInv, KvTypes, OtherTypes, NewRow, ConfigRead, Same

\* Setting the mark.
LEMMA MarkDoes ==
    ASSUME TInv, Mark
    PROVE  /\ TInv' /\ RowAdded /\ CopyFollows /\ Same
           /\ kv'.id = kv.id /\ kv'.value = kv.value /\ fresh' = fresh
           /\ pc = "mark" /\ pc' = "sync"
           /\ faults' = 0 => faults = 0
<1>1. PICK fails \in BOOLEAN :
        Fault(fails) /\ kv' = IF fails THEN kv ELSE [kv EXCEPT !.done = TRUE]
  BY DEF Mark
<1>2. faults' \in 0 .. MaxFaults /\ (faults' = 0 => faults = 0)
  BY <1>1, FaultCounted DEF TInv, OtherTypes
<1>3. KvTypes' /\ kv'.id = kv.id /\ kv'.value = kv.value
  BY <1>1 DEF TInv, KvTypes
<1>4. PoolTypes' /\ RowAdded /\ CopyFollows
  BY PoolKept, NothingAdded DEF TInv, Mark
<1>5. /\ pc = "mark" /\ pc' = "sync" /\ Same /\ legacy' = legacy /\ starts' = starts
      /\ fresh' = fresh /\ moved' = moved /\ misread' = misread
  BY DEF Mark, Local, Same
<1> QED
  BY <1>2, <1>3, <1>4, <1>5 DEF TInv, OtherTypes, NewRow, ConfigRead, Same

\* The process starts.
LEMMA StartDoes ==
    ASSUME TInv, Start
    PROVE  /\ TInv' /\ kind' = kind
           /\ rows' = rows /\ inserted' = inserted /\ kv' = kv /\ fresh' = fresh
           /\ (refused => refused') /\ (config' \in Value \ Good => refused')
           /\ (faults' = 0 /\ kind = "proxy" => copy' = rows)
           /\ pc = "down" /\ pc' = "migrate"
           /\ faults' = 0 => faults = 0
<1>1. PICK c \in Written \cup {None} \cup (IF kind = "cookie" THEN {Unreadable} ELSE {}) :
        config' = c /\ refused' = (refused \/ (c \in Value /\ c \notin Good))
  BY DEF Start
<1>2. PICK fails \in BOOLEAN :
        /\ fails => kind = "proxy"
        /\ Fault(fails)
        /\ copy' = IF fails \/ kind = "cookie" THEN [i \in {} |-> None] ELSE rows
  BY DEF Start
<1>3. /\ pc = "down" /\ pc' = "migrate" /\ kind' = kind /\ legacy' = legacy /\ rows' = rows
      /\ inserted' = inserted /\ kv' = kv /\ moved' = moved /\ misread' = misread
      /\ fresh' = fresh /\ newId' = 0
  BY DEF Start
<1>4. faults' \in 0 .. MaxFaults /\ (faults' = 0 => faults = 0 /\ ~fails)
  BY <1>2, FaultCounted DEF TInv, OtherTypes
<1>5. starts' \in 0 .. MaxStarts
  BY SeedingAssumption DEF Start, TInv, OtherTypes
<1>6. config' \in Written \cup {None, Unreadable} /\ refused' \in BOOLEAN
  BY <1>1 DEF TInv, OtherTypes
<1>7. PoolTypes'
  BY <1>2, <1>3 DEF TInv, PoolTypes
<1>8. faults' = 0 /\ kind = "proxy" => copy' = rows
  BY <1>2, <1>4
<1>9. (refused => refused') /\ (config' \in Value \ Good => refused')
  BY <1>1
<1> QED
  BY <1>3, <1>4, <1>5, <1>6, <1>7, <1>8, <1>9
  DEF TInv, KvTypes, OtherTypes, NewRow, ConfigRead


\* The rows that are left are what they were.
RowsLeft == \A i \in DOMAIN rows' : i \in DOMAIN rows /\ rows'[i] = rows[i]

\* The comparison with what was recorded, and what becomes of the old row.
LEMMA SyncDoes ==
    ASSUME TInv, Sync
    PROVE  /\ TInv' /\ Same /\ RowsLeft /\ inserted' = inserted
           /\ kv' = kv /\ fresh' = fresh
           /\ pc = "sync" /\ pc' \in {"up", "add"}
           /\ faults' = 0 =>
                /\ faults = 0
                /\ \/ pc' = "up" /\ Idle(kv.value) /\ Keep
                   \/ /\ pc' = "add"
                      /\ ~MayDrop(Seen(FALSE), kv.value) /\ Keep
                   \/ /\ pc' = "add"
                      /\ MayDrop(Seen(FALSE), kv.value)
                      /\ DOMAIN rows' = DOMAIN rows \ {kv.id}
                      /\ kind = "proxy" => copy' = rows'
<1>1. PICK fails \in BOOLEAN, unread \in BOOLEAN :
        LET was == Read(kv.value, None, unread)
        IN  /\ Fault(fails \/ unread)
            /\ misread' = (misread \/ unread)
            /\ \/ Idle(was) /\ pc' = "up" /\ Keep
               \/ ~Idle(was) /\ pc' = "add" /\ Withdraw(was, fails)
  BY DEF Sync
<1>2. PICK was : was = Read(kv.value, None, unread)
  OBVIOUS
<1>3. /\ Fault(fails \/ unread)
      /\ misread' = (misread \/ unread)
      /\ \/ Idle(was) /\ pc' = "up" /\ Keep
         \/ ~Idle(was) /\ pc' = "add" /\ Withdraw(was, fails)
  BY <1>1, <1>2
<1>4. faults' \in 0 .. MaxFaults /\ (faults' = 0 => faults = 0 /\ ~fails /\ was = kv.value)
  BY <1>2, <1>3, FaultCounted DEF TInv, OtherTypes, Read
<1>5. /\ pc = "sync" /\ Same /\ legacy' = legacy /\ starts' = starts /\ kv' = kv
      /\ fresh' = fresh /\ newId' = newId /\ moved' = moved
  BY DEF Sync, Same
<1>6. misread' \in BOOLEAN
  BY <1>3 DEF TInv, OtherTypes
<1>7. pc' = "add" => config \in Written \cup {None}
  BY <1>3 DEF Idle, TInv, OtherTypes
<1>8. CASE Keep
  <2>1. PoolTypes' /\ rows' = rows /\ copy' = copy /\ inserted' = inserted
    BY <1>8, PoolKept DEF TInv
  <2>2. TInv' /\ RowsLeft
    BY <1>3, <1>4, <1>5, <1>6, <1>7, <2>1
    DEF TInv, KvTypes, OtherTypes, NewRow, ConfigRead, RowsLeft, Same
  <2>3. ASSUME faults' = 0, Withdraw(was, fails)
        PROVE  \/ ~MayDrop(Seen(FALSE), was)
               \/ /\ MayDrop(Seen(FALSE), was)
                  /\ DOMAIN rows' = DOMAIN rows \ {kv.id}
                  /\ kind = "proxy" => copy' = rows'
    <3>1. CASE rows' = Minus(kv.id) /\ Reloaded(fails) /\ UNCHANGED inserted
      BY <1>4, <2>3, <3>1, PoolReduced DEF TInv
    <3> QED
      BY <1>4, <2>3, <3>1 DEF Withdraw
  <2> QED
    BY <1>3, <1>4, <1>5, <1>8, <2>1, <2>2, <2>3
<1>9. CASE ~Keep
  <2>1. /\ MayDrop(Seen(FALSE), was) /\ rows' = Minus(kv.id) /\ Reloaded(fails)
        /\ inserted' = inserted /\ pc' = "add"
    BY <1>3, <1>9 DEF Withdraw
  <2>2. /\ PoolTypes'
        /\ DOMAIN rows' = DOMAIN rows \ {kv.id}
        /\ \A i \in DOMAIN rows' : rows'[i] = rows[i]
        /\ kind = "proxy" /\ ~fails => copy' = rows'
    BY <2>1, PoolReduced DEF TInv
  <2>3. TInv' /\ RowsLeft
    BY <1>4, <1>5, <1>6, <1>7, <2>1, <2>2
    DEF TInv, KvTypes, OtherTypes, NewRow, ConfigRead, RowsLeft, Same
  <2> QED
    BY <1>3, <1>4, <1>5, <2>1, <2>2, <2>3
<1> QED
  BY <1>8, <1>9

\* A row for the parameter.
LEMMA AddDoes ==
    ASSUME TInv, Add
    PROVE  /\ TInv' /\ Same /\ kv' = kv /\ fresh' = fresh
           /\ inserted' >= inserted
           /\ \A i \in DOMAIN rows : i \in DOMAIN rows' /\ rows'[i] = rows[i]
           /\ \A i \in DOMAIN rows' \ DOMAIN rows :
                 /\ i = newId' /\ i > inserted /\ pc' = "setValue"
                 /\ rows'[i] = [value |-> config, seeded |-> config, touched |-> FALSE]
           /\ newId' \in DOMAIN rows' \ DOMAIN rows \/ newId' = 0
           /\ pc = "add" /\ pc' \in {"setValue", "up"}
           /\ faults' = 0 =>
                /\ faults = 0
                /\ CopyFollows
                /\ pc' = "up" => config \in Value \ Good
                /\ pc' = "setValue" /\ config # None =>
                     Has(Seen(FALSE), config) \/ newId' \in DOMAIN rows' \ DOMAIN rows
<1>1. PICK fails \in BOOLEAN :
         /\ Fault(fails)
         /\ \/ /\ config = None \/ Has(Seen(fails), config)
               /\ newId' = 0
               /\ pc' = "setValue"
               /\ Keep
            \/ /\ config # None
               /\ ~Has(Seen(fails), config)
               /\ \/ /\ config \in Good
                     /\ Insert(config, config, fails)
                     /\ newId' = inserted + 1
                     /\ pc' = "setValue"
                  \/ /\ fails \/ config \notin Good
                     /\ newId' = 0
                     /\ pc' = "up"
                     /\ Keep
  BY DEF Add
<1>2. faults' \in 0 .. MaxFaults /\ (faults' = 0 => faults = 0 /\ ~fails)
  BY <1>1, FaultCounted DEF TInv, OtherTypes
<1>3. /\ pc = "add" /\ Same /\ legacy' = legacy /\ starts' = starts /\ kv' = kv
      /\ fresh' = fresh /\ moved' = moved /\ misread' = misread
  BY DEF Add, Local, Same
<1>4. config \in Written \cup {None} /\ inserted \in Nat
  BY <1>3, SeedingAssumption DEF TInv, ConfigRead, PoolTypes
<1>5. CASE Keep
  <2>1. PoolTypes' /\ rows' = rows /\ copy' = copy /\ inserted' = inserted
    BY <1>5, PoolKept DEF TInv
  <2>2. newId' = 0 /\ pc' \in {"setValue", "up"}
    <3>1. ASSUME Insert(config, config, fails) PROVE FALSE
      BY <1>4, <2>1, <3>1 DEF Insert
    <3> QED
      BY <1>1, <3>1
  <2>3. TInv'
    BY <1>2, <1>3, <1>4, <2>1, <2>2
    DEF TInv, KvTypes, OtherTypes, NewRow, ConfigRead, Same
  <2>4. pc' = "up" /\ faults' = 0 => config \in Value \ Good
    BY <1>1, <1>2, <1>4, ValuesAreValues
  <2>5. pc' = "setValue" /\ config # None /\ faults' = 0 => Has(Seen(FALSE), config)
    <3>1. ASSUME Insert(config, config, fails) PROVE FALSE
      BY <1>4, <2>1, <3>1 DEF Insert
    <3> QED
      BY <1>1, <1>2, <3>1
  <2>6. CopyFollows
    BY <2>1 DEF CopyFollows
  <2>7. \A i \in DOMAIN rows : i \in DOMAIN rows' /\ rows'[i] = rows[i]
    BY <2>1
  <2>8. DOMAIN rows' \ DOMAIN rows = {} /\ inserted' >= inserted
    BY <1>4, <2>1
  <2>9. \A i \in DOMAIN rows' \ DOMAIN rows :
           /\ i = newId' /\ i > inserted /\ pc' = "setValue"
           /\ rows'[i] = [value |-> config, seeded |-> config, touched |-> FALSE]
    BY <2>8
  <2> QED
    BY <1>2, <1>3, <2>2, <2>3, <2>4, <2>5, <2>6, <2>7, <2>8, <2>9
<1>6. CASE ~Keep
  <2>1. /\ config \in Good /\ Insert(config, config, fails)
        /\ newId' = inserted + 1 /\ pc' = "setValue"
    BY <1>1, <1>6
  <2>2. /\ PoolTypes'
        /\ inserted' = inserted + 1 /\ inserted + 1 \notin DOMAIN rows
        /\ DOMAIN rows' = DOMAIN rows \cup {inserted + 1}
        /\ rows'[inserted + 1] = [value |-> config, seeded |-> config, touched |-> FALSE]
        /\ \A i \in DOMAIN rows : rows'[i] = rows[i]
        /\ kind = "proxy" /\ ~fails => copy' = rows'
    BY <1>4, <2>1, PoolInserted DEF TInv
  <2>3. TInv'
    BY <1>2, <1>3, <1>4, <2>1, <2>2
    DEF TInv, KvTypes, OtherTypes, NewRow, ConfigRead, Same
  <2>4. faults' = 0 => CopyFollows
    BY <1>2, <2>2 DEF CopyFollows
  <2>5. /\ inserted' >= inserted
        /\ \A i \in DOMAIN rows : i \in DOMAIN rows' /\ rows'[i] = rows[i]
    BY <1>4, <2>2
  <2>6. DOMAIN rows' \ DOMAIN rows = {inserted + 1} /\ newId' = inserted + 1
    BY <2>1, <2>2
  <2>7. \A i \in DOMAIN rows' \ DOMAIN rows :
           /\ i = newId' /\ i > inserted /\ pc' = "setValue"
           /\ rows'[i] = [value |-> config, seeded |-> config, touched |-> FALSE]
    BY <1>4, <2>1, <2>2, <2>6
  <2>8. newId' \in DOMAIN rows' \ DOMAIN rows
    BY <2>6
  <2>9. pc' = "setValue"
    BY <2>1
  <2> QED
    BY <1>2, <1>3, <2>3, <2>4, <2>5, <2>7, <2>8, <2>9
<1> QED
  BY <1>5, <1>6


\* Recording the value.
LEMMA SetValueDoes ==
    ASSUME TInv, SetValue
    PROVE  /\ TInv' /\ Same /\ Keep /\ newId' = newId
           /\ kv'.id = kv.id
           /\ pc = "setValue" /\ pc' = "setId"
           /\ faults' = 0 => faults = 0 /\ kv'.value = config
<1>1. PICK fails \in BOOLEAN :
        Fault(fails) /\ kv' = IF fails THEN kv ELSE [kv EXCEPT !["value"] = config]
  BY DEF SetValue, Record
<1>2. faults' \in 0 .. MaxFaults /\ (faults' = 0 => faults = 0 /\ ~fails)
  BY <1>1, FaultCounted DEF TInv, OtherTypes
<1>3. /\ pc = "setValue" /\ pc' = "setId" /\ Same /\ legacy' = legacy /\ starts' = starts
      /\ newId' = newId /\ moved' = moved /\ misread' = misread /\ fresh' = TRUE /\ Keep
  BY DEF SetValue, Local, Same
<1>4. config \in Written \cup {None}
  BY <1>3 DEF TInv, ConfigRead
<1>5. KvTypes' /\ kv'.id = kv.id /\ (~fails => kv'.value = config)
  BY <1>1, <1>4 DEF TInv, KvTypes
<1>6. PoolTypes' /\ rows' = rows
  BY <1>3, PoolKept DEF TInv
<1> QED
  BY <1>2, <1>3, <1>5, <1>6 DEF TInv, OtherTypes, NewRow, ConfigRead, Same

\* Recording the id.
LEMMA SetIdDoes ==
    ASSUME TInv, SetId
    PROVE  /\ TInv' /\ Same /\ Keep /\ newId' = newId /\ fresh' = fresh
           /\ kv'.id \in {kv.id, newId}
           /\ kv'.value = kv.value
           /\ pc = "setId" /\ pc' = "up"
           /\ faults' = 0 => faults = 0 /\ kv'.id = newId
<1>1. PICK fails \in BOOLEAN :
        Fault(fails) /\ kv' = IF fails THEN kv ELSE [kv EXCEPT !["id"] = newId]
  BY DEF SetId, Record
<1>2. faults' \in 0 .. MaxFaults /\ (faults' = 0 => faults = 0 /\ ~fails)
  BY <1>1, FaultCounted DEF TInv, OtherTypes
<1>3. /\ pc = "setId" /\ pc' = "up" /\ Same /\ legacy' = legacy /\ starts' = starts
      /\ newId' = newId /\ moved' = moved /\ misread' = misread /\ fresh' = fresh /\ Keep
  BY DEF SetId, Local, Same
<1>4. newId \in 0 .. MaxRows
  BY <1>3, SeedingAssumption DEF TInv, NewRow, PoolTypes
<1>5. /\ KvTypes' /\ kv'.id \in {kv.id, newId} /\ kv'.value = kv.value
      /\ ~fails => kv'.id = newId
  BY <1>1, <1>4 DEF TInv, KvTypes
<1>6. PoolTypes' /\ rows' = rows
  BY <1>3, PoolKept DEF TInv
<1> QED
  BY <1>2, <1>3, <1>5, <1>6 DEF TInv, OtherTypes, NewRow, ConfigRead, Same

\* What the users of the panel and the rotations do to the rows: of those that
\* were there before some are left, each as it was or touched.
RowsTouched ==
    \A i \in DOMAIN rows' :
        \/ i \in DOMAIN rows /\ rows'[i] = rows[i]
        \/ i \in DOMAIN rows /\ rows'[i].touched /\ rows'[i].seeded = rows[i].seeded
        \/ i > inserted /\ rows'[i].seeded = None

Users ==
    \/ AdminAddsProxy \/ AdminAddsAccount \/ AdminDeletesProxy \/ AdminDeletesAccount
    \/ AdminEdits \/ CookieRefreshed

\* A row that was changed is a row.
LEMMA TouchedRow ==
    ASSUME PoolTypes, NEW i \in DOMAIN rows, NEW r \in Row,
           rows' = [rows EXCEPT ![i] = r], r.touched, r.seeded = rows[i].seeded,
           inserted' = inserted, copy' \in {copy, rows'}
    PROVE  PoolTypes' /\ RowsTouched
<1>1. DOMAIN rows' = DOMAIN rows /\ \A j \in DOMAIN rows : rows'[j] = IF j = i THEN r ELSE rows[j]
  OBVIOUS
<1>2. \A j \in DOMAIN rows' : j \in 1 .. inserted' /\ rows'[j] \in Row
  BY <1>1 DEF PoolTypes
<1>3. inserted' \in 0 .. MaxRows /\ inserted' >= inserted
  BY SeedingAssumption DEF PoolTypes
<1>4. PoolTypes'
  BY <1>2, <1>3, CopyTypes
<1> QED
  BY <1>1, <1>4 DEF RowsTouched

\* The changes while the program is running.
LEMMA UsersDo ==
    ASSUME TInv, Users
    PROVE  /\ TInv' /\ Same /\ RowsTouched
           /\ kv' = kv /\ inserted' >= inserted /\ fresh' = FALSE
           /\ pc = "up" /\ pc' = "up" /\ faults' = faults
           /\ kind = "proxy" /\ copy = rows => copy' = rows'
<1>1. Serving
  BY DEF Users, AdminAddsProxy, AdminAddsAccount, AdminDeletesProxy, AdminDeletesAccount,
         AddsByHand, DeletesByHand, AdminEdits, CookieRefreshed
<1>2. /\ pc = "up" /\ pc' = "up" /\ Same /\ legacy' = legacy /\ kv' = kv /\ newId' = newId
      /\ starts' = starts /\ faults' = faults /\ moved' = moved /\ misread' = misread
      /\ fresh' = FALSE
  BY <1>1 DEF Serving, Same
<1>3. inserted \in Nat /\ MaxRefresh \in Nat
  BY SeedingAssumption DEF TInv, PoolTypes
<1>4. /\ PoolTypes' /\ RowsTouched /\ inserted' >= inserted
      /\ kind = "proxy" /\ copy = rows => copy' = rows'
  <2>1. CASE AddsByHand
    <3>1. PICK v \in Written \cap Good : Insert(v, None, FALSE)
      BY <2>1 DEF AddsByHand
    <3>2. /\ PoolTypes'
          /\ inserted' = inserted + 1
          /\ DOMAIN rows' = DOMAIN rows \cup {inserted + 1}
          /\ rows'[inserted + 1] = [value |-> v, seeded |-> None, touched |-> FALSE]
          /\ \A i \in DOMAIN rows : rows'[i] = rows[i]
          /\ kind = "proxy" => copy' = rows'
      BY <3>1, PoolInserted DEF TInv
    <3>3. rows'[inserted + 1].seeded = None
      BY <3>2
    <3> QED
      BY <1>3, <3>2, <3>3 DEF RowsTouched
  <2>2. CASE DeletesByHand
    <3>1. PICK i \in DOMAIN rows : rows' = Minus(i)
      BY <2>2 DEF DeletesByHand
    <3>2. /\ PoolTypes'
          /\ DOMAIN rows' = DOMAIN rows \ {i}
          /\ \A j \in DOMAIN rows' : rows'[j] = rows[j]
          /\ kind = "proxy" => copy' = rows'
      BY <2>2, <3>1, PoolReduced DEF TInv, DeletesByHand
    <3> QED
      BY <1>3, <2>2, <3>2 DEF RowsTouched, DeletesByHand
  <2>3. CASE AdminEdits
    <3>1. PICK i \in DOMAIN rows, v \in Written :
             rows' = [rows EXCEPT ![i].value = v, ![i].touched = TRUE]
      BY <2>3 DEF AdminEdits
    <3>2. PICK r : r = [rows[i] EXCEPT !.value = v, !.touched = TRUE]
      OBVIOUS
    <3>3. rows[i] \in Row /\ v \in Value
      BY ValuesAreValues DEF TInv, PoolTypes
    <3>4. r \in Row /\ r.touched /\ r.seeded = rows[i].seeded
      BY <3>2, <3>3 DEF Row
    <3>5. rows' = [rows EXCEPT ![i] = r]
      BY <3>1, <3>2
    <3>6. copy' \in {copy, rows'} /\ (kind = "proxy" => copy' = rows') /\ inserted' = inserted
      BY <2>3 DEF AdminEdits, Reloaded
    <3>7. PoolTypes' /\ RowsTouched
      BY <3>4, <3>5, <3>6, TouchedRow DEF TInv
    <3> QED
      BY <1>3, <3>6, <3>7
  <2>4. CASE CookieRefreshed
    <3>1. PICK i \in DOMAIN rows :
            /\ rows[i].value.gen < MaxRefresh
            /\ rows' = [rows EXCEPT ![i].value.gen = @ + 1, ![i].touched = TRUE]
      BY <2>4 DEF CookieRefreshed
    <3>2. PICK v : v = [rows[i].value EXCEPT !.gen = @ + 1]
      OBVIOUS
    <3>3. PICK r : r = [rows[i] EXCEPT !.value = v, !.touched = TRUE]
      OBVIOUS
    <3>4. rows[i] \in Row
      BY DEF TInv, PoolTypes
    <3>5. v \in Value
      BY <1>3, <3>1, <3>2, <3>4 DEF Row, Value
    <3>6. r \in Row /\ r.touched /\ r.seeded = rows[i].seeded
      BY <3>3, <3>4, <3>5 DEF Row
    <3>7. rows' = [rows EXCEPT ![i] = r]
      BY <3>1, <3>2, <3>3, <3>4 DEF Row, Value
    <3>8. copy' \in {copy, rows'} /\ inserted' = inserted /\ kind = "cookie"
      BY <2>4 DEF CookieRefreshed
    <3>9. PoolTypes' /\ RowsTouched
      BY <3>6, <3>7, <3>8, TouchedRow DEF TInv
    <3>10. kind # "proxy"
      BY <3>8
    <3> QED
      BY <1>3, <3>8, <3>9, <3>10
  <2> QED
    BY <2>1, <2>2, <2>3, <2>4
    DEF Users, AdminAddsProxy, AdminAddsAccount, AdminDeletesProxy, AdminDeletesAccount
<1> QED
  BY <1>2, <1>4 DEF TInv, KvTypes, OtherTypes, NewRow, ConfigRead, Same

\* The steps that leave the pool and what is recorded alone.
LEMMA QuietDoes ==
    ASSUME TInv, AdminSavesSettings \/ Stop \/ UNCHANGED vars
    PROVE  /\ TInv' /\ Same /\ Keep /\ kv' = kv /\ fresh' = fresh /\ newId' = newId
           /\ pc' = pc \/ pc' = "down"
           /\ faults' = 0 => faults = 0 /\ (pc' = pc \/ pc = "up")
<1>1. CASE AdminSavesSettings
  <2>1. /\ kind' = kind /\ legacy' \in Written \cup {None} /\ Keep /\ kv' = kv
        /\ config' = config /\ newId' = newId /\ pc' = pc /\ starts' = starts
        /\ faults' = faults /\ misread' = misread /\ fresh' = fresh /\ refused' = refused
        /\ moved' = (moved /\ legacy' = legacy)
    BY <1>1 DEF AdminSavesSettings, Keep
  <2> QED
    BY <2>1, PoolKept DEF TInv, KvTypes, OtherTypes, NewRow, ConfigRead, Same
<1>2. CASE Stop
  <2>1. /\ kind' = kind /\ legacy' = legacy /\ Keep /\ kv' = kv /\ config' = config
        /\ newId' = newId /\ pc' = "down" /\ starts' = starts /\ Fault(pc # "up")
        /\ moved' = moved /\ misread' = misread /\ fresh' = fresh /\ refused' = refused
    BY <1>2 DEF Stop, ghosts, Keep
  <2>2. faults' \in 0 .. MaxFaults /\ (faults' = 0 => faults = 0 /\ pc = "up")
    BY <2>1, FaultCounted DEF TInv, OtherTypes
  <2> QED
    BY <2>1, <2>2, PoolKept DEF TInv, KvTypes, OtherTypes, NewRow, ConfigRead, Same
<1>3. CASE UNCHANGED vars
  <2>1. /\ kind' = kind /\ legacy' = legacy /\ Keep /\ kv' = kv /\ config' = config
        /\ newId' = newId /\ pc' = pc /\ starts' = starts /\ faults' = faults
        /\ moved' = moved /\ misread' = misread /\ fresh' = fresh /\ refused' = refused
    BY <1>3 DEF vars, ghosts, Keep
  <2> QED
    BY <2>1, PoolKept DEF TInv, KvTypes, OtherTypes, NewRow, ConfigRead, Same
<1> QED
  BY <1>1, <1>2, <1>3

\* At first there are no rows and no start was made.
LEMMA InitTypes == Init => TInv
<1> SUFFICES ASSUME Init PROVE TInv
  OBVIOUS
<1>1. PoolTypes /\ KvTypes
  BY SeedingAssumption DEF Init, PoolTypes, KvTypes
<1>2. OtherTypes
  <2>1. /\ kind \in {"proxy", "cookie"} /\ legacy \in Written \cup {None}
        /\ config = None /\ pc = "down"
    BY DEF Init
  <2>2. starts \in 0 .. MaxStarts /\ faults \in 0 .. MaxFaults
    BY SeedingAssumption DEF Init
  <2>3. moved \in BOOLEAN /\ misread \in BOOLEAN /\ fresh \in BOOLEAN /\ refused \in BOOLEAN
    BY DEF Init
  <2> QED
    BY <2>1, <2>2, <2>3 DEF OtherTypes
<1>3. NewRow /\ ConfigRead
  BY DEF Init, NewRow, ConfigRead
<1> QED
  BY <1>1, <1>2, <1>3 DEF TInv

\* Every step keeps the types.
LEMMA NextTypes == TInv /\ [Next]_vars => TInv'
  BY MigrateDoes, MarkDoes, StartDoes, SyncDoes, AddDoes, SetValueDoes, SetIdDoes, UsersDo,
     QuietDoes
  DEF Next, Users

\* The types of the tables, the keys and a start's values, and the row a start
\* made being there until the start has ended.
THEOREM SeedingTypes == Spec => []TypeOK
  BY InitTypes, NextTypes, PartsAreTypes, PTL DEF Spec


-------------------------------------------------------------------------------
(* The pool follows the parameter while nothing fails.  PoolFollowsConfig is   *)
(* about a program that has started; what makes it inductive is what holds in  *)
(* the middle of a start: behind the comparison no row of an earlier start is  *)
(* left, and until both keys are written the only such row is the new one.     *)

Untouched(i) == rows[i].seeded # None /\ ~rows[i].touched
AtRest == pc \in {"down", "migrate", "mark", "sync", "up"}

\* What a start made and nobody touched is what is recorded.
Recorded == \A i \in DOMAIN rows : Untouched(i) => i = kv.id /\ rows[i].value = kv.value

\* The value recorded is in the pool as long as nobody changed the pool.
Shown == fresh /\ ~refused /\ kv.value # None => Has(rows, kv.value)

\* The start has made a row of v, or found v in the pool.
Made(v) ==
    /\ \A i \in DOMAIN rows : Untouched(i) => i = newId
    /\ v # None => Has(rows, v)
    /\ newId # 0 => rows[newId].seeded = v

Following ==
    /\ kind = "proxy" /\ pc # "down" => copy = rows
    /\ AtRest => Recorded /\ Shown
    /\ pc = "add" => \A i \in DOMAIN rows : ~Untouched(i)
    /\ pc = "setValue" => Made(config)
    /\ pc = "setId" => Made(config) /\ kv.value = config
    /\ pc # "setId" /\ kv.id \in DOMAIN rows => rows[kv.id].seeded = kv.value
    /\ pc = "up" /\ ~refused /\ config # Unreadable => kv.value = config

FInv ==
    /\ TInv
    /\ kv.id <= inserted
    /\ config \in Value \ Good => refused
    /\ faults = 0 => Following

\* What is looked into is the table.
LEMMA SeenIsTheTable ==
    ASSUME TInv, Following, pc # "down"
    PROVE  Seen(FALSE) = rows
  BY DEF Following, Seen, TInv, OtherTypes

\* A start begins.
LEMMA StartFollows == FInv /\ Start => FInv'
<1> SUFFICES ASSUME FInv, Start PROVE FInv'
  OBVIOUS
<1>1. /\ TInv' /\ kind' = kind
      /\ rows' = rows /\ inserted' = inserted /\ kv' = kv /\ fresh' = fresh
      /\ (refused => refused') /\ (config' \in Value \ Good => refused')
      /\ (faults' = 0 /\ kind = "proxy" => copy' = rows)
      /\ pc = "down" /\ pc' = "migrate"
      /\ faults' = 0 => faults = 0
  BY StartDoes DEF FInv
<1>2. ASSUME faults' = 0 PROVE Following'
  <2>1. Recorded /\ Shown /\ (kv.id \in DOMAIN rows => rows[kv.id].seeded = kv.value)
    BY <1>1, <1>2 DEF FInv, Following, AtRest
  <2>2. Recorded' /\ Shown'
    BY <1>1, <2>1 DEF Recorded, Shown, Untouched, Has
  <2> QED
    BY <1>1, <1>2, <2>1, <2>2 DEF Following
<1> QED
  BY <1>1, <1>2 DEF FInv

\* A row no start made is added before the comparison.
LEMMA AddedFollows ==
    ASSUME FInv, TInv', RowAdded, CopyFollows, Same, kv'.id = kv.id, kv'.value = kv.value,
           fresh' = fresh, pc \in {"migrate", "mark"}, pc' \in {"mark", "sync"},
           faults' = 0 => faults = 0
    PROVE  FInv'
<1>1. inserted \in Nat /\ inserted' \in Nat /\ kv.id \in Nat
  BY SeedingAssumption DEF FInv, TInv, PoolTypes, KvTypes
<1>2. kv'.id <= inserted'
  BY <1>1 DEF FInv, RowAdded
<1>3. ASSUME faults' = 0 PROVE Following'
  <2>1. Recorded /\ Shown /\ (kv.id \in DOMAIN rows => rows[kv.id].seeded = kv.value)
        /\ (kind = "proxy" => copy = rows)
    BY <1>3 DEF FInv, Following, AtRest
  <2>2. Recorded'
    BY <2>1 DEF Recorded, Untouched, RowAdded
  <2>3. Shown'
    BY <2>1 DEF Shown, Has, RowAdded, Same
  <2>4. kv'.id \in DOMAIN rows' => rows'[kv'.id].seeded = kv'.value
    BY <1>1, <2>1 DEF FInv, RowAdded
  <2>5. kind' = "proxy" => copy' = rows'
    BY <1>3, <2>1 DEF CopyFollows, Same
  <2> QED
    BY <2>2, <2>3, <2>4, <2>5 DEF Following
<1> QED
  BY <1>2, <1>3 DEF FInv, Same

\* The comparison, and the withdrawal of the row recorded.
LEMMA SyncFollows == FInv /\ Sync => FInv'
<1> SUFFICES ASSUME FInv, Sync PROVE FInv'
  OBVIOUS
<1>1. /\ TInv' /\ Same /\ RowsLeft /\ inserted' = inserted
      /\ kv' = kv /\ fresh' = fresh
      /\ pc = "sync" /\ pc' \in {"up", "add"}
      /\ faults' = 0 =>
           /\ faults = 0
           /\ \/ pc' = "up" /\ Idle(kv.value) /\ Keep
              \/ /\ pc' = "add"
                 /\ ~MayDrop(Seen(FALSE), kv.value) /\ Keep
              \/ /\ pc' = "add"
                 /\ MayDrop(Seen(FALSE), kv.value)
                 /\ DOMAIN rows' = DOMAIN rows \ {kv.id}
                 /\ kind = "proxy" => copy' = rows'
  BY SyncDoes DEF FInv
<1>2. ASSUME faults' = 0 PROVE Following'
  <2>1. /\ Recorded /\ Shown /\ (kv.id \in DOMAIN rows => rows[kv.id].seeded = kv.value)
        /\ kind = "proxy" => copy = rows
        /\ Seen(FALSE) = rows
    BY <1>1, <1>2, SeenIsTheTable DEF FInv, Following, AtRest
  <2>2. CASE pc' = "up" /\ Idle(kv.value) /\ Keep
    <3>1. rows' = rows /\ copy' = copy
      BY <2>2, PoolKept DEF FInv, TInv
    <3>2. ~refused /\ config # Unreadable => kv.value = config
      <4>1. config \in Written \cup {None, Unreadable} /\ Written \subseteq Value
        BY ValuesAreValues DEF FInv, TInv, OtherTypes
      <4> QED
        BY <2>2, <4>1 DEF Idle, FInv
    <3>3. Recorded' /\ Shown'
      BY <1>1, <2>1, <3>1 DEF Recorded, Shown, Untouched, Has, Same
    <3> QED
      BY <1>1, <2>1, <2>2, <3>1, <3>2, <3>3 DEF Following, Same
  <2>3. CASE pc' = "add" /\ ~MayDrop(rows, kv.value) /\ Keep
    <3>1. rows' = rows /\ copy' = copy
      BY <2>3, PoolKept DEF FInv, TInv
    <3>2. ASSUME NEW i \in DOMAIN rows, Untouched(i) PROVE FALSE
      <4>1. i = kv.id /\ rows[i].value = kv.value
        BY <2>1, <3>2 DEF Recorded
      <4>2. i # 0 /\ rows[i].value \in Value
        BY SeedingAssumption DEF FInv, TInv, PoolTypes, Row
      <4> QED
        BY <2>3, <4>1, <4>2, ValuesAreValues DEF MayDrop
    <3>3. \A i \in DOMAIN rows' : ~Untouched(i)'
      BY <3>1, <3>2 DEF Untouched
    <3> QED
      BY <1>1, <2>1, <2>3, <3>1, <3>3 DEF Following, Same, AtRest
  <2>4. CASE /\ pc' = "add"
             /\ DOMAIN rows' = DOMAIN rows \ {kv.id}
             /\ kind = "proxy" => copy' = rows'
    <3>1. \A i \in DOMAIN rows' : ~Untouched(i)'
      BY <1>1, <2>1, <2>4 DEF Untouched, Recorded, RowsLeft
    <3> QED
      BY <1>1, <2>4, <3>1 DEF Following, Same, AtRest
  <2> QED
    BY <1>1, <1>2, <2>1, <2>2, <2>3, <2>4
<1> QED
  BY <1>1, <1>2 DEF FInv, Same

\* The row for the parameter.
LEMMA AddFollows == FInv /\ Add => FInv'
<1> SUFFICES ASSUME FInv, Add PROVE FInv'
  OBVIOUS
<1>1. /\ TInv' /\ Same /\ kv' = kv /\ fresh' = fresh
      /\ inserted' >= inserted
      /\ \A i \in DOMAIN rows : i \in DOMAIN rows' /\ rows'[i] = rows[i]
      /\ \A i \in DOMAIN rows' \ DOMAIN rows :
            /\ i = newId' /\ i > inserted /\ pc' = "setValue"
            /\ rows'[i] = [value |-> config, seeded |-> config, touched |-> FALSE]
      /\ newId' \in DOMAIN rows' \ DOMAIN rows \/ newId' = 0
      /\ pc = "add" /\ pc' \in {"setValue", "up"}
      /\ faults' = 0 =>
           /\ faults = 0
           /\ CopyFollows
           /\ pc' = "up" => config \in Value \ Good
           /\ pc' = "setValue" /\ config # None =>
                Has(Seen(FALSE), config) \/ newId' \in DOMAIN rows' \ DOMAIN rows
  BY AddDoes DEF FInv
<1>2. inserted \in Nat /\ inserted' \in Nat /\ kv.id \in Nat /\ kv.id <= inserted
  BY SeedingAssumption, <1>1 DEF FInv, TInv, PoolTypes, KvTypes
<1>3. ASSUME faults' = 0 PROVE Following'
  <2>1. /\ \A i \in DOMAIN rows : ~Untouched(i)
        /\ kv.id \in DOMAIN rows => rows[kv.id].seeded = kv.value
        /\ kind = "proxy" => copy = rows
        /\ Seen(FALSE) = rows
    BY <1>1, <1>3, SeenIsTheTable DEF FInv, Following
  <2>2. \A i \in DOMAIN rows' : Untouched(i)' => i = newId' /\ i \notin DOMAIN rows
    BY <1>1, <2>1 DEF Untouched
  <2>3. kind' = "proxy" => copy' = rows'
    BY <1>1, <1>3, <2>1 DEF CopyFollows, Same
  <2>4. kv'.id \in DOMAIN rows' => rows'[kv'.id].seeded = kv'.value
    BY <1>1, <1>2, <2>1
  <2>5. CASE pc' = "up"
    <3>1. refused /\ refused'
      BY <1>1, <1>3, <2>5 DEF FInv, Same
    <3>2. Recorded' /\ Shown'
      BY <1>1, <2>2, <2>5, <3>1 DEF Recorded, Shown
    <3> QED
      BY <2>3, <2>4, <2>5, <3>1, <3>2 DEF Following
  <2>6. CASE pc' = "setValue"
    <3>1. \A i \in DOMAIN rows' \ DOMAIN rows :
             rows'[i].value = config /\ rows'[i].seeded = config
      BY <1>1
    <3>2. config' = config
      BY <1>1 DEF Same
    <3>3. config # None => Has(rows, config) \/ newId' \in DOMAIN rows' \ DOMAIN rows
      BY <1>1, <1>3, <2>1, <2>6
    <3>4. config' # None => Has(rows', config')
      BY <1>1, <3>1, <3>2, <3>3 DEF Has
    <3>5. newId' # 0 => rows'[newId'].seeded = config'
      BY <1>1, <3>1, <3>2
    <3>6. Made(config)'
      BY <2>2, <3>4, <3>5 DEF Made
    <3> QED
      BY <2>3, <2>4, <2>6, <3>6 DEF Following, AtRest
  <2> QED
    BY <1>1, <2>5, <2>6
<1> QED
  BY <1>1, <1>2, <1>3 DEF FInv, Same


\* The value is recorded, and then the id.
LEMMA SetFollows == FInv /\ (SetValue \/ SetId) => FInv'
<1> SUFFICES ASSUME FInv, SetValue \/ SetId PROVE FInv'
  OBVIOUS
<1>1. CASE SetValue
  <2>1. /\ TInv' /\ Same /\ Keep /\ newId' = newId
        /\ kv'.id = kv.id
        /\ pc = "setValue" /\ pc' = "setId"
        /\ faults' = 0 => faults = 0 /\ kv'.value = config
    BY <1>1, SetValueDoes DEF FInv
  <2>2. rows' = rows /\ copy' = copy /\ inserted' = inserted
    BY <2>1, PoolKept DEF FInv, TInv
  <2>3. ASSUME faults' = 0 PROVE Following'
    <3>1. Made(config) /\ (kind = "proxy" => copy = rows)
      BY <2>1, <2>3 DEF FInv, Following
    <3>2. Made(config)'
      BY <2>1, <2>2, <3>1 DEF Made, Untouched, Has, Same
    <3> QED
      BY <2>1, <2>2, <2>3, <3>1, <3>2 DEF Following, AtRest, Same
  <2> QED
    BY <2>1, <2>2, <2>3 DEF FInv, Same
<1>2. CASE SetId
  <2>1. /\ TInv' /\ Same /\ Keep /\ newId' = newId /\ fresh' = fresh
        /\ kv'.id \in {kv.id, newId}
        /\ kv'.value = kv.value
        /\ pc = "setId" /\ pc' = "up"
        /\ faults' = 0 => faults = 0 /\ kv'.id = newId
    BY <1>2, SetIdDoes DEF FInv
  <2>2. rows' = rows /\ copy' = copy /\ inserted' = inserted
    BY <2>1, PoolKept DEF FInv, TInv
  <2>3. newId # 0 => newId \in DOMAIN rows /\ rows[newId].value = config
    BY <2>1 DEF FInv, TInv, NewRow
  <2>4. kv'.id <= inserted'
    BY SeedingAssumption, <2>1, <2>2, <2>3 DEF FInv, TInv, PoolTypes
  <2>5. ASSUME faults' = 0 PROVE Following'
    <3>1. Made(config) /\ kv.value = config /\ (kind = "proxy" => copy = rows)
      BY <2>1, <2>5 DEF FInv, Following
    <3>2. 0 \notin DOMAIN rows
      BY SeedingAssumption DEF FInv, TInv, PoolTypes
    <3>3. Recorded'
      BY <2>1, <2>2, <2>3, <2>5, <3>1, <3>2 DEF Made, Recorded, Untouched
    <3>4. Shown'
      BY <2>1, <2>2, <3>1 DEF Made, Shown, Has
    <3>5. kv'.id \in DOMAIN rows' => rows'[kv'.id].seeded = kv'.value
      BY <2>1, <2>2, <2>5, <3>1, <3>2 DEF Made
    <3> QED
      BY <2>1, <2>2, <3>1, <3>3, <3>4, <3>5 DEF Following, Same
  <2> QED
    BY <2>1, <2>4, <2>5 DEF FInv, Same
<1> QED
  BY <1>1, <1>2

\* The changes while the program is running.
LEMMA UsersFollow == FInv /\ Users => FInv'
<1> SUFFICES ASSUME FInv, Users PROVE FInv'
  OBVIOUS
<1>1. /\ TInv' /\ Same /\ RowsTouched
      /\ kv' = kv /\ inserted' >= inserted /\ fresh' = FALSE
      /\ pc = "up" /\ pc' = "up" /\ faults' = faults
      /\ kind = "proxy" /\ copy = rows => copy' = rows'
  BY UsersDo DEF FInv
<1>2. /\ inserted \in Nat /\ inserted' \in Nat /\ kv.id \in Nat /\ kv.id <= inserted
  BY SeedingAssumption, <1>1 DEF FInv, TInv, PoolTypes, KvTypes
<1>3. ASSUME faults' = 0 PROVE Following'
  <2>1. /\ Recorded /\ (kv.id \in DOMAIN rows => rows[kv.id].seeded = kv.value)
        /\ kind = "proxy" => copy = rows
        /\ ~refused /\ config # Unreadable => kv.value = config
    BY <1>1, <1>3 DEF FInv, Following, AtRest
  <2>2. Recorded'
    BY <1>1, <2>1 DEF Recorded, Untouched, RowsTouched
  <2>3. Shown'
    BY <1>1 DEF Shown
  <2>4. kv'.id \in DOMAIN rows' => rows'[kv'.id].seeded = kv'.value
    BY <1>1, <1>2, <2>1 DEF RowsTouched
  <2> QED
    BY <1>1, <2>1, <2>2, <2>3, <2>4 DEF Following, Same
<1> QED
  BY <1>1, <1>2, <1>3 DEF FInv, Same

\* The steps that leave the pool alone.
LEMMA QuietFollows == FInv /\ (AdminSavesSettings \/ Stop \/ UNCHANGED vars) => FInv'
<1> SUFFICES ASSUME FInv, AdminSavesSettings \/ Stop \/ UNCHANGED vars PROVE FInv'
  OBVIOUS
<1>1. /\ TInv' /\ Same /\ Keep /\ kv' = kv /\ fresh' = fresh /\ newId' = newId
      /\ pc' = pc \/ pc' = "down"
      /\ faults' = 0 => faults = 0 /\ (pc' = pc \/ pc = "up")
  BY QuietDoes DEF FInv
<1>2. rows' = rows /\ copy' = copy /\ inserted' = inserted
  BY <1>1, PoolKept DEF FInv, TInv
<1>3. ASSUME faults' = 0 PROVE Following'
  <2>1. Following
    BY <1>1, <1>3 DEF FInv
  <2>2. /\ Recorded => Recorded'
        /\ Shown => Shown'
        /\ Made(config) => Made(config)'
        /\ \A i \in DOMAIN rows : Untouched(i)' <=> Untouched(i)
    BY <1>1, <1>2 DEF Recorded, Shown, Made, Untouched, Has, Same
  <2>3. CASE pc' = pc
    BY <1>1, <1>2, <2>1, <2>2, <2>3 DEF Following, AtRest, Same
  <2>4. CASE pc = "up" /\ pc' = "down"
    BY <1>1, <1>2, <2>1, <2>2, <2>4 DEF Following, AtRest, Same
  <2> QED
    BY <1>1, <1>3, <2>3, <2>4
<1> QED
  BY <1>1, <1>2, <1>3 DEF FInv, Same

\* Nothing is recorded at first, and there are no rows.
LEMMA InitFollows == Init => FInv
<1> SUFFICES ASSUME Init PROVE FInv
  OBVIOUS
<1>1. TInv
  BY InitTypes
<1>2. Recorded /\ Shown
  BY DEF Init, Recorded, Shown
<1>3. Following
  BY <1>2 DEF Init, Following
<1>4. kv.id <= inserted
  BY DEF Init
<1>5. config \notin Value
  BY ValuesAreValues DEF Init
<1> QED
  BY <1>1, <1>3, <1>4, <1>5 DEF FInv

\* Every step keeps the pool following.
LEMMA NextFollows == FInv /\ [Next]_vars => FInv'
<1> SUFFICES ASSUME FInv, [Next]_vars PROVE FInv'
  OBVIOUS
<1>1. CASE Migrate
  <2>1. TInv
    BY DEF FInv
  <2> QED
    BY <1>1, <2>1, MigrateDoes, AddedFollows
<1>2. CASE Mark
  <2>1. TInv
    BY DEF FInv
  <2> QED
    BY <1>2, <2>1, MarkDoes, AddedFollows
<1> QED
  BY <1>1, <1>2, StartFollows, SyncFollows, AddFollows, SetFollows, UsersFollow, QuietFollows
  DEF Next, Users

\* While nothing fails the pool follows the start parameter: of the rows that
\* starts made and nobody touched there is the recorded one, with the value
\* recorded, and the parameter is in the pool (syncSeededProxy,
\* syncSeededCookieFile).
THEOREM ThePoolFollows == Spec => []PoolFollowsConfig
<1>1. FInv => PoolFollowsConfig
  BY DEF FInv, Following, AtRest, Recorded, Shown, Untouched, PoolFollowsConfig
<1> QED
  BY InitFollows, NextFollows, <1>1, PTL DEF Spec

\* While nothing fails a start removes no row that its users added or took
\* over: what it removes is a row a start made, with the value it was made for
\* (dropSeededProxy, dropSeededCookie).
THEOREM UsersKeepTheirRows == Spec => TakenOverStays
<1>1. ASSUME FInv, [Next]_vars
      PROVE  faults' = 0 => \A i \in DOMAIN rows \ DOMAIN rows' :
                               pc = "sync" => rows[i].value = rows[i].seeded
  <2> SUFFICES ASSUME faults' = 0, pc = "sync", NEW i \in DOMAIN rows \ DOMAIN rows'
               PROVE  rows[i].value = rows[i].seeded
    OBVIOUS
  <2>1. TInv
    BY <1>1 DEF FInv
  <2>2. CASE Sync
    <3>1. /\ faults = 0
          /\ \/ Keep
             \/ /\ MayDrop(Seen(FALSE), kv.value)
                /\ DOMAIN rows' = DOMAIN rows \ {kv.id}
      BY <2>1, <2>2, SyncDoes
    <3>2. Following /\ Seen(FALSE) = rows
      BY <1>1, <2>1, <3>1, SeenIsTheTable DEF FInv
    <3>3. CASE Keep
      BY <3>3, <2>1, PoolKept DEF TInv
    <3>4. CASE MayDrop(rows, kv.value) /\ DOMAIN rows' = DOMAIN rows \ {kv.id}
      <4>1. i = kv.id /\ rows[i].value = kv.value
        BY <3>4 DEF MayDrop
      <4>2. rows[kv.id].seeded = kv.value
        BY <3>2, <4>1 DEF Following
      <4> QED
        BY <4>1, <4>2
    <3> QED
      BY <3>1, <3>2, <3>3, <3>4
  <2>3. CASE AdminSavesSettings \/ Stop \/ UNCHANGED vars
    <3>1. Keep
      BY <2>1, <2>3, QuietDoes
    <3> QED
      BY <2>1, <3>1, PoolKept DEF TInv
  <2> QED
    BY <1>1, <2>1, <2>2, <2>3, MigrateDoes, MarkDoes, StartDoes, AddDoes, SetValueDoes,
       SetIdDoes, UsersDo
    DEF Next, Users
<1> QED
  BY InitFollows, NextFollows, <1>1, PTL DEF Spec, TakenOverStays

===============================================================================
