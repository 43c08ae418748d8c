----------------------------- MODULE RequestProofs -----------------------------
(***************************************************************************)
(* Proofs about Request: the places requests take and give back, how many  *)
(* an exit has, the exits they give up, the accounts they charge and       *)
(* credit, how often they send and what they do not send again.            *)
(***************************************************************************)
EXTENDS Request, Integers, FiniteSetTheorems, TLAPS

-------------------------------------------------------------------------------
(***************************************************************************)
(* Everything but the count of places is an invariant of each request by   *)
(* itself, whatever the others do.  A step changes one request only, so it *)
(* is enough to look at the record it leaves behind.                       *)
(***************************************************************************)
WithExit == {"token", "rotate", "rotating", "recheck", "charge", "next",
             "prepare", "send"}
InRotation == {"rotate", "rotating", "recheck", "charge"}

\* The exits a request holds, by where it is.
Place(q) ==
    /\ q.exit # None <=> q.pc \in WithExit
    /\ q.rotExit # None <=> q.pc = "rotating"

\* The exits it gave up.
GivenUp(q) ==
    /\ q.exit \notin q.excluded
    /\ IsFiniteSet(q.excluded)
    /\ Cardinality(q.excluded) = q.switch

\* The accounts it has charged, and whom it will charge or credit.
ChargedBy(q) == {q.charged[i] : i \in DOMAIN q.charged}

Credit(q) ==
    /\ IsInjective(q.charged)
    /\ ChargedBy(q) \subseteq q.tried
    /\ q.pc = "pick" => q.cookie = None /\ ~q.cookieErr
    /\ q.pc \in InRotation =>
          /\ q.cookie = None /\ q.acct # None /\ q.cookieID = q.acct
          /\ q.acct \in q.tried \ ChargedBy(q)
    /\ q.pc = "token" => q.cookie = None /\ q.acct # None /\ q.acct \notin q.tried
    /\ q.pc = "next" => q.cookie = None /\ q.cookieErr
    /\ q.pc \in {"pick", "exit", "prepare", "send"} /\ q.cookie = None =>
          q.acct \notin q.tried
    /\ q.pc \notin Ended /\ q.cookie # None =>
          q.cookieID = q.cookie /\ q.cookie \in q.tried \ ChargedBy(q)
    /\ q.pc \in {"exit", "send"} => q.cookieID = q.cookie
    /\ q.cookie = None /\ ~q.cookieErr /\ q.pc \notin InRotation =>
          q.tried = {} /\ q.cookieID = None
    /\ q.cookie = None => q.uploaded = 0 /\ q.contexts = 0
    /\ q.pc = "send" => q.cookie # None \/ FallbackAnon \/ q.tried = {}

Emission(q) == q.emitted => q.pc \in Ended

Good(q) == Place(q) /\ GivenUp(q) /\ Credit(q) /\ Emission(q)

AllGood == \A r \in Requests : Good(req[r])

-------------------------------------------------------------------------------
\* One request moves on to the record now, which is well formed.
Becomes(r, now) ==
    /\ now \in RequestState
    /\ req' = [req EXCEPT ![r] = now]
    /\ Good(now)

\* streamGenerateWithFiles chooses the first account (or none).
LEMMA PickAccountGood ==
    ASSUME TypeOK, NEW r \in Requests, Good(req[r]), PickAccount(r)
    PROVE  \E now : Becomes(r, now)
  <1>1. PICK a \in Accounts \cup {None} :
           req' = [req EXCEPT ![r].acct = a, ![r].pc = "exit"]
    BY DEF PickAccount
  <1> DEFINE now == [req[r] EXCEPT !.acct = a, !.pc = "exit"]
  <1>2. req' = [req EXCEPT ![r] = now]
    BY <1>1 DEF TypeOK
  <1>3. req[r] \in RequestState /\ req[r].pc = "pick"
    BY DEF TypeOK, PickAccount
  <1>4. now \in RequestState
    BY <1>3 DEF RequestState, PCs
  <1>5. Good(now)
    BY <1>3 DEF Good, Place, GivenUp, Credit, ChargedBy, Emission, WithExit,
                InRotation, Ended, RequestState
  <1> QED
    BY <1>2, <1>4, <1>5 DEF Becomes

\* acquireSlotExcept leaves out what it is told to leave out.
LEMMA TakeableExits ==
    ASSUME NEW excluded
    PROVE  Takeable(excluded) \subseteq Exits \ excluded
  <1>1. Mode \in {"direct_only", "static_only", "pool_only", "auto"}
    BY ConstantsAssumption
  <1> QED
    BY <1>1 DEF Takeable

\* A list of accounts without repetition stays one when a new account is
\* added to it.
LEMMA AppendNew ==
    ASSUME NEW list \in Seq(Accounts), NEW a \in Accounts, IsInjective(list),
           a \notin {list[i] : i \in DOMAIN list}
    PROVE  /\ Append(list, a) \in Seq(Accounts)
           /\ IsInjective(Append(list, a))
           /\ {Append(list, a)[i] : i \in DOMAIN Append(list, a)}
                 = {list[i] : i \in DOMAIN list} \cup {a}
  <1> DEFINE more == Append(list, a)
  <1>1. /\ more \in Seq(Accounts)
        /\ DOMAIN list = 1 .. Len(list) /\ Len(list) \in Nat
        /\ DOMAIN more = 1 .. Len(list) + 1
        /\ \A i \in 1 .. Len(list) : more[i] = list[i]
        /\ more[Len(list) + 1] = a
    OBVIOUS
  <1> HIDE DEF more
  <1>2. IsInjective(more)
    BY <1>1 DEF IsInjective
  <1>3. {more[i] : i \in DOMAIN more} = {list[i] : i \in DOMAIN list} \cup {a}
    BY <1>1
  <1> QED
    BY <1>1, <1>2, <1>3 DEF more

\* An exit is taken that was not given up.
LEMMA TakeExitGood ==
    ASSUME TypeOK, NEW r \in Requests, Good(req[r]), TakeExit(r)
    PROVE  \E now : Becomes(r, now)
  <1>1. PICK e \in Takeable(req[r].excluded) :
           req' = [req EXCEPT
                      ![r].exit = e,
                      ![r].pc = IF AccountToTry(req[r]) THEN "token" ELSE "prepare"]
    BY DEF TakeExit
  <1> DEFINE now == [req[r] EXCEPT
                        !.exit = e,
                        !.pc = IF AccountToTry(req[r]) THEN "token" ELSE "prepare"]
  <1>2. req' = [req EXCEPT ![r] = now]
    BY <1>1 DEF TypeOK
  <1>3. req[r] \in RequestState /\ req[r].pc = "exit"
    BY DEF TypeOK, TakeExit
  <1>4. e \in Exits \ req[r].excluded /\ e # None
    BY TakeableExits, ConstantsAssumption
  <1>5. now \in RequestState
    BY <1>3, <1>4, ZenonT(60) DEF RequestState, PCs
  <1>6. Good(now)
    BY <1>3, <1>4, ConstantsAssumption
       DEF Good, Place, GivenUp, Credit, ChargedBy, Emission, WithExit,
           InRotation, Ended, RequestState, AccountToTry
  <1> QED
    BY <1>2, <1>5, <1>6 DEF Becomes

\* getXSRF: the account counts as tried, and its cookie is sent if there is
\* a token.
LEMMA FetchTokenGood ==
    ASSUME TypeOK, NEW r \in Requests, Good(req[r]), FetchToken(r)
    PROVE  \E now : Becomes(r, now)
  <1> DEFINE q == [req[r] EXCEPT !.tried = @ \cup {req[r].acct},
                                 !.cookieID = req[r].acct]
             sent == [q EXCEPT !.cookie = q.acct, !.pc = "prepare"]
             refused == [q EXCEPT !.pc = "rotate"]
  <1>1. req[r] \in RequestState /\ req[r].pc = "token"
    BY DEF TypeOK, FetchToken
  <1>2. req[r].acct \in Accounts /\ req[r].acct \notin ChargedBy(req[r])
    BY <1>1 DEF Good, Credit, RequestState
  <1>3. CASE req' = [req EXCEPT ![r] = sent]
    <2>1. sent \in RequestState
      BY <1>1, <1>2 DEF RequestState, PCs
    <2>2. Good(sent)
      BY <1>1, <1>2, ConstantsAssumption
         DEF Good, Place, GivenUp, Credit, ChargedBy, Emission, WithExit,
             InRotation, Ended, RequestState
    <2> QED
      BY <1>3, <2>1, <2>2 DEF Becomes
  <1>4. CASE req' = [req EXCEPT ![r] = refused]
    <2>1. refused \in RequestState
      BY <1>1, <1>2 DEF RequestState, PCs
    <2>2. Good(refused)
      BY <1>1, <1>2, ConstantsAssumption
         DEF Good, Place, GivenUp, Credit, ChargedBy, Emission, WithExit,
             InRotation, Ended, RequestState
    <2> QED
      BY <1>4, <2>1, <2>2 DEF Becomes
  <1> QED
    BY <1>3, <1>4 DEF FetchToken

\* rotateAccount and the second getXSRF.
LEMMA RotationGood ==
    ASSUME TypeOK, NEW r \in Requests, Good(req[r]),
           \/ RotateTakesExit(r) \/ RotateNoExit(r) \/ RotateEnds(r) \/ Recheck(r)
    PROVE  \E now : Becomes(r, now)
  <1>1. req[r] \in RequestState /\ req[r].pc \in {"rotate", "rotating", "recheck"}
    BY DEF TypeOK, RotateTakesExit, RotateNoExit, RotateEnds, Recheck
  <1>2. /\ req[r].acct \in Accounts
        /\ req[r].acct \in req[r].tried \ ChargedBy(req[r])
        /\ req[r].cookie = None /\ req[r].cookieID = req[r].acct
    BY <1>1 DEF Good, Credit, RequestState, InRotation
  <1>3. CASE RotateTakesExit(r)
    <2>1. PICK e \in Takeable({}) :
             req' = [req EXCEPT ![r].rotExit = e, ![r].pc = "rotating"]
      BY <1>3 DEF RotateTakesExit
    <2> DEFINE now == [req[r] EXCEPT !.rotExit = e, !.pc = "rotating"]
    <2>2. req' = [req EXCEPT ![r] = now] /\ req[r].pc = "rotate"
      BY <1>3, <2>1 DEF TypeOK, RotateTakesExit
    <2>3. e \in Exits /\ e # None
      BY TakeableExits, ConstantsAssumption
    <2>4. now \in RequestState
      BY <1>1, <2>3 DEF RequestState, PCs
    <2>5. Good(now)
      BY <1>1, <1>2, <2>2, <2>3
         DEF Good, Place, GivenUp, Credit, ChargedBy, Emission, WithExit,
             InRotation, Ended, RequestState
    <2> QED
      BY <2>2, <2>4, <2>5 DEF Becomes
  <1>4. ASSUME NEW pc \in {"recheck", "charge"},
               req' = [req EXCEPT ![r].rotExit = None, ![r].pc = pc]
        PROVE  \E now : Becomes(r, now)
    <2> DEFINE now == [req[r] EXCEPT !.rotExit = None, !.pc = pc]
    <2>1. req' = [req EXCEPT ![r] = now]
      BY <1>4 DEF TypeOK
    <2>2. now \in RequestState
      BY <1>1, <1>4 DEF RequestState, PCs
    <2>3. Good(now)
      BY <1>1, <1>2, <1>4
         DEF Good, Place, GivenUp, Credit, ChargedBy, Emission, WithExit,
             InRotation, Ended, RequestState
    <2> QED
      BY <2>1, <2>2, <2>3 DEF Becomes
  <1>5. ASSUME req[r].pc \in {"rotate", "recheck"},
               req' = [req EXCEPT ![r].pc = "charge"]
        PROVE  \E now : Becomes(r, now)
    <2> DEFINE now == [req[r] EXCEPT !.pc = "charge"]
    <2>1. req' = [req EXCEPT ![r] = now]
      BY <1>5 DEF TypeOK
    <2>2. now \in RequestState
      BY <1>1 DEF RequestState, PCs
    <2>3. Good(now)
      BY <1>1, <1>2, <1>5
         DEF Good, Place, GivenUp, Credit, ChargedBy, Emission, WithExit,
             InRotation, Ended, RequestState
    <2> QED
      BY <2>1, <2>2, <2>3 DEF Becomes
  <1>6. ASSUME req[r].pc = "recheck",
               req' = [req EXCEPT ![r].cookie = req[r].acct, ![r].pc = "prepare"]
        PROVE  \E now : Becomes(r, now)
    <2> DEFINE now == [req[r] EXCEPT !.cookie = req[r].acct, !.pc = "prepare"]
    <2>1. req' = [req EXCEPT ![r] = now]
      BY <1>6 DEF TypeOK
    <2>2. now \in RequestState
      BY <1>1 DEF RequestState, PCs
    <2>3. Good(now)
      BY <1>1, <1>2, <1>6, ConstantsAssumption
         DEF Good, Place, GivenUp, Credit, ChargedBy, Emission, WithExit,
             InRotation, Ended, RequestState
    <2> QED
      BY <2>1, <2>2, <2>3 DEF Becomes
  <1> QED
    BY <1>3, <1>4, <1>5, <1>6 DEF RotateNoExit, RotateEnds, Recheck

\* No token: the account is charged, once, and the next one is chosen.
LEMMA NextAccountGood ==
    ASSUME TypeOK, NEW r \in Requests, Good(req[r]),
           ChargeAccount(r) \/ NextAccount(r)
    PROVE  \E now : Becomes(r, now)
  <1>1. req[r] \in RequestState
    BY DEF TypeOK
  <1>2. CASE ChargeAccount(r)
    <2> DEFINE now == [req[r] EXCEPT !.cookieErr = TRUE, !.pc = "next",
                                     !.charged = Append(@, req[r].acct)]
    <2>1. req' = [req EXCEPT ![r] = now] /\ req[r].pc = "charge"
      BY <1>2 DEF TypeOK, ChargeAccount
    <2>2. /\ req[r].acct \in Accounts /\ req[r].charged \in Seq(Accounts)
          /\ IsInjective(req[r].charged)
          /\ req[r].acct \in req[r].tried \ ChargedBy(req[r])
      BY <1>1, <2>1 DEF Good, Credit, RequestState, InRotation
    <2>3. /\ now.charged \in Seq(Accounts) /\ IsInjective(now.charged)
          /\ ChargedBy(now) = ChargedBy(req[r]) \cup {req[r].acct}
      <3>1. now.charged = Append(req[r].charged, req[r].acct)
        BY <1>1 DEF RequestState
      <3> DEFINE list == req[r].charged
                 more == Append(list, req[r].acct)
      <3>2. /\ list \in Seq(Accounts) /\ req[r].acct \in Accounts
            /\ IsInjective(list)
            /\ req[r].acct \notin {list[i] : i \in DOMAIN list}
        BY <2>2 DEF ChargedBy
      <3> HIDE DEF list
      <3>3. /\ more \in Seq(Accounts) /\ IsInjective(more)
            /\ {more[i] : i \in DOMAIN more}
                  = {list[i] : i \in DOMAIN list} \cup {req[r].acct}
        BY <3>2, AppendNew
      <3> HIDE DEF more
      <3>4. now.charged = more
        BY <3>1 DEF more, list
      <3> HIDE DEF now
      <3> QED
        BY <3>3, <3>4 DEF ChargedBy, list
    <2>4. now \in RequestState
      BY <1>1, <2>3 DEF RequestState, PCs
    <2>5. /\ now.pc = "next" /\ now.cookieErr /\ now.cookie = req[r].cookie
          /\ now.exit = req[r].exit /\ now.rotExit = req[r].rotExit
          /\ now.excluded = req[r].excluded /\ now.switch = req[r].switch
          /\ now.emitted = req[r].emitted /\ now.tried = req[r].tried
          /\ now.uploaded = req[r].uploaded /\ now.contexts = req[r].contexts
      BY <1>1 DEF RequestState
    <2> HIDE DEF now
    <2>6. Good(now)
      BY <1>1, <2>1, <2>2, <2>3, <2>5
         DEF Good, Place, GivenUp, Credit, Emission, WithExit, InRotation, Ended
    <2> QED
      BY <2>1, <2>4, <2>6 DEF Becomes
  <1>3. CASE NextAccount(r)
    <2>1. PICK a \in Accounts \cup {None} :
             /\ Picked(req[r].tried, a)
             /\ LET q == [req[r] EXCEPT !.acct = a]
                IN  req' = [req EXCEPT ![r] =
                       [q EXCEPT !.pc = IF AccountToTry(q) THEN "token" ELSE "prepare"]]
      BY <1>3 DEF NextAccount
    <2> DEFINE q == [req[r] EXCEPT !.acct = a]
               now == [q EXCEPT !.pc = IF AccountToTry(q) THEN "token" ELSE "prepare"]
    <2>2. req' = [req EXCEPT ![r] = now] /\ req[r].pc = "next"
      BY <1>3, <2>1 DEF NextAccount
    <2>3. a \notin req[r].tried
      BY <1>1, <2>1, ConstantsAssumption DEF Picked, Pickable, RequestState
    <2>4. now \in RequestState
      BY <1>1, <2>1, ZenonT(60) DEF RequestState, PCs
    <2>5. Good(now)
      BY <1>1, <2>1, <2>2, <2>3
         DEF Good, Place, GivenUp, Credit, ChargedBy, Emission, WithExit,
             InRotation, Ended, RequestState, AccountToTry
    <2> QED
      BY <2>2, <2>4, <2>5 DEF Becomes
  <1> QED
    BY <1>2, <1>3

\* Parts of a request's state may be replaced one by one.
LEMMA Updates ==
    ASSUME NEW q \in RequestState
    PROVE  /\ \A pc \in PCs, e \in Exits \cup {None} :
                 [q EXCEPT !.pc = pc, !.exit = e] \in RequestState
           /\ \A pc \in PCs, list \in Seq(Accounts) :
                 [q EXCEPT !.pc = pc, !.charged = list] \in RequestState
           /\ \A exits \in SUBSET Exits, n \in Nat :
                 [q EXCEPT !.excluded = exits, !.switch = n] \in RequestState
           /\ \A pc \in PCs : [q EXCEPT !.pc = pc, !.sends = @ + 1] \in RequestState
           /\ [q EXCEPT !.xsrfRetried = TRUE, !.sends = @ + 1] \in RequestState
           /\ [q EXCEPT !.attempt = @ + 1] \in RequestState
           /\ \A e \in BOOLEAN, j \in BOOLEAN :
                 [q EXCEPT !.emitted = e, !.rejected = j, !.sends = @ + 1]
                    \in RequestState
  <1>1. ASSUME NEW pc \in PCs, NEW e \in Exits \cup {None}
        PROVE  [q EXCEPT !.pc = pc, !.exit = e] \in RequestState
    BY DEF RequestState
  <1>2. ASSUME NEW pc \in PCs, NEW list \in Seq(Accounts)
        PROVE  [q EXCEPT !.pc = pc, !.charged = list] \in RequestState
    BY DEF RequestState
  <1>3. ASSUME NEW exits \in SUBSET Exits, NEW n \in Nat
        PROVE  [q EXCEPT !.excluded = exits, !.switch = n] \in RequestState
    BY DEF RequestState
  <1> DEFINE sends == q.sends + 1
             attempt == q.attempt + 1
  <1>4. sends \in Nat /\ attempt \in Nat
    BY DEF RequestState
  <1>5. /\ [q EXCEPT !.xsrfRetried = TRUE, !.sends = @ + 1]
              = [q EXCEPT !.xsrfRetried = TRUE, !.sends = sends]
        /\ [q EXCEPT !.attempt = @ + 1] = [q EXCEPT !.attempt = attempt]
    BY DEF RequestState
  <1>6. ASSUME NEW pc \in PCs
        PROVE  [q EXCEPT !.pc = pc, !.sends = @ + 1]
                  = [q EXCEPT !.pc = pc, !.sends = sends]
    BY DEF RequestState
  <1>7. ASSUME NEW e \in BOOLEAN, NEW j \in BOOLEAN
        PROVE  [q EXCEPT !.emitted = e, !.rejected = j, !.sends = @ + 1]
                  = [q EXCEPT !.emitted = e, !.rejected = j, !.sends = sends]
    BY DEF RequestState
  <1> HIDE DEF sends, attempt
  <1>8. /\ [q EXCEPT !.xsrfRetried = TRUE, !.sends = sends] \in RequestState
        /\ [q EXCEPT !.attempt = attempt] \in RequestState
    BY <1>4 DEF RequestState
  <1>9. ASSUME NEW pc \in PCs
        PROVE  [q EXCEPT !.pc = pc, !.sends = sends] \in RequestState
    BY <1>4 DEF RequestState
  <1>10. ASSUME NEW e \in BOOLEAN, NEW j \in BOOLEAN
         PROVE  [q EXCEPT !.emitted = e, !.rejected = j, !.sends = sends]
                   \in RequestState
    BY <1>4 DEF RequestState
  <1> QED
    BY <1>1, <1>2, <1>3, <1>5, <1>6, <1>7, <1>8, <1>9, <1>10

\* A request that ends keeps nothing but its history.
LEMMA EndGood ==
    ASSUME TypeOK, NEW r \in Requests, NEW now \in RequestState,
           GivenUp(now), IsInjective(now.charged), ChargedBy(now) \subseteq now.tried,
           now.rotExit = None, now.pc \in Ended,
           now.cookie = None /\ ~now.cookieErr => now.tried = {} /\ now.cookieID = None,
           now.cookie = None => now.uploaded = 0 /\ now.contexts = 0,
           End(r, now)
    PROVE  \E new : Becomes(r, new)
  <1> DEFINE new == [now EXCEPT !.exit = None]
  <1>1. req' = [req EXCEPT ![r] = new]
    BY DEF End
  <1>2. new \in RequestState
    BY DEF RequestState
  <1>3. None \notin now.excluded
    BY ConstantsAssumption DEF RequestState
  <1>4. Good(new)
    BY <1>3 DEF Good, Place, GivenUp, Credit, ChargedBy, Emission, WithExit,
                InRotation, Ended, RequestState
  <1> QED
    BY <1>1, <1>2, <1>4 DEF Becomes

\* The return that charges the account whose cookie was rejected: that
\* account was not charged before.
LEMMA FinishGood ==
    ASSUME TypeOK, NEW r \in Requests, NEW now \in RequestState,
           GivenUp(now), Credit(now), now.rotExit = None,
           now.pc \in {"exit", "send"}, Finish(r, now)
    PROVE  \E new : Becomes(r, new)
  <1>1. CASE now.cookieID # None /\ now.rejected
    <2> DEFINE last == [now EXCEPT !.pc = "failed",
                                   !.charged = Append(@, now.cookieID)]
    <2>1. End(r, last)
      BY <1>1 DEF Finish
    <2>2. /\ now.cookieID \in Accounts /\ now.charged \in Seq(Accounts)
          /\ IsInjective(now.charged)
          /\ now.cookieID \in now.tried \ ChargedBy(now)
          /\ now.cookie = now.cookieID
      BY <1>1 DEF Credit, RequestState, Ended
    <2>3. /\ last.charged \in Seq(Accounts) /\ IsInjective(last.charged)
          /\ ChargedBy(last) = ChargedBy(now) \cup {now.cookieID}
      <3>1. last.charged = Append(now.charged, now.cookieID)
        BY DEF RequestState
      <3> HIDE DEF last
      <3> QED
        BY <2>2, <3>1, AppendNew DEF ChargedBy
    <2>4. last \in RequestState
      <3> DEFINE list == Append(now.charged, now.cookieID)
      <3>1. list \in Seq(Accounts)
        BY <2>2
      <3> HIDE DEF list
      <3>2. "failed" \in PCs
        BY DEF PCs
      <3> QED
        BY <3>1, <3>2, Updates DEF list
    <2>5. /\ last.pc \in Ended /\ last.rotExit = None /\ last.tried = now.tried
          /\ last.cookie = now.cookie /\ last.exit = now.exit
          /\ last.excluded = now.excluded /\ last.switch = now.switch
      BY DEF RequestState, Ended
    <2> HIDE DEF last
    <2>6. GivenUp(last)
      BY <2>5 DEF GivenUp
    <2>7. ChargedBy(last) \subseteq last.tried /\ last.cookie # None
      BY <1>1, <2>2, <2>3, <2>5 DEF Credit
    <2> QED
      BY <2>1, <2>3, <2>4, <2>5, <2>6, <2>7, EndGood
  <1>2. CASE ~(now.cookieID # None /\ now.rejected)
    <2> DEFINE last == [now EXCEPT !.pc = "failed"]
    <2>1. End(r, last)
      BY <1>2 DEF Finish
    <2>2. last \in RequestState
      BY DEF RequestState, PCs
    <2>3. /\ last.pc \in Ended /\ last.rotExit = None /\ last.tried = now.tried
          /\ last.cookie = now.cookie /\ last.exit = now.exit
          /\ last.excluded = now.excluded /\ last.switch = now.switch
          /\ last.charged = now.charged /\ last.cookieErr = now.cookieErr
          /\ last.cookieID = now.cookieID /\ last.uploaded = now.uploaded
          /\ last.contexts = now.contexts
      BY DEF RequestState, Ended
    <2> HIDE DEF last
    <2>4. GivenUp(last) /\ IsInjective(last.charged)
          /\ ChargedBy(last) \subseteq last.tried
      BY <2>3 DEF GivenUp, Credit, ChargedBy
    <2>5. /\ last.cookie = None /\ ~last.cookieErr
                => last.tried = {} /\ last.cookieID = None
          /\ last.cookie = None => last.uploaded = 0 /\ last.contexts = 0
      BY <2>3 DEF Credit, InRotation
    <2> QED
      BY <2>1, <2>2, <2>3, <2>4, <2>5, EndGood
  <1> QED
    BY <1>1, <1>2

\* A change of exit: one more exit given up, one more change counted.
LEMMA SwitchExitGood ==
    ASSUME TypeOK, NEW r \in Requests, NEW now \in RequestState,
           GivenUp(now), Credit(now), now.rotExit = None, ~now.emitted,
           now.pc \in {"prepare", "send"}, now.exit # None,
           now.cookieID = now.cookie, SwitchExit(r, now)
    PROVE  \E new : Becomes(r, new)
  <1> DEFINE new == [now EXCEPT !.pc = "exit",
                                !.exit = None,
                                !.excluded = @ \cup {now.exit},
                                !.switch = @ + 1]
  <1>1. req' = [req EXCEPT ![r] = new]
    BY DEF SwitchExit
  <1>2. new \in RequestState
    <2>1. now.excluded \cup {now.exit} \in SUBSET Exits
      BY DEF RequestState
    <2>2. now.switch + 1 \in Nat
      BY DEF RequestState
    <2> DEFINE left == [now EXCEPT !.pc = "exit", !.exit = None]
               excluded == now.excluded \cup {now.exit}
               switch == now.switch + 1
    <2>3. left \in RequestState
      BY Updates DEF PCs
    <2>4. new = [left EXCEPT !.excluded = excluded, !.switch = switch]
      BY DEF RequestState
    <2> HIDE DEF left, excluded, switch
    <2>5. [left EXCEPT !.excluded = excluded, !.switch = switch] \in RequestState
      BY <2>1, <2>2, <2>3, ZenonT(60) DEF RequestState, excluded, switch
    <2> QED
      BY <2>4, <2>5
  <1>3. /\ IsFiniteSet(now.excluded \cup {now.exit})
        /\ Cardinality(now.excluded \cup {now.exit}) = now.switch + 1
    BY FS_AddElement DEF GivenUp
  <1>4. None \notin now.excluded \cup {now.exit}
    BY ConstantsAssumption DEF RequestState
  <1>5. GivenUp(new)
    BY <1>3, <1>4 DEF GivenUp, RequestState
  <1>6. Place(new) /\ Credit(new) /\ Emission(new)
    BY DEF Place, Credit, ChargedBy, Emission, WithExit, InRotation, Ended,
           RequestState
  <1> QED
    BY <1>1, <1>2, <1>5, <1>6 DEF Becomes, Good

\* What a request's record says about how far its preparation came.
LEMMA AtPrepare ==
    ASSUME NEW q \in RequestState, Good(q), q.pc = "prepare"
    PROVE  /\ q.exit # None /\ q.rotExit = None /\ ~q.emitted
           /\ GivenUp(q) /\ Credit(q)
           /\ q.cookie # None => q.cookieID = q.cookie
           /\ q.cookie = None /\ ~q.cookieErr => q.tried = {} /\ q.cookieID = None
  BY DEF Good, Place, Credit, Emission, WithExit, InRotation, Ended

\* The errors before anything is sent.
LEMMA PrepareFailsGood ==
    ASSUME TypeOK, NEW r \in Requests, Good(req[r]), PrepareFails(r)
    PROVE  \E now : Becomes(r, now)
  <1> DEFINE q == req[r]
             id == IF AllAccountsFailed(q) /\ FallbackAnon THEN None ELSE q.cookieID
             files == IF ToUpload(q) /\ q.cookie # None
                      THEN q.job.pending ELSE q.uploaded
             now == [q EXCEPT !.pc = "failed", !.cookieID = id, !.uploaded = files]
  <1>1. q \in RequestState /\ q.pc = "prepare"
    BY DEF TypeOK, PrepareFails
  <1>2. End(r, now)
    BY DEF PrepareFails
  <1>3. q.job.pending \in Nat
    BY <1>1, ConstantsAssumption DEF RequestState, Job
  <1>4. id \in Accounts \cup {None} /\ files \in Nat
    BY <1>1, <1>3 DEF RequestState
  <1>5. /\ AllAccountsFailed(q) => q.cookieErr
        /\ q.cookie = None => files = q.uploaded
    BY DEF AllAccountsFailed
  <1> HIDE DEF id, files
  <1>6. now \in RequestState
    BY <1>1, <1>4 DEF RequestState, PCs
  <1>7. /\ GivenUp(q) /\ Credit(q) /\ q.rotExit = None
        /\ q.cookie = None /\ ~q.cookieErr => q.tried = {} /\ id = None
    BY <1>1, <1>5, AtPrepare DEF id
  <1>8. /\ now.pc \in Ended /\ now.rotExit = q.rotExit /\ now.exit = q.exit
        /\ now.excluded = q.excluded /\ now.switch = q.switch
        /\ now.cookie = q.cookie /\ now.cookieErr = q.cookieErr
        /\ now.tried = q.tried /\ now.cookieID = id /\ now.charged = q.charged
        /\ now.uploaded = files /\ now.contexts = q.contexts
    BY <1>1 DEF RequestState, Ended
  <1> HIDE DEF now
  <1>9. GivenUp(now)
    BY <1>7, <1>8 DEF GivenUp
  <1>10. IsInjective(now.charged) /\ ChargedBy(now) \subseteq now.tried
    BY <1>7, <1>8 DEF Credit, ChargedBy
  <1>11. now.cookie = None => now.uploaded = 0 /\ now.contexts = 0
    BY <1>5, <1>7, <1>8 DEF Credit
  <1> QED
    BY <1>2, <1>6, <1>7, <1>8, <1>9, <1>10, <1>11, EndGood

\* An attachment that is not uploaded: another exit, or the end.
LEMMA UploadFailsGood ==
    ASSUME TypeOK, NEW r \in Requests, Good(req[r]), UploadFails(r)
    PROVE  \E now : Becomes(r, now)
  <1> DEFINE q == req[r]
  <1>1. q \in RequestState /\ q.pc = "prepare" /\ q.cookie # None
    BY DEF TypeOK, UploadFails
  <1>2. PICK k \in 0 .. q.job.pending - 1 :
           IF q.switch < MaxProxySwitches
           THEN SwitchExit(r, [q EXCEPT !.uploaded = k])
           ELSE End(r, [[q EXCEPT !.uploaded = k] EXCEPT !.pc = "failed"])
    BY DEF UploadFails
  <1> DEFINE now == [q EXCEPT !.uploaded = k]
             last == [now EXCEPT !.pc = "failed"]
  <1>3. k \in Nat
    BY <1>1, ConstantsAssumption DEF RequestState, Job
  <1>4. now \in RequestState
    BY <1>1, <1>3 DEF RequestState
  <1>5. /\ now.pc = q.pc /\ now.rotExit = q.rotExit /\ now.exit = q.exit
        /\ now.excluded = q.excluded /\ now.switch = q.switch
        /\ now.cookie = q.cookie /\ now.cookieErr = q.cookieErr
        /\ now.tried = q.tried /\ now.cookieID = q.cookieID
        /\ now.charged = q.charged /\ now.emitted = q.emitted
        /\ now.acct = q.acct
    BY <1>1 DEF RequestState
  <1>6. /\ last \in RequestState /\ last.pc = "failed"
        /\ last.rotExit = q.rotExit /\ last.exit = q.exit
        /\ last.excluded = q.excluded /\ last.switch = q.switch
        /\ last.cookie = q.cookie /\ last.tried = q.tried
        /\ last.charged = q.charged
    BY <1>1, <1>3 DEF RequestState, PCs
  <1>7. /\ q.exit # None /\ q.rotExit = None /\ ~q.emitted
        /\ GivenUp(q) /\ Credit(q) /\ q.cookieID = q.cookie
    BY <1>1, AtPrepare
  <1> HIDE DEF now, last
  <1>8. CASE SwitchExit(r, now)
    <2>1. GivenUp(now)
      BY <1>5, <1>7 DEF GivenUp
    <2>2. Credit(now)
      BY <1>1, <1>5, <1>7 DEF Credit, ChargedBy
    <2> QED
      BY <1>1, <1>4, <1>5, <1>7, <1>8, <2>1, <2>2, SwitchExitGood
  <1>9. CASE End(r, last)
    <2>1. GivenUp(last)
      BY <1>6, <1>7 DEF GivenUp
    <2>2. IsInjective(last.charged) /\ ChargedBy(last) \subseteq last.tried
      BY <1>6, <1>7 DEF Credit, ChargedBy
    <2> QED
      BY <1>1, <1>6, <1>7, <1>9, <2>1, <2>2, EndGood DEF Ended
  <1> QED
    BY <1>2, <1>8, <1>9 DEF now, last

\* Ready to be sent: anonymously only if that is allowed or nobody was asked.
LEMMA PreparedGood ==
    ASSUME TypeOK, NEW r \in Requests, Good(req[r]), Prepared(r)
    PROVE  \E now : Becomes(r, now)
  <1> DEFINE q == req[r]
             id == IF AllAccountsFailed(q) THEN None ELSE q.cookieID
             files == IF ToUpload(q) THEN q.job.pending ELSE q.uploaded
             texts == IF q.job.long THEN q.contexts + 1 ELSE q.contexts
             now == [q EXCEPT !.cookieID = id, !.uploaded = files,
                              !.contexts = texts,
                              !.attempt = 0, !.xsrfRetried = FALSE, !.pc = "send"]
  <1>1. q \in RequestState /\ q.pc = "prepare" /\ req' = [req EXCEPT ![r] = now]
    BY DEF TypeOK, Prepared
  <1>2. q.job.pending \in Nat
    BY <1>1, ConstantsAssumption DEF RequestState, Job
  <1>3. id \in Accounts \cup {None} /\ files \in Nat /\ texts \in Nat
    BY <1>1, <1>2 DEF RequestState
  <1>4. q.cookie = None => files = q.uploaded /\ texts = q.contexts
    BY DEF Prepared
  <1>5. /\ q.exit # None /\ q.rotExit = None /\ ~q.emitted
        /\ GivenUp(q) /\ Credit(q)
        /\ q.cookie # None => id = q.cookie
        /\ q.cookie = None => id = None
        /\ q.cookie = None => FallbackAnon \/ q.tried = {}
    BY <1>1, AtPrepare DEF Prepared, AllAccountsFailed
  <1> HIDE DEF id, files, texts
  <1>6. now \in RequestState
    BY <1>1, <1>3 DEF RequestState, PCs
  <1>7. /\ now.pc = "send" /\ now.rotExit = q.rotExit /\ now.exit = q.exit
        /\ now.excluded = q.excluded /\ now.switch = q.switch
        /\ now.cookie = q.cookie /\ now.cookieErr = q.cookieErr
        /\ now.tried = q.tried /\ now.cookieID = id /\ now.charged = q.charged
        /\ now.uploaded = files /\ now.contexts = texts
        /\ now.emitted = q.emitted /\ now.acct = q.acct
    BY <1>1 DEF RequestState
  <1> HIDE DEF now, q
  <1>8. Place(now) /\ GivenUp(now) /\ Emission(now)
    BY <1>5, <1>7 DEF Place, GivenUp, Emission, WithExit
  <1>9. Credit(now)
    BY <1>1, <1>4, <1>5, <1>7 DEF Credit, ChargedBy, InRotation, Ended
  <1> QED
    BY <1>1, <1>6, <1>8, <1>9 DEF Becomes, Good, now, q

\* The end with an answer, and the one resending that is not counted.
LEMMA AnsweredGood ==
    ASSUME TypeOK, NEW r \in Requests, Good(req[r]), Answered(r) \/ XsrfRetry(r)
    PROVE  \E now : Becomes(r, now)
  <1> DEFINE q == req[r]
             done == [q EXCEPT !.pc = "done", !.sends = @ + 1]
             again == [q EXCEPT !.xsrfRetried = TRUE, !.sends = @ + 1]
  <1>1. q \in RequestState /\ q.pc = "send"
    BY DEF TypeOK, Answered, XsrfRetry
  <1>2. CASE Answered(r)
    <2>1. End(r, done)
      BY <1>2 DEF Answered
    <2>2. done \in RequestState
      BY <1>1, Updates DEF PCs
    <2>3. /\ done.pc = "done" /\ done.rotExit = q.rotExit /\ done.exit = q.exit
          /\ done.excluded = q.excluded /\ done.switch = q.switch
          /\ done.cookie = q.cookie /\ done.cookieErr = q.cookieErr
          /\ done.tried = q.tried /\ done.cookieID = q.cookieID
          /\ done.charged = q.charged
          /\ done.uploaded = q.uploaded /\ done.contexts = q.contexts
      BY <1>1 DEF RequestState
    <2> HIDE DEF done
    <2>4. GivenUp(done) /\ done.rotExit = None
      BY <1>1, <2>3 DEF Good, Place, GivenUp
    <2>5. IsInjective(done.charged) /\ ChargedBy(done) \subseteq done.tried
      BY <2>3 DEF Good, Credit, ChargedBy
    <2>6. /\ done.cookie = None /\ ~done.cookieErr
                => done.tried = {} /\ done.cookieID = None
          /\ done.cookie = None => done.uploaded = 0 /\ done.contexts = 0
      BY <1>1, <2>3 DEF Good, Credit, InRotation
    <2> QED
      BY <2>1, <2>2, <2>3, <2>4, <2>5, <2>6, EndGood DEF Ended
  <1>3. CASE XsrfRetry(r)
    <2>1. req' = [req EXCEPT ![r] = again]
      BY <1>3 DEF XsrfRetry, TypeOK
    <2>2. again \in RequestState
      BY <1>1, Updates
    <2>3. Good(again)
      BY <1>1 DEF Good, Place, GivenUp, Credit, ChargedBy, Emission, RequestState
    <2> QED
      BY <2>1, <2>2, <2>3 DEF Becomes
  <1> QED
    BY <1>2, <1>3

\* No exit, the first time or after others were given up.
LEMMA NoExitGood ==
    ASSUME TypeOK, NEW r \in Requests, Good(req[r]), NoExit(r)
    PROVE  \E now : Becomes(r, now)
  <1>1. req[r] \in RequestState /\ req[r].pc = "exit" /\ Finish(r, req[r])
    BY DEF TypeOK, NoExit
  <1>2. GivenUp(req[r]) /\ Credit(req[r]) /\ req[r].rotExit = None
    BY <1>1 DEF Good, Place
  <1> QED
    BY <1>1, <1>2, FinishGood

\* How an attempt fails says two things.
LEMMA OutcomeTypes ==
    ASSUME NEW q, NEW o \in Outcomes(q)
    PROVE  o.emitted \in BOOLEAN /\ o.rejected \in BOOLEAN
  BY DEF Outcomes

\* A failed attempt: again, through another exit, or the end.
LEMMA AttemptFailsGood ==
    ASSUME TypeOK, NEW r \in Requests, Good(req[r]), AttemptFails(r)
    PROVE  \E now : Becomes(r, now)
  <1> DEFINE q == req[r]
  <1>1. q \in RequestState /\ q.pc = "send"
    BY DEF TypeOK, AttemptFails
  <1>2. PICK o \in Outcomes(q) :
          LET now == [q EXCEPT !.emitted = o.emitted, !.rejected = o.rejected,
                               !.sends = @ + 1]
          IN  \/ /\ MayResend(now)
                 /\ req' = [req EXCEPT ![r] = [now EXCEPT !.attempt = @ + 1]]
              \/ /\ MaySwitch(now)
                 /\ SwitchExit(r, now)
              \/ Finish(r, now)
    BY DEF AttemptFails
  <1> DEFINE now == [q EXCEPT !.emitted = o.emitted, !.rejected = o.rejected,
                              !.sends = @ + 1]
             again == [now EXCEPT !.attempt = @ + 1]
  <1>3. o.emitted \in BOOLEAN /\ o.rejected \in BOOLEAN
    BY <1>1, OutcomeTypes
  <1>4. now \in RequestState
    BY <1>1, <1>3, Updates
  <1>5. /\ now.pc = q.pc /\ now.rotExit = q.rotExit /\ now.exit = q.exit
        /\ now.excluded = q.excluded /\ now.switch = q.switch
        /\ now.cookie = q.cookie /\ now.cookieErr = q.cookieErr
        /\ now.tried = q.tried /\ now.cookieID = q.cookieID
        /\ now.charged = q.charged /\ now.acct = q.acct
        /\ now.uploaded = q.uploaded /\ now.contexts = q.contexts
    BY <1>1 DEF RequestState
  <1>6. again \in RequestState
    BY <1>4, Updates
  <1>7. /\ again.pc = now.pc /\ again.rotExit = now.rotExit
        /\ again.exit = now.exit /\ again.emitted = now.emitted
        /\ again.excluded = now.excluded /\ again.switch = now.switch
        /\ again.cookie = now.cookie /\ again.cookieErr = now.cookieErr
        /\ again.tried = now.tried /\ again.cookieID = now.cookieID
        /\ again.charged = now.charged /\ again.acct = now.acct
        /\ again.uploaded = now.uploaded /\ again.contexts = now.contexts
    BY <1>4 DEF RequestState
  <1>8. \/ MayResend(now) /\ req' = [req EXCEPT ![r] = again]
        \/ MaySwitch(now) /\ SwitchExit(r, now)
        \/ Finish(r, now)
    BY <1>2
  <1> HIDE DEF now, again
  <1>9. Place(now) /\ GivenUp(now)
    BY <1>5 DEF Good, Place, GivenUp
  <1>10. Credit(now)
    BY <1>1, <1>5 DEF Good, Credit, ChargedBy
  <1>11. /\ now.exit # None /\ now.rotExit = None /\ now.cookieID = now.cookie
    BY <1>1, <1>5, <1>9, <1>10 DEF Place, Credit, WithExit
  <1>12. CASE MayResend(now) /\ req' = [req EXCEPT ![r] = again]
    <2>1. Place(again) /\ GivenUp(again) /\ Emission(again)
      BY <1>7, <1>9, <1>12 DEF Place, GivenUp, Emission, MayResend
    <2>2. Credit(again)
      BY <1>7, <1>10 DEF Credit, ChargedBy
    <2> QED
      BY <1>6, <1>12, <2>1, <2>2 DEF Becomes, Good
  <1>13. CASE MaySwitch(now) /\ SwitchExit(r, now)
    <2>1. ~now.emitted
      BY <1>13 DEF MaySwitch
    <2> QED
      BY <1>1, <1>4, <1>5, <1>9, <1>10, <1>11, <1>13, <2>1, SwitchExitGood
  <1>14. CASE Finish(r, now)
    BY <1>1, <1>4, <1>5, <1>9, <1>10, <1>11, <1>14, FinishGood
  <1> QED
    BY <1>8, <1>12, <1>13, <1>14

-------------------------------------------------------------------------------
(***************************************************************************)
(* Places.  What one step does to the places its request holds is one of   *)
(* five things, and each keeps the counts equal to the holders.            *)
(***************************************************************************)
SameExit(r) == req'[r].exit = req[r].exit
SameRotExit(r) == req'[r].rotExit = req[r].rotExit

KeepsPlaces(r) == SameExit(r) /\ SameRotExit(r) /\ inflight' = inflight
EntersExit(r, e) ==
    /\ req[r].exit = None /\ req'[r].exit = e /\ SameRotExit(r)
    /\ inflight' = [inflight EXCEPT ![e] = @ + 1]
LeavesExit(r, e) ==
    /\ req[r].exit = e /\ req'[r].exit = None /\ SameRotExit(r)
    /\ inflight' = FreedBy(e)
EntersRotation(r, e) ==
    /\ req[r].rotExit = None /\ req'[r].rotExit = e /\ SameExit(r)
    /\ inflight' = [inflight EXCEPT ![e] = @ + 1]
LeavesRotation(r, e) ==
    /\ req[r].rotExit = e /\ req'[r].rotExit = None /\ SameExit(r)
    /\ inflight' = FreedBy(e)

MovesPlaces(r) ==
    \/ KeepsPlaces(r)
    \/ \E e \in Exits : \/ EntersExit(r, e) \/ LeavesExit(r, e)
                        \/ EntersRotation(r, e) \/ LeavesRotation(r, e)

\* A return gives back the exit held, if any.
LEMMA EndMoves ==
    ASSUME TypeOK, NEW r \in Requests, NEW now \in RequestState, End(r, now),
           now.rotExit = req[r].rotExit
    PROVE  MovesPlaces(r)
  <1>1. /\ req'[r].exit = None /\ SameRotExit(r)
        /\ req[r].exit \in Exits \cup {None}
    BY DEF End, TypeOK, RequestState, SameRotExit
  <1>2. CASE req[r].exit = None
    BY <1>1, <1>2 DEF MovesPlaces, KeepsPlaces, SameExit, End
  <1>3. CASE req[r].exit # None
    BY <1>1, <1>3 DEF MovesPlaces, LeavesExit, End
  <1> QED
    BY <1>2, <1>3

\* So does the return after the loop over exits.
LEMMA FinishMoves ==
    ASSUME TypeOK, NEW r \in Requests, NEW now \in RequestState, Finish(r, now),
           now.rotExit = req[r].rotExit
    PROVE  MovesPlaces(r)
  <1>1. CASE now.cookieID # None /\ now.rejected
    <2> DEFINE list == Append(now.charged, now.cookieID)
               last == [now EXCEPT !.pc = "failed",
                                   !.charged = Append(@, now.cookieID)]
    <2>1. End(r, last)
      BY <1>1 DEF Finish
    <2>2. list \in Seq(Accounts)
      BY <1>1 DEF RequestState
    <2>3. last \in RequestState
      <3>1. last = [now EXCEPT !.pc = "failed", !.charged = list]
        OBVIOUS
      <3> HIDE DEF list
      <3> QED
        BY <2>2, <3>1, Updates DEF PCs
    <2>4. last.rotExit = now.rotExit
      BY DEF RequestState
    <2> HIDE DEF last
    <2> QED
      BY <2>1, <2>3, <2>4, EndMoves
  <1>2. CASE ~(now.cookieID # None /\ now.rejected)
    <2> DEFINE last == [now EXCEPT !.pc = "failed"]
    <2>1. End(r, last)
      BY <1>2 DEF Finish
    <2>2. last \in RequestState /\ last.rotExit = now.rotExit
      BY DEF RequestState, PCs
    <2> HIDE DEF last
    <2> QED
      BY <2>1, <2>2, EndMoves
  <1> QED
    BY <1>1, <1>2

\* A change of exit gives back the exit that is given up.
LEMMA SwitchExitMoves ==
    ASSUME TypeOK, NEW r \in Requests, NEW now \in RequestState,
           SwitchExit(r, now), now.rotExit = req[r].rotExit,
           now.exit = req[r].exit, now.exit # None
    PROVE  MovesPlaces(r)
  <1>1. req'[r].exit = None /\ SameRotExit(r) /\ now.exit \in Exits
    BY DEF SwitchExit, TypeOK, RequestState, SameRotExit
  <1>2. inflight' = FreedBy(now.exit)
    BY DEF SwitchExit
  <1> QED
    BY <1>1, <1>2 DEF MovesPlaces, LeavesExit

\* Every step of a request is one of the five.
LEMMA StepMovesPlaces ==
    ASSUME TypeOK, NEW r \in Requests, Good(req[r]), Step(r)
    PROVE  MovesPlaces(r)
  <1> DEFINE q == req[r]
  <1>1. q \in RequestState
    BY DEF TypeOK
  <1>2. CASE \/ PickAccount(r) \/ FetchToken(r) \/ RotateNoExit(r) \/ Recheck(r)
             \/ ChargeAccount(r) \/ NextAccount(r) \/ Prepared(r) \/ XsrfRetry(r)
    <2>1. inflight' = inflight
      BY <1>2 DEF PickAccount, FetchToken, RotateNoExit, Recheck, ChargeAccount,
                  NextAccount, Prepared, XsrfRetry
    <2>2. SameExit(r) /\ SameRotExit(r)
      <3>1. CASE PickAccount(r) \/ Recheck(r)
        <4>1. \/ \E a : req' = [req EXCEPT ![r].acct = a, ![r].pc = "exit"]
              \/ req' = [req EXCEPT ![r].cookie = q.acct, ![r].pc = "prepare"]
              \/ req' = [req EXCEPT ![r].pc = "charge"]
          BY <3>1, Zenon DEF PickAccount, Recheck
        <4>2. ASSUME NEW a, req' = [req EXCEPT ![r].acct = a, ![r].pc = "exit"]
              PROVE  SameExit(r) /\ SameRotExit(r)
          BY <1>1, <4>2 DEF TypeOK, RequestState, SameExit, SameRotExit
        <4>3. CASE req' = [req EXCEPT ![r].cookie = q.acct, ![r].pc = "prepare"]
          BY <1>1, <4>3 DEF TypeOK, RequestState, SameExit, SameRotExit
        <4>4. CASE req' = [req EXCEPT ![r].pc = "charge"]
          BY <1>1, <4>4 DEF TypeOK, RequestState, SameExit, SameRotExit
        <4> QED
          BY <4>1, <4>2, <4>3, <4>4
      <3>2. CASE FetchToken(r)
        <4> DEFINE now == [q EXCEPT !.tried = @ \cup {q.acct}, !.cookieID = q.acct]
        <4>1. \/ req' = [req EXCEPT ![r] = [now EXCEPT !.cookie = now.acct,
                                                       !.pc = "prepare"]]
              \/ req' = [req EXCEPT ![r] = [now EXCEPT !.pc = "rotate"]]
          BY <3>2, Zenon DEF FetchToken
        <4>2. /\ now.exit = q.exit /\ now.rotExit = q.rotExit
              /\ [now EXCEPT !.pc = "rotate"].exit = q.exit
              /\ [now EXCEPT !.pc = "rotate"].rotExit = q.rotExit
              /\ [now EXCEPT !.cookie = now.acct, !.pc = "prepare"].exit = q.exit
              /\ [now EXCEPT !.cookie = now.acct,
                             !.pc = "prepare"].rotExit = q.rotExit
          BY <1>1 DEF RequestState
        <4> HIDE DEF now
        <4> QED
          BY <4>1, <4>2 DEF TypeOK, SameExit, SameRotExit
      <3>3. CASE RotateNoExit(r) \/ XsrfRetry(r)
        BY <1>1, <3>3 DEF RotateNoExit, XsrfRetry, TypeOK, RequestState, SameExit,
                          SameRotExit
      <3>4. CASE ChargeAccount(r)
        BY <1>1, <3>4 DEF ChargeAccount, TypeOK, RequestState, SameExit, SameRotExit
      <3>5. CASE NextAccount(r)
        <4>1. PICK a, pc : req' = [req EXCEPT ![r] =
                                     [[q EXCEPT !.acct = a] EXCEPT !.pc = pc]]
          BY <3>5, Zenon DEF NextAccount
        <4> QED
          BY <1>1, <4>1 DEF TypeOK, RequestState, SameExit, SameRotExit
      <3>6. CASE Prepared(r)
        <4>1. PICK id, files, texts :
                 req' = [req EXCEPT ![r] =
                    [q EXCEPT !.cookieID = id, !.uploaded = files,
                              !.contexts = texts,
                              !.attempt = 0, !.xsrfRetried = FALSE, !.pc = "send"]]
          BY <3>6, Zenon DEF Prepared
        <4> QED
          BY <1>1, <4>1 DEF TypeOK, RequestState, SameExit, SameRotExit
      <3> QED
        BY <1>2, <3>1, <3>2, <3>3, <3>4, <3>5, <3>6
    <2> QED
      BY <2>1, <2>2 DEF MovesPlaces, KeepsPlaces
  <1>3. CASE TakeExit(r)
    <2>1. PICK e \in Takeable(q.excluded) :
             /\ req' = [req EXCEPT
                          ![r].exit = e,
                          ![r].pc = IF AccountToTry(q) THEN "token" ELSE "prepare"]
             /\ inflight' = [inflight EXCEPT ![e] = @ + 1]
      BY <1>3 DEF TakeExit
    <2>2. e \in Exits /\ q.exit = None
      BY <1>3, TakeableExits DEF Good, Place, WithExit, TakeExit
    <2>3. req'[r].exit = e /\ SameRotExit(r)
      BY <1>1, <2>1 DEF TypeOK, RequestState, SameRotExit
    <2> QED
      BY <2>1, <2>2, <2>3 DEF MovesPlaces, EntersExit
  <1>4. CASE RotateTakesExit(r)
    <2>1. PICK e \in Takeable({}) :
             /\ req' = [req EXCEPT ![r].rotExit = e, ![r].pc = "rotating"]
             /\ inflight' = [inflight EXCEPT ![e] = @ + 1]
      BY <1>4 DEF RotateTakesExit
    <2>2. e \in Exits /\ q.rotExit = None
      BY <1>4, TakeableExits DEF Good, Place, RotateTakesExit
    <2>3. req'[r].rotExit = e /\ SameExit(r)
      BY <1>1, <2>1 DEF TypeOK, RequestState, SameExit
    <2> QED
      BY <2>1, <2>2, <2>3 DEF MovesPlaces, EntersRotation
  <1>5. CASE RotateEnds(r)
    <2>1. q.rotExit \in Exits
      BY <1>1, <1>5 DEF Good, Place, RotateEnds, RequestState
    <2>2. req'[r].rotExit = None /\ SameExit(r) /\ inflight' = FreedBy(q.rotExit)
      BY <1>1, <1>5 DEF RotateEnds, TypeOK, RequestState, SameExit
    <2> QED
      BY <2>1, <2>2 DEF MovesPlaces, LeavesRotation
  <1>6. CASE NoExit(r)
    BY <1>1, <1>6, FinishMoves DEF NoExit
  <1>7. CASE PrepareFails(r)
    <2> DEFINE id == IF AllAccountsFailed(q) /\ FallbackAnon THEN None ELSE q.cookieID
               files == IF ToUpload(q) /\ q.cookie # None
                        THEN q.job.pending ELSE q.uploaded
               now == [q EXCEPT !.pc = "failed", !.cookieID = id, !.uploaded = files]
    <2>1. End(r, now)
      BY <1>7 DEF PrepareFails
    <2>2. id \in Accounts \cup {None} /\ files \in Nat
      BY <1>1, ConstantsAssumption DEF RequestState, Job
    <2> HIDE DEF id, files
    <2>3. now \in RequestState /\ now.rotExit = q.rotExit
      BY <1>1, <2>2, ZenonT(60) DEF RequestState, PCs
    <2> HIDE DEF now
    <2> QED
      BY <2>1, <2>3, EndMoves
  <1>8. CASE UploadFails(r)
    <2>1. PICK k \in 0 .. q.job.pending - 1 :
             IF q.switch < MaxProxySwitches
             THEN SwitchExit(r, [q EXCEPT !.uploaded = k])
             ELSE End(r, [[q EXCEPT !.uploaded = k] EXCEPT !.pc = "failed"])
      BY <1>8 DEF UploadFails
    <2> DEFINE now == [q EXCEPT !.uploaded = k]
               last == [now EXCEPT !.pc = "failed"]
    <2>2. k \in Nat /\ q.exit # None
      BY <1>1, <1>8, ConstantsAssumption
         DEF UploadFails, Good, Place, WithExit, RequestState, Job
    <2>3. /\ now \in RequestState /\ now.rotExit = q.rotExit /\ now.exit = q.exit
          /\ last \in RequestState /\ last.rotExit = q.rotExit
      BY <1>1, <2>2, ZenonT(40) DEF RequestState, PCs
    <2>4. SwitchExit(r, now) \/ End(r, last)
      BY <2>1
    <2> HIDE DEF now, last
    <2> QED
      BY <2>2, <2>3, <2>4, SwitchExitMoves, EndMoves
  <1>9. CASE Answered(r)
    <2> DEFINE now == [q EXCEPT !.pc = "done", !.sends = @ + 1]
    <2>1. End(r, now)
      BY <1>9 DEF Answered
    <2>2. now \in RequestState
      BY <1>1, Updates DEF PCs
    <2>3. now.rotExit = q.rotExit
      BY <1>1 DEF RequestState
    <2> HIDE DEF now
    <2> QED
      BY <2>1, <2>2, <2>3, EndMoves
  <1>10. CASE AttemptFails(r)
    <2>1. PICK o \in Outcomes(q) :
            LET now == [q EXCEPT !.emitted = o.emitted, !.rejected = o.rejected,
                                 !.sends = @ + 1]
            IN  \/ /\ req' = [req EXCEPT ![r] = [now EXCEPT !.attempt = @ + 1]]
                   /\ inflight' = inflight
                \/ SwitchExit(r, now)
                \/ Finish(r, now)
      BY <1>10 DEF AttemptFails
    <2> DEFINE now == [q EXCEPT !.emitted = o.emitted, !.rejected = o.rejected,
                                !.sends = @ + 1]
               again == [now EXCEPT !.attempt = @ + 1]
    <2>2. now \in RequestState
      BY <1>1, OutcomeTypes, Updates
    <2>3. /\ now.rotExit = q.rotExit /\ now.exit = q.exit
          /\ again.rotExit = q.rotExit /\ again.exit = q.exit
      BY <1>1 DEF RequestState
    <2>4. \/ req' = [req EXCEPT ![r] = again] /\ inflight' = inflight
          \/ SwitchExit(r, now)
          \/ Finish(r, now)
      BY <2>1
    <2> HIDE DEF now, again
    <2>5. q.exit # None
      BY <1>10 DEF AttemptFails, Good, Place, WithExit
    <2>6. CASE req' = [req EXCEPT ![r] = again] /\ inflight' = inflight
      BY <2>3, <2>6 DEF MovesPlaces, KeepsPlaces, SameExit, SameRotExit, TypeOK
    <2> QED
      BY <2>2, <2>3, <2>4, <2>5, <2>6, SwitchExitMoves, FinishMoves
  <1> QED
    BY <1>2, <1>3, <1>4, <1>5, <1>6, <1>7, <1>8, <1>9, <1>10 DEF Step

\* The holders of an exit can be counted.
LEMMA HoldersFinite ==
    ASSUME NEW e
    PROVE  IsFiniteSet(HoldersOf(e))
  <1>1. IsFiniteSet({"exit", "rotation"})
    <2>1. IsFiniteSet({"exit"})
      BY FS_Singleton
    <2>2. IsFiniteSet({"exit"} \cup {"rotation"})
      BY <2>1, FS_AddElement
    <2>3. {"exit", "rotation"} = {"exit"} \cup {"rotation"}
      OBVIOUS
    <2> QED
      BY <2>2, <2>3
  <1>2. IsFiniteSet(Requests \X {"exit", "rotation"})
    BY <1>1, FS_Product, ConstantsAssumption
  <1>3. HoldersOf(e) \in SUBSET (Requests \X {"exit", "rotation"})
    BY DEF HoldersOf
  <1> QED
    BY <1>2, <1>3, FS_Subset

Balance == \A e \in Exits : inflight[e] = Cardinality(HoldersOf(e))

\* A holder more is a place more, and one less a place less: each of the
\* five keeps the balance, and no count goes below zero.
LEMMA MovesKeepBalance ==
    ASSUME TypeOK, Balance, NEW r \in Requests, MovesPlaces(r),
           \A u \in Requests \ {r} : req'[u] = req[u]
    PROVE  inflight' \in [Exits -> Nat] /\ Balance'
  <1>1. \A e \in Exits : /\ IsFiniteSet(HoldersOf(e))
                         /\ Cardinality(HoldersOf(e)) \in Nat
                         /\ inflight[e] = Cardinality(HoldersOf(e))
    BY HoldersFinite, FS_CardinalityType DEF Balance
  <1>2. ASSUME NEW e \in Exits, NEW x, x \notin HoldersOf(e),
               inflight' = [inflight EXCEPT ![e] = @ + 1],
               \A f \in Exits : HoldersOf(f)' =
                  IF f = e THEN HoldersOf(f) \cup {x} ELSE HoldersOf(f)
        PROVE  inflight' \in [Exits -> Nat] /\ Balance'
    <2>1. Cardinality(HoldersOf(e) \cup {x}) = Cardinality(HoldersOf(e)) + 1
      BY <1>1, <1>2, FS_AddElement
    <2>2. \A f \in Exits : inflight'[f] = Cardinality(HoldersOf(f)')
      BY <1>1, <1>2, <2>1 DEF TypeOK
    <2>3. inflight' \in [Exits -> Nat]
      BY <1>2 DEF TypeOK
    <2> QED
      BY <2>2, <2>3 DEF Balance
  <1>3. ASSUME NEW e \in Exits, NEW x, x \in HoldersOf(e),
               inflight' = FreedBy(e),
               \A f \in Exits : HoldersOf(f)' =
                  IF f = e THEN HoldersOf(f) \ {x} ELSE HoldersOf(f)
        PROVE  inflight' \in [Exits -> Nat] /\ Balance'
    <2>1. /\ Cardinality(HoldersOf(e) \ {x}) = Cardinality(HoldersOf(e)) - 1
          /\ IsFiniteSet(HoldersOf(e) \ {x})
      BY <1>1, <1>3, FS_RemoveElement
    <2>2. Cardinality(HoldersOf(e) \ {x}) \in Nat
      BY <2>1, FS_CardinalityType
    <2>3. inflight'[e] = inflight[e] - 1 /\ inflight[e] - 1 \in Nat
      BY <1>1, <1>3, <2>1, <2>2 DEF FreedBy, TypeOK
    <2>4. \A f \in Exits : inflight'[f] = Cardinality(HoldersOf(f)')
      BY <1>1, <1>3, <2>1, <2>3 DEF FreedBy, TypeOK
    <2>5. inflight' \in [Exits -> Nat]
      BY <1>3, <2>3 DEF FreedBy, TypeOK
    <2> QED
      BY <2>4, <2>5 DEF Balance
  <1>4. CASE KeepsPlaces(r)
    <2>1. \A u \in Requests : /\ req'[u].exit = req[u].exit
                              /\ req'[u].rotExit = req[u].rotExit
      BY <1>4 DEF KeepsPlaces, SameExit, SameRotExit
    <2>2. \A e : HoldersOf(e)' = HoldersOf(e)
      BY <2>1 DEF HoldersOf
    <2> QED
      BY <1>1, <1>4, <2>2 DEF KeepsPlaces, Balance, TypeOK
  <1>5. ASSUME NEW e \in Exits, EntersExit(r, e)
        PROVE  inflight' \in [Exits -> Nat] /\ Balance'
    <2>1. e # None
      BY ConstantsAssumption
    <2>2. <<r, "exit">> \notin HoldersOf(e)
      BY <1>5, <2>1 DEF EntersExit, HoldersOf
    <2>3. \A f \in Exits : HoldersOf(f)' =
             IF f = e THEN HoldersOf(f) \cup {<<r, "exit">>} ELSE HoldersOf(f)
      BY <1>5, ConstantsAssumption DEF EntersExit, HoldersOf, SameRotExit
    <2> QED
      BY <1>2, <1>5, <2>2, <2>3 DEF EntersExit
  <1>6. ASSUME NEW e \in Exits, LeavesExit(r, e)
        PROVE  inflight' \in [Exits -> Nat] /\ Balance'
    <2>1. <<r, "exit">> \in HoldersOf(e)
      BY <1>6 DEF LeavesExit, HoldersOf
    <2>2. \A f \in Exits : HoldersOf(f)' =
             IF f = e THEN HoldersOf(f) \ {<<r, "exit">>} ELSE HoldersOf(f)
      BY <1>6, ConstantsAssumption DEF LeavesExit, HoldersOf, SameRotExit
    <2> QED
      BY <1>3, <1>6, <2>1, <2>2 DEF LeavesExit
  <1>7. ASSUME NEW e \in Exits, EntersRotation(r, e)
        PROVE  inflight' \in [Exits -> Nat] /\ Balance'
    <2>1. e # None
      BY ConstantsAssumption
    <2>2. <<r, "rotation">> \notin HoldersOf(e)
      BY <1>7, <2>1 DEF EntersRotation, HoldersOf
    <2>3. \A f \in Exits : HoldersOf(f)' =
             IF f = e THEN HoldersOf(f) \cup {<<r, "rotation">>} ELSE HoldersOf(f)
      BY <1>7, ConstantsAssumption DEF EntersRotation, HoldersOf, SameExit
    <2> QED
      BY <1>2, <1>7, <2>2, <2>3 DEF EntersRotation
  <1>8. ASSUME NEW e \in Exits, LeavesRotation(r, e)
        PROVE  inflight' \in [Exits -> Nat] /\ Balance'
    <2>1. <<r, "rotation">> \in HoldersOf(e)
      BY <1>8 DEF LeavesRotation, HoldersOf
    <2>2. \A f \in Exits : HoldersOf(f)' =
             IF f = e THEN HoldersOf(f) \ {<<r, "rotation">>} ELSE HoldersOf(f)
      BY <1>8, ConstantsAssumption DEF LeavesRotation, HoldersOf, SameExit
    <2> QED
      BY <1>3, <1>8, <2>1, <2>2 DEF LeavesRotation
  <1> QED
    BY <1>4, <1>5, <1>6, <1>7, <1>8 DEF MovesPlaces

-------------------------------------------------------------------------------
\* The health of proxies and accounts keeps its type.
LEMMA HealthTypes ==
    ASSUME TypeOK, NEW r \in Requests, Good(req[r]), Step(r)
    PROVE  /\ proxy' \in [Proxies -> [fails : Nat, resting : BOOLEAN]]
           /\ account' \in [Accounts -> [enabled : BOOLEAN, fails : Nat]]
           /\ live' \in SUBSET Accounts
  <1> DEFINE q == req[r]
             Proxy == [Proxies -> [fails : Nat, resting : BOOLEAN]]
             Account == [Accounts -> [enabled : BOOLEAN, fails : Nat]]
  <1>1. q \in RequestState /\ proxy \in Proxy /\ account \in Account
    BY DEF TypeOK
  <1>2. ASSUME NEW e, NEW fails \in Nat
        PROVE  Recorded(e, fails) \in Proxy
    BY <1>1, ConstantsAssumption DEF Recorded
  <1>3. ASSUME NEW e
        PROVE  Failed(e) \in Proxy
    <2>1. CASE e \in Proxies
      <3>1. proxy[e].fails + 1 \in Nat
        BY <1>1, <2>1
      <3> QED
        BY <1>2, <2>1, <3>1 DEF Failed
    <2> QED
      BY <1>1, <2>1 DEF Failed
  <1>4. ASSUME NEW a \in Accounts
        PROVE  Charged(a) \in Account
    <2> DEFINE fails == account[a].fails + 1
               on == account[a].enabled /\ fails < MaxCookieAuthFailures
    <2>1. account[a] \in [enabled : BOOLEAN, fails : Nat]
      BY <1>1
    <2>2. fails \in Nat /\ on \in BOOLEAN
      BY <2>1
    <2>3. Charged(a) = [account EXCEPT ![a].fails = fails, ![a].enabled = on]
      BY <1>1, Zenon DEF Charged
    <2> HIDE DEF fails, on
    <2> QED
      BY <1>1, <2>2, <2>3
  <1>5. ASSUME NEW a \in Accounts \cup {None}
        PROVE  Cleared(a) \in Account
    BY <1>1 DEF Cleared
  <1>6. ASSUME NEW now \in RequestState, Finish(r, now)
        PROVE  account' \in Account
    BY <1>1, <1>4, <1>6 DEF Finish, RequestState
  <1>7. RetryAttempts \in Nat /\ 0 \in Nat
    BY ConstantsAssumption
  <1> HIDE DEF Proxy, Account
  <1>8. CASE \/ PickAccount(r) \/ TakeExit(r) \/ FetchToken(r)
             \/ RotateTakesExit(r) \/ RotateNoExit(r) \/ Recheck(r)
             \/ NextAccount(r) \/ PrepareFails(r) \/ Prepared(r) \/ XsrfRetry(r)
    BY <1>1, <1>8 DEF PickAccount, TakeExit, FetchToken, RotateTakesExit,
       RotateNoExit, Recheck, NextAccount, PrepareFails, Prepared, XsrfRetry,
       TypeOK, Proxy, Account
  <1>9. CASE NoExit(r)
    BY <1>1, <1>6, <1>9 DEF NoExit, TypeOK, Proxy, Account
  <1>10. CASE RotateEnds(r)
    <2>1. q.acct \in Accounts
      BY <1>1, <1>10 DEF RotateEnds, Good, Credit, InRotation, RequestState
    <2> QED
      BY <1>1, <1>10, <2>1 DEF RotateEnds, TypeOK, Proxy, Account
  <1>11. CASE ChargeAccount(r)
    <2>1. q.acct \in Accounts
      BY <1>1, <1>11 DEF ChargeAccount, Good, Credit, InRotation, RequestState
    <2> QED
      BY <1>1, <1>4, <1>11, <2>1 DEF ChargeAccount, TypeOK, Proxy, Account
  <1>12. CASE UploadFails(r)
    BY <1>1, <1>2, <1>7, <1>12 DEF UploadFails, TypeOK, Proxy, Account
  <1>13. CASE Answered(r)
    <2>1. q.cookieID \in Accounts \cup {None}
      BY <1>1 DEF RequestState
    <2> QED
      BY <1>1, <1>2, <1>5, <1>7, <1>13, <2>1 DEF Answered, TypeOK, Proxy, Account
  <1>14. CASE AttemptFails(r)
    <2>1. PICK o \in Outcomes(q) :
            LET now == [q EXCEPT !.emitted = o.emitted, !.rejected = o.rejected,
                                 !.sends = @ + 1]
            IN  \/ proxy' = Failed(now.exit) /\ UNCHANGED account
                \/ proxy' = Recorded(now.exit, RetryAttempts) /\ UNCHANGED account
                \/ proxy' = Failed(now.exit) /\ Finish(r, now)
      BY <1>14 DEF AttemptFails
    <2> DEFINE now == [q EXCEPT !.emitted = o.emitted, !.rejected = o.rejected,
                                !.sends = @ + 1]
    <2>2. now \in RequestState
      BY <1>1, OutcomeTypes, Updates
    <2>3. \/ proxy' = Failed(now.exit) /\ UNCHANGED account
          \/ proxy' = Recorded(now.exit, RetryAttempts) /\ UNCHANGED account
          \/ proxy' = Failed(now.exit) /\ Finish(r, now)
      BY <2>1
    <2> HIDE DEF now
    <2>4. proxy' \in Proxy /\ account' \in Account
      BY <1>1, <1>2, <1>3, <1>6, <1>7, <2>2, <2>3
    <2> QED
      BY <1>14, <2>4 DEF AttemptFails, TypeOK, Proxy, Account
  <1> QED
    BY <1>8, <1>9, <1>10, <1>11, <1>12, <1>13, <1>14 DEF Step

-------------------------------------------------------------------------------
\* A step of a request leaves all others alone and keeps what is said of it.
LEMMA StepGood ==
    ASSUME TypeOK, NEW r \in Requests, Good(req[r]), Step(r)
    PROVE  \E now : Becomes(r, now)
  BY PickAccountGood, TakeExitGood, NoExitGood, FetchTokenGood, RotationGood,
     NextAccountGood, PrepareFailsGood, UploadFailsGood, PreparedGood,
     AnsweredGood, AttemptFailsGood DEF Step

Inv == TypeOK /\ AllGood /\ Balance

\* Nobody holds anything at first.
LEMMA InvInit == Init => Inv
  <1> SUFFICES ASSUME Init PROVE Inv
    OBVIOUS
  <1>1. PICK jobs \in [Requests -> Jobs] :
           req = [r \in Requests |-> NewRequest(jobs[r])]
    BY DEF Init
  <1>2. ASSUME NEW job \in Jobs
        PROVE  NewRequest(job) \in RequestState /\ Good(NewRequest(job))
    <2>1. NewRequest(job) \in RequestState
      BY DEF NewRequest, RequestState, PCs
    <2>2. IsInjective(<<>>) /\ {<<>>[i] : i \in DOMAIN <<>>} = {}
      BY DEF IsInjective
    <2>3. Place(NewRequest(job)) /\ Emission(NewRequest(job))
      BY DEF NewRequest, Place, Emission, WithExit
    <2>4. GivenUp(NewRequest(job))
      BY FS_EmptySet DEF NewRequest, GivenUp
    <2>5. Credit(NewRequest(job))
      BY <2>2 DEF NewRequest, Credit, ChargedBy, InRotation, Ended
    <2> QED
      BY <2>1, <2>3, <2>4, <2>5 DEF Good
  <1>3. TypeOK
    <2>1. req \in [Requests -> RequestState]
      BY <1>1, <1>2
    <2>2. /\ inflight \in [Exits -> Nat]
          /\ proxy \in [Proxies -> [fails : Nat, resting : BOOLEAN]]
          /\ live \in SUBSET Accounts
      BY DEF Init
    <2>3. account \in [Accounts -> [enabled : BOOLEAN, fails : Nat]]
      BY DEF Init
    <2> QED
      BY <2>1, <2>2, <2>3 DEF TypeOK
  <1>4. AllGood
    BY <1>1, <1>2 DEF AllGood
  <1>5. Balance
    <2>1. \A r \in Requests : req[r].exit = None /\ req[r].rotExit = None
      BY <1>1 DEF NewRequest
    <2>2. \A e \in Exits : HoldersOf(e) = {}
      BY <2>1, ConstantsAssumption DEF HoldersOf
    <2> QED
      BY <2>2, FS_EmptySet DEF Balance, Init
  <1> QED
    BY <1>3, <1>4, <1>5 DEF Inv

\* What all requests together keep.
LEMMA InvStep == Inv /\ [Next]_vars => Inv'
  <1> SUFFICES ASSUME Inv, [Next]_vars PROVE Inv'
    OBVIOUS
  <1>1. ASSUME NEW r \in Requests, Step(r) PROVE Inv'
    <2>1. PICK now : Becomes(r, now)
      BY <1>1, StepGood DEF Inv, AllGood
    <2>2. /\ req' \in [Requests -> RequestState]
          /\ req'[r] = now
          /\ \A u \in Requests \ {r} : req'[u] = req[u]
      BY <2>1 DEF Becomes, Inv, TypeOK
    <2>3. AllGood'
      BY <2>1, <2>2 DEF Becomes, Inv, AllGood
    <2>4. inflight' \in [Exits -> Nat] /\ Balance'
      BY <1>1, <2>2, StepMovesPlaces, MovesKeepBalance DEF Inv, AllGood
    <2>5. TypeOK'
      BY <1>1, <2>2, <2>4, HealthTypes DEF Inv, AllGood, TypeOK
    <2> QED
      BY <2>3, <2>4, <2>5 DEF Inv
  <1>2. ASSUME UNCHANGED <<req, inflight>> PROVE AllGood' /\ Balance'
    BY <1>2 DEF Inv, AllGood, Balance, HoldersOf
  <1>3. ASSUME NEW p \in Proxies, CooldownEnds(p) PROVE Inv'
    <2>1. TypeOK'
      BY <1>3 DEF CooldownEnds, Inv, TypeOK
    <2> QED
      BY <1>2, <1>3, <2>1 DEF CooldownEnds, Inv
  <1>4. ASSUME NEW a \in Accounts, SessionExpires(a) PROVE Inv'
    <2>1. TypeOK'
      BY <1>4 DEF SessionExpires, Inv, TypeOK
    <2> QED
      BY <1>2, <1>4, <2>1 DEF SessionExpires, Inv
  <1>5. CASE UNCHANGED vars
    <2>1. TypeOK'
      BY <1>5 DEF vars, Inv, TypeOK
    <2> QED
      BY <1>2, <1>5, <2>1 DEF vars, Inv
  <1> QED
    BY <1>1, <1>3, <1>4, <1>5 DEF Next

\* The inductive invariant of the request flow: every request's record is
\* consistent in itself, and the counts of places are the holders.
LEMMA InvHolds == Spec => []Inv
  BY InvInit, InvStep, PTL DEF Spec

\* Every variable of the request flow keeps to its type.
THEOREM RequestTypes == Spec => []TypeOK
  <1>1. Inv => TypeOK
    BY DEF Inv
  <1> QED
    BY <1>1, InvHolds, PTL

\* The places taken at an exit are the requests using it, whatever way each
\* request leaves it by: no return, change of exit or nested rotation leaks
\* a place or gives one back twice, and who has ended holds none.
THEOREM PlacesGivenBack == Spec => []SlotBalance
  <1>1. Inv => SlotBalance
    BY DEF Inv, AllGood, Good, Place, Balance, SlotBalance, WithExit, Ended
  <1> QED
    BY <1>1, InvHolds, PTL

\* No request comes back to an exit it has given up.
THEOREM ExitsNotTakenBack == Spec => []NeverBackToAnExit
  <1>1. Inv => NeverBackToAnExit
    BY DEF Inv, AllGood, Good, GivenUp, NeverBackToAnExit
  <1> QED
    BY <1>1, InvHolds, PTL

\* A request charges an account with one failure at most, through rotations,
\* exits and attempts, although the account loop and the last return both may.
THEOREM ChargedOnlyOnce == Spec => []ChargedOnce
  <1>1. Inv => ChargedOnce
    BY DEF Inv, AllGood, Good, Credit, ChargedOnce
  <1> QED
    BY <1>1, InvHolds, PTL

\* The outcome of what is sent is credited to the account whose cookie was
\* sent, and nothing is sent anonymously that must not be.
THEOREM CreditFollowsCookie == Spec => []CreditAndCookieAgree
  <1>1. Inv => CreditAndCookieAgree
    <2> SUFFICES ASSUME Inv, NEW r \in Requests, req[r].pc = "send"
                 PROVE  /\ req[r].cookie = req[r].cookieID
                        /\ req[r].cookie = None =>
                              /\ req[r].uploaded + req[r].contexts = 0
                              /\ FallbackAnon \/ req[r].tried = {}
      BY DEF CreditAndCookieAgree
    <2>1. Credit(req[r])
      BY DEF Inv, AllGood, Good
    <2> QED
      BY <2>1 DEF Credit
  <1> QED
    BY <1>1, InvHolds, PTL

\* Once the client of a stream has been sent text, its request sends nothing
\* upstream any more: not again through the same exit, nor through another.
THEOREM NothingSentAfterText == Spec => NoRetryAfterEmission
  <1>1. Inv /\ [Next]_vars =>
           [\A r \in Requests : req[r].emitted => req'[r].sends = req[r].sends]_vars
    <2> SUFFICES ASSUME Inv, Next, NEW r \in Requests, req[r].emitted
                 PROVE  req'[r].sends = req[r].sends
      BY DEF vars
    <2>1. req[r].pc \in Ended
      BY DEF Inv, AllGood, Good, Emission
    <2>2. ~Step(r)
      BY <2>1 DEF Step, Ended, PickAccount, TakeExit, NoExit, FetchToken,
         RotateTakesExit, RotateNoExit, RotateEnds, Recheck, ChargeAccount,
         NextAccount, PrepareFails, UploadFails, Prepared, Answered, XsrfRetry,
         AttemptFails
    <2>3. ASSUME NEW u \in Requests \ {r}, Step(u)
          PROVE  req'[r] = req[r]
      <3>1. PICK now : Becomes(u, now)
        BY <2>3, StepGood DEF Inv, AllGood
      <3> QED
        BY <3>1 DEF Becomes, Inv, TypeOK
    <2> QED
      BY <2>2, <2>3 DEF Next, CooldownEnds, SessionExpires
  <1> QED
    BY <1>1, InvHolds, PTL DEF Spec, NoRetryAfterEmission

-------------------------------------------------------------------------------
(***************************************************************************)
(* Limits that hold whatever the requests do to each other.                *)
(***************************************************************************)

\* No exit carries more than per_ip_concurrent at once, the exits taken for
\* rotations on the way included.
WithinLimit == \A e \in Exits : Cardinality(HoldersOf(e)) <= PerIPConcurrent

Fits == \A e \in Exits : inflight[e] <= PerIPConcurrent

\* acquireSlotExcept comes back with exits that have a place left.
LEMMA TakeableFit ==
    ASSUME NEW excluded, NEW e \in Takeable(excluded)
    PROVE  e \in Exits /\ inflight[e] < PerIPConcurrent
  <1>1. Mode \in {"direct_only", "static_only", "pool_only", "auto"}
    BY ConstantsAssumption
  <1> QED
    BY <1>1 DEF Takeable

\* Every other step gives a place back or leaves the counts alone.
LEMMA StepGivesBack ==
    ASSUME NEW r \in Requests, Step(r), ~TakeExit(r), ~RotateTakesExit(r)
    PROVE  inflight' = inflight \/ \E e : inflight' = FreedBy(e)
  <1> DEFINE Back == inflight' = inflight \/ \E e : inflight' = FreedBy(e)
  <1> SUFFICES Back
    OBVIOUS
  <1>1. ASSUME NEW now, End(r, now) PROVE Back
    BY <1>1 DEF End
  <1>2. ASSUME NEW now, Finish(r, now) PROVE Back
    BY <1>1, <1>2 DEF Finish
  <1>3. ASSUME NEW now, SwitchExit(r, now) PROVE Back
    BY <1>3 DEF SwitchExit
  <1> HIDE DEF Back
  <1>4. CASE PickAccount(r) \/ FetchToken(r) \/ RotateNoExit(r) \/ Recheck(r)
    <2>1. inflight' = inflight
      BY <1>4, Zenon DEF PickAccount, FetchToken, RotateNoExit, Recheck
    <2> QED
      BY <2>1 DEF Back
  <1>5. CASE ChargeAccount(r) \/ NextAccount(r) \/ Prepared(r) \/ XsrfRetry(r)
    <2>1. inflight' = inflight
      BY <1>5, Zenon DEF ChargeAccount, NextAccount, Prepared, XsrfRetry
    <2> QED
      BY <2>1 DEF Back
  <1>6. CASE RotateEnds(r)
    BY <1>6, Zenon DEF RotateEnds, Back
  <1>7. CASE NoExit(r)
    BY <1>2, <1>7, Zenon DEF NoExit
  <1>8. CASE PrepareFails(r) \/ Answered(r)
    BY <1>1, <1>8, Zenon DEF PrepareFails, Answered
  <1>9. CASE UploadFails(r)
    <2>1. PICK k \in 0 .. req[r].job.pending - 1 :
            LET now == [req[r] EXCEPT !.uploaded = k]
            IN  SwitchExit(r, now) \/ End(r, [now EXCEPT !.pc = "failed"])
      BY <1>9, Zenon DEF UploadFails
    <2> QED
      BY <1>1, <1>3, <2>1
  <1>10. CASE AttemptFails(r)
    <2>1. PICK o \in Outcomes(req[r]) :
            LET now == [req[r] EXCEPT !.emitted = o.emitted, !.rejected = o.rejected,
                                      !.sends = @ + 1]
            IN  inflight' = inflight \/ SwitchExit(r, now) \/ Finish(r, now)
      BY <1>10, Zenon DEF AttemptFails
    <2> QED
      BY <1>2, <1>3, <2>1 DEF Back
  <1> QED
    BY <1>4, <1>5, <1>6, <1>7, <1>8, <1>9, <1>10, Zenon DEF Step

\* A step takes a place that is left, or it takes none.
LEMMA StepFits ==
    ASSUME TypeOK, Fits, NEW r \in Requests, Good(req[r]), Step(r)
    PROVE  Fits'
  <1>1. PerIPConcurrent \in Nat
    BY ConstantsAssumption
  <1>2. \A e \in Exits : inflight[e] \in Nat /\ inflight[e] <= PerIPConcurrent
    BY DEF TypeOK, Fits
  <1>3. inflight \in [Exits -> Nat]
    BY DEF TypeOK
  <1>4. CASE TakeExit(r) \/ RotateTakesExit(r)
    <2>1. PICK e : e \in Exits /\ inflight[e] < PerIPConcurrent
                   /\ inflight' = [inflight EXCEPT ![e] = @ + 1]
      BY <1>4, TakeableFit, Zenon DEF TakeExit, RotateTakesExit
    <2>2. \A x \in Exits : inflight'[x] = IF x = e THEN inflight[e] + 1 ELSE inflight[x]
      BY <1>3, <2>1
    <2>3. inflight[e] + 1 <= PerIPConcurrent
      BY <1>1, <1>2, <2>1
    <2> QED
      BY <1>2, <2>2, <2>3 DEF Fits
  <1>5. CASE ~TakeExit(r) /\ ~RotateTakesExit(r)
    <2>1. inflight' = inflight \/ \E e : inflight' = FreedBy(e)
      BY <1>5, StepGivesBack
    <2>2. ASSUME inflight' = inflight PROVE Fits'
      BY <2>2 DEF Fits
    <2>3. ASSUME NEW e, inflight' = FreedBy(e) PROVE Fits'
      <3>1. \A x \in Exits : inflight'[x] = inflight[x] \/ inflight'[x] = inflight[x] - 1
        BY <1>3, <2>3 DEF FreedBy
      <3> QED
        BY <1>1, <1>2, <3>1 DEF Fits
    <2> QED
      BY <2>1, <2>2, <2>3
  <1> QED
    BY <1>4, <1>5

\* At no time is an exit used more often than per_ip_concurrent allows.
THEOREM ExitsNotOverrun == Spec => []WithinLimit
  <1>1. Init => Fits
    BY ConstantsAssumption DEF Init, Fits
  <1>2. Inv /\ Fits /\ [Next]_vars => Fits'
    <2> SUFFICES ASSUME Inv, Fits, [Next]_vars PROVE Fits'
      OBVIOUS
    <2>1. ASSUME NEW r \in Requests, Step(r) PROVE Fits'
      BY <2>1, StepFits DEF Inv, AllGood
    <2>2. ASSUME UNCHANGED inflight PROVE Fits'
      BY <2>2 DEF Fits
    <2> QED
      BY <2>1, <2>2 DEF Next, CooldownEnds, SessionExpires, vars
  <1>3. Inv /\ Fits => WithinLimit
    BY DEF Inv, Balance, Fits, WithinLimit
  <1> QED
    BY <1>1, <1>2, <1>3, InvHolds, PTL DEF Spec

\* However its attempts fail, a request is sent upstream through each of the
\* exits it uses no more than RetryAttempts times and once more for a token.
SendsBounded ==
    \A r \in Requests : req[r].sends <= (MaxProxySwitches + 1) * (RetryAttempts + 1)

\* What n exits, each given up, have sent at most.
Through(n) == n * (RetryAttempts + 1)

\* What was sent so far, by where the request is.
Sent(q) ==
    /\ q.switch <= MaxProxySwitches
    /\ q.pc \notin Ended \cup {"send"} => q.sends <= Through(q.switch)
    /\ q.pc = "send" =>
          /\ q.attempt < RetryAttempts
          /\ ~q.xsrfRetried => q.sends <= Through(q.switch) + q.attempt
          /\ q.sends <= Through(q.switch) + q.attempt + 1
    /\ q.sends <= Through(q.switch) + RetryAttempts + 1

LEMMA ThroughIs ==
    /\ \A n \in Nat : Through(n) \in Nat /\ Through(n + 1) = Through(n) + RetryAttempts + 1
    /\ \A n \in Nat : \A m \in 0 .. n : Through(m) <= Through(n)
    /\ Through(0) = 0
  <1>1. RetryAttempts \in Nat
    BY ConstantsAssumption
  <1>2. ASSUME NEW n \in Nat
        PROVE  Through(n) \in Nat /\ Through(n + 1) = Through(n) + RetryAttempts + 1
    BY <1>1 DEF Through
  <1>3. ASSUME NEW n \in Nat, NEW m \in 0 .. n PROVE Through(m) <= Through(n)
    <2>1. PICK d \in Nat : n = m + d
      <3>1. n - m \in Nat /\ n = m + (n - m)
        OBVIOUS
      <3> QED
        BY <3>1
    <2>2. (m + d) * (RetryAttempts + 1) = m * (RetryAttempts + 1) + d * (RetryAttempts + 1)
      BY <1>1
    <2>3. d * (RetryAttempts + 1) \in Nat /\ m * (RetryAttempts + 1) \in Nat
      BY <1>1
    <2> QED
      BY <2>1, <2>2, <2>3 DEF Through
  <1>4. Through(0) = 0
    BY <1>1 DEF Through
  <1> QED
    BY <1>2, <1>3, <1>4

\* How a step of a request changes its counts: not at all; on the way to
\* what it sends; by sending, once more here or for the last time; or by
\* giving the exit up, having sent or not.
Counts(q, next) ==
    \/ /\ next.sends = q.sends /\ next.switch = q.switch
       /\ q.pc \notin Ended \cup {"send"} /\ next.pc # "send"
    \/ /\ next.sends = q.sends /\ next.switch = q.switch
       /\ q.pc = "prepare" /\ next.pc = "send"
       /\ next.attempt = 0 /\ next.xsrfRetried = FALSE
    \/ /\ next.sends = q.sends + 1 /\ next.switch = q.switch
       /\ q.pc = "send" /\ next.pc = "send"
       /\ next.attempt = q.attempt /\ ~q.xsrfRetried /\ next.xsrfRetried
    \/ /\ next.sends = q.sends + 1 /\ next.switch = q.switch
       /\ q.pc = "send" /\ next.pc = "send"
       /\ next.attempt = q.attempt + 1 /\ next.attempt < RetryAttempts
       /\ next.xsrfRetried = q.xsrfRetried
    \/ /\ next.sends = q.sends + 1 /\ next.switch = q.switch
       /\ q.pc = "send" /\ next.pc \in Ended
    \/ /\ next.sends = q.sends + 1 /\ q.pc = "send"
       /\ q.switch < MaxProxySwitches /\ next.switch = q.switch + 1
       /\ next.pc = "exit"
    \/ /\ next.sends = q.sends /\ q.pc = "prepare"
       /\ q.switch < MaxProxySwitches /\ next.switch = q.switch + 1
       /\ next.pc = "exit"

LEMMA CountsKeepSent ==
    ASSUME NEW q \in RequestState, NEW next \in RequestState, Sent(q), Counts(q, next)
    PROVE  Sent(next)
  <1>1. /\ q.switch \in Nat /\ q.sends \in Nat /\ q.attempt \in Nat
        /\ next.switch \in Nat /\ next.sends \in Nat /\ next.attempt \in Nat
        /\ q.xsrfRetried \in BOOLEAN /\ next.xsrfRetried \in BOOLEAN
    BY DEF RequestState
  <1>2. /\ RetryAttempts \in Nat \ {0} /\ MaxProxySwitches \in Nat
        /\ Through(q.switch) \in Nat
        /\ Through(q.switch + 1) = Through(q.switch) + RetryAttempts + 1
    BY <1>1, ThroughIs, ConstantsAssumption
  <1> QED
    BY <1>1, <1>2 DEF Counts, Sent, Ended

\* A return sends nothing and gives no exit up.
LEMMA EndCounts ==
    ASSUME TypeOK, NEW r \in Requests, NEW now \in RequestState, End(r, now)
    PROVE  /\ req'[r].sends = now.sends /\ req'[r].switch = now.switch
           /\ req'[r].pc = now.pc
  <1> DEFINE last == [now EXCEPT !.exit = None]
  <1>1. req'[r] = last
    BY DEF End, TypeOK
  <1> QED
    BY <1>1 DEF RequestState

LEMMA FinishCounts ==
    ASSUME TypeOK, NEW r \in Requests, NEW now \in RequestState, Finish(r, now)
    PROVE  /\ req'[r].sends = now.sends /\ req'[r].switch = now.switch
           /\ req'[r].pc = "failed"
  <1>1. CASE now.cookieID # None /\ now.rejected
    <2> DEFINE list == Append(now.charged, now.cookieID)
               last == [now EXCEPT !.pc = "failed", !.charged = list]
    <2>1. End(r, last)
      BY <1>1 DEF Finish
    <2>2. list \in Seq(Accounts)
      BY <1>1 DEF RequestState
    <2> HIDE DEF list
    <2>3. last \in RequestState
      BY <2>2, Updates, Zenon DEF PCs
    <2>4. last.sends = now.sends /\ last.switch = now.switch /\ last.pc = "failed"
      BY DEF RequestState
    <2> HIDE DEF last
    <2> QED
      BY <2>1, <2>3, <2>4, EndCounts
  <1>2. CASE ~(now.cookieID # None /\ now.rejected)
    <2> DEFINE last == [now EXCEPT !.pc = "failed"]
    <2>1. End(r, last)
      BY <1>2 DEF Finish
    <2>2. last \in RequestState
      BY DEF RequestState, PCs
    <2>3. last.sends = now.sends /\ last.switch = now.switch /\ last.pc = "failed"
      BY DEF RequestState
    <2> HIDE DEF last
    <2> QED
      BY <2>1, <2>2, <2>3, EndCounts
  <1> QED
    BY <1>1, <1>2

LEMMA SwitchExitCounts ==
    ASSUME TypeOK, NEW r \in Requests, NEW now \in RequestState, SwitchExit(r, now)
    PROVE  /\ req'[r].sends = now.sends /\ req'[r].switch = now.switch + 1
           /\ req'[r].pc = "exit"
  <1>1. req'[r] = [now EXCEPT !.pc = "exit", !.exit = None,
                              !.excluded = @ \cup {now.exit}, !.switch = @ + 1]
    BY DEF SwitchExit, TypeOK
  <1> QED
    BY <1>1 DEF RequestState

LEMMA StepCounts ==
    ASSUME TypeOK, NEW r \in Requests, Good(req[r]), Step(r)
    PROVE  Counts(req[r], req'[r])
  <1> DEFINE q == req[r]
             next == req'[r]
  <1>1. q \in RequestState
    BY DEF TypeOK
  <1>2. CASE PickAccount(r) \/ TakeExit(r) \/ FetchToken(r) \/ RotateTakesExit(r)
             \/ RotateNoExit(r) \/ RotateEnds(r) \/ Recheck(r) \/ ChargeAccount(r)
             \/ NextAccount(r)
    <2>1. /\ q.pc \notin Ended \cup {"send"}
          /\ next.sends = q.sends /\ next.switch = q.switch /\ next.pc # "send"
      <3>1. CASE PickAccount(r)
        BY <3>1 DEF PickAccount, TypeOK, RequestState, Ended
      <3>2. CASE TakeExit(r)
        BY <3>2 DEF TakeExit, TypeOK, RequestState, Ended
      <3>3. CASE FetchToken(r)
        <4> DEFINE tried == [q EXCEPT !.tried = @ \cup {q.acct}, !.cookieID = q.acct]
        <4>1. /\ q.pc = "token"
              /\ \/ next = [tried EXCEPT !.cookie = tried.acct, !.pc = "prepare"]
                 \/ next = [tried EXCEPT !.pc = "rotate"]
          BY <3>3 DEF FetchToken, TypeOK
        <4> QED
          BY <1>1, <4>1 DEF RequestState, Ended
      <3>4. CASE RotateTakesExit(r)
        <4>1. q.pc = "rotate"
              /\ \E e : req' = [req EXCEPT ![r].rotExit = e, ![r].pc = "rotating"]
          BY <3>4, Zenon DEF RotateTakesExit
        <4> QED
          BY <1>1, <4>1 DEF TypeOK, RequestState, Ended
      <3>5. CASE RotateNoExit(r)
        BY <3>5 DEF RotateNoExit, TypeOK, RequestState, Ended
      <3>6. CASE RotateEnds(r)
        <4>1. q.pc = "rotating"
              /\ \/ req' = [req EXCEPT ![r].rotExit = None, ![r].pc = "recheck"]
                 \/ req' = [req EXCEPT ![r].rotExit = None, ![r].pc = "charge"]
          BY <3>6, Zenon DEF RotateEnds
        <4> QED
          BY <1>1, <4>1 DEF TypeOK, RequestState, Ended
      <3>7. CASE Recheck(r)
        BY <3>7 DEF Recheck, TypeOK, RequestState, Ended
      <3>8. CASE ChargeAccount(r)
        <4> DEFINE list == Append(q.charged, q.acct)
        <4>1. req' = [req EXCEPT ![r].cookieErr = TRUE, ![r].pc = "next",
                                 ![r].charged = list]
          BY <3>8 DEF ChargeAccount, TypeOK, RequestState
        <4> HIDE DEF list
        <4> QED
          BY <3>8, <4>1 DEF ChargeAccount, TypeOK, RequestState, Ended
      <3>9. CASE NextAccount(r)
        BY <3>9 DEF NextAccount, TypeOK, RequestState, Ended
      <3> QED
        BY <1>2, <3>1, <3>2, <3>3, <3>4, <3>5, <3>6, <3>7, <3>8, <3>9
    <2> QED
      BY <2>1 DEF Counts
  <1>3. CASE NoExit(r)
    <2>1. q.pc = "exit" /\ Finish(r, q)
      BY <1>3 DEF NoExit
    <2>2. next.sends = q.sends /\ next.switch = q.switch /\ next.pc = "failed"
      BY <1>1, <2>1, FinishCounts
    <2> QED
      BY <2>1, <2>2 DEF Counts, Ended
  <1>4. CASE PrepareFails(r)
    <2> DEFINE id == IF AllAccountsFailed(q) /\ FallbackAnon THEN None ELSE q.cookieID
               files == IF ToUpload(q) /\ q.cookie # None
                        THEN q.job.pending ELSE q.uploaded
               now == [q EXCEPT !.pc = "failed", !.cookieID = id, !.uploaded = files]
    <2>1. q.pc = "prepare" /\ End(r, now)
      BY <1>4 DEF PrepareFails
    <2>2. q.job.pending \in Nat
      BY <1>1, ConstantsAssumption DEF RequestState, Job
    <2>3. id \in Accounts \cup {None} /\ files \in Nat
      BY <1>1, <2>2 DEF RequestState
    <2> HIDE DEF id, files
    <2>4. /\ now \in RequestState
          /\ now.sends = q.sends /\ now.switch = q.switch /\ now.pc = "failed"
      BY <1>1, <2>3 DEF RequestState, PCs
    <2> HIDE DEF now
    <2> QED
      BY <2>1, <2>4, EndCounts DEF Counts, Ended
  <1>5. CASE UploadFails(r)
    <2>1. q.pc = "prepare"
      BY <1>5 DEF UploadFails
    <2>2. PICK k \in 0 .. q.job.pending - 1 :
             IF q.switch < MaxProxySwitches
             THEN SwitchExit(r, [q EXCEPT !.uploaded = k])
             ELSE End(r, [[q EXCEPT !.uploaded = k] EXCEPT !.pc = "failed"])
      BY <1>5, Zenon DEF UploadFails
    <2> DEFINE now == [q EXCEPT !.uploaded = k]
               last == [now EXCEPT !.pc = "failed"]
    <2>3. k \in Nat
      BY <1>1, ConstantsAssumption DEF RequestState, Job
    <2>4. now \in RequestState /\ now.sends = q.sends /\ now.switch = q.switch
      BY <1>1, <2>3 DEF RequestState
    <2>5. /\ last \in RequestState
          /\ last.sends = q.sends /\ last.switch = q.switch /\ last.pc = "failed"
      BY <1>1, <2>3 DEF RequestState, PCs
    <2>6. \/ q.switch < MaxProxySwitches /\ SwitchExit(r, now)
          \/ End(r, last)
      BY <2>2
    <2> HIDE DEF now, last
    <2> QED
      BY <2>1, <2>4, <2>5, <2>6, EndCounts, SwitchExitCounts DEF Counts, Ended
  <1>6. CASE Prepared(r)
    <2> DEFINE id == IF AllAccountsFailed(q) THEN None ELSE q.cookieID
               files == IF ToUpload(q) THEN q.job.pending ELSE q.uploaded
               context == IF q.job.long THEN q.contexts + 1 ELSE q.contexts
    <2>1. /\ q.pc = "prepare"
          /\ req' = [req EXCEPT ![r] =
                [q EXCEPT !.cookieID = id, !.uploaded = files, !.contexts = context,
                          !.attempt = 0, !.xsrfRetried = FALSE, !.pc = "send"]]
      BY <1>6 DEF Prepared
    <2> HIDE DEF id, files, context
    <2>2. /\ next.sends = q.sends /\ next.switch = q.switch /\ next.pc = "send"
          /\ next.attempt = 0 /\ next.xsrfRetried = FALSE
      BY <1>1, <2>1 DEF TypeOK, RequestState
    <2> QED
      BY <2>1, <2>2 DEF Counts
  <1>7. CASE Answered(r)
    <2> DEFINE now == [q EXCEPT !.pc = "done", !.sends = @ + 1]
    <2>1. q.pc = "send" /\ End(r, now)
      BY <1>7 DEF Answered
    <2>2. now \in RequestState
      BY <1>1, Updates, Zenon DEF PCs
    <2>3. now.sends = q.sends + 1 /\ now.switch = q.switch /\ now.pc = "done"
      BY <1>1 DEF RequestState
    <2> HIDE DEF now
    <2> QED
      BY <2>1, <2>2, <2>3, EndCounts DEF Counts, Ended
  <1>8. CASE XsrfRetry(r)
    <2>1. /\ q.pc = "send" /\ ~q.xsrfRetried
          /\ next = [q EXCEPT !.xsrfRetried = TRUE, !.sends = @ + 1]
      BY <1>8 DEF XsrfRetry, TypeOK
    <2> QED
      BY <1>1, <2>1 DEF Counts, RequestState
  <1>9. CASE AttemptFails(r)
    <2>1. PICK o \in Outcomes(q) :
            LET now == [q EXCEPT !.emitted = o.emitted, !.rejected = o.rejected,
                                 !.sends = @ + 1]
            IN  \/ /\ MayResend(now)
                   /\ req' = [req EXCEPT ![r] = [now EXCEPT !.attempt = @ + 1]]
                \/ /\ MaySwitch(now)
                   /\ SwitchExit(r, now)
                \/ Finish(r, now)
      BY <1>9 DEF AttemptFails
    <2> DEFINE now == [q EXCEPT !.emitted = o.emitted, !.rejected = o.rejected,
                                !.sends = @ + 1]
               again == [now EXCEPT !.attempt = @ + 1]
    <2>2. q.pc = "send"
      BY <1>9 DEF AttemptFails
    <2>3. now \in RequestState
      BY <1>1, OutcomeTypes, Updates
    <2>4. /\ now.sends = q.sends + 1 /\ now.switch = q.switch /\ now.pc = q.pc
          /\ now.attempt = q.attempt /\ now.xsrfRetried = q.xsrfRetried
      BY <1>1 DEF RequestState
    <2>5. /\ again.sends = now.sends /\ again.switch = now.switch /\ again.pc = now.pc
          /\ again.attempt = now.attempt + 1 /\ again.xsrfRetried = now.xsrfRetried
      BY <2>3 DEF RequestState
    <2>6. \/ MayResend(now) /\ req' = [req EXCEPT ![r] = again]
          \/ MaySwitch(now) /\ SwitchExit(r, now)
          \/ Finish(r, now)
      BY <2>1
    <2> HIDE DEF now, again
    <2>7. CASE MayResend(now) /\ req' = [req EXCEPT ![r] = again]
      <3>1. next = again /\ now.attempt + 1 < RetryAttempts
        BY <2>7 DEF TypeOK, MayResend
      <3> QED
        BY <2>2, <2>4, <2>5, <3>1 DEF Counts
    <2>8. CASE MaySwitch(now) /\ SwitchExit(r, now)
      BY <2>2, <2>3, <2>4, <2>8, SwitchExitCounts DEF Counts, MaySwitch
    <2>9. CASE Finish(r, now)
      BY <2>2, <2>3, <2>4, <2>9, FinishCounts DEF Counts, Ended
    <2> QED
      BY <2>6, <2>7, <2>8, <2>9
  <1> QED
    BY <1>2, <1>3, <1>4, <1>5, <1>6, <1>7, <1>8, <1>9 DEF Step

\* Nothing makes a request go on sending for ever: not exits that fail one
\* after the other, nor tokens that are refused again through each of them.
THEOREM SendsAreFew == Spec => []SendsBounded
  <1> DEFINE SentInv == \A r \in Requests : Sent(req[r])
  <1>1. Init => SentInv
    <2> SUFFICES ASSUME Init, NEW r \in Requests PROVE Sent(req[r])
      OBVIOUS
    <2>1. req[r].sends = 0 /\ req[r].switch = 0 /\ req[r].pc = "pick"
      BY DEF Init, NewRequest
    <2> QED
      BY <2>1, ThroughIs, ConstantsAssumption DEF Sent, Ended
  <1>2. Inv /\ SentInv /\ [Next]_vars => SentInv'
    <2> SUFFICES ASSUME Inv, SentInv, [Next]_vars PROVE SentInv'
      OBVIOUS
    <2>1. ASSUME NEW r \in Requests, Step(r) PROVE SentInv'
      <3>1. PICK now : Becomes(r, now)
        BY <2>1, StepGood DEF Inv, AllGood
      <3>2. /\ req'[r] \in RequestState /\ req[r] \in RequestState
            /\ \A u \in Requests \ {r} : req'[u] = req[u]
        BY <3>1 DEF Becomes, Inv, TypeOK
      <3>3. Counts(req[r], req'[r])
        BY <2>1, StepCounts DEF Inv, AllGood
      <3>4. Sent(req'[r])
        BY <3>2, <3>3, CountsKeepSent
      <3> QED
        BY <3>2, <3>4 DEF Sent
    <2>2. ASSUME UNCHANGED req PROVE SentInv'
      BY <2>2 DEF Sent
    <2> QED
      BY <2>1, <2>2 DEF Next, CooldownEnds, SessionExpires, vars
  <1>3. Inv /\ SentInv => SendsBounded
    <2> SUFFICES ASSUME Inv, SentInv, NEW r \in Requests
                 PROVE  req[r].sends <= (MaxProxySwitches + 1) * (RetryAttempts + 1)
      BY DEF SendsBounded
    <2>1. req[r].switch \in 0 .. MaxProxySwitches /\ req[r].sends \in Nat
      BY ConstantsAssumption DEF Sent, Inv, TypeOK, RequestState
    <2> DEFINE m == MaxProxySwitches
               n == req[r].switch
    <2>2. /\ Through(n) <= Through(m)
          /\ Through(n) \in Nat /\ Through(m) \in Nat
          /\ Through(m + 1) = Through(m) + RetryAttempts + 1
      <3>1. m \in Nat /\ n \in 0 .. m /\ n \in Nat
        BY <2>1, ConstantsAssumption
      <3> HIDE DEF m, n
      <3> QED
        BY <3>1, ThroughIs
    <2>3. req[r].sends <= Through(req[r].switch) + RetryAttempts + 1
      BY DEF Sent
    <2>4. req[r].sends <= Through(MaxProxySwitches + 1)
      BY <2>1, <2>2, <2>3, ConstantsAssumption
    <2> QED
      BY <2>4 DEF Through
  <1> HIDE DEF SentInv
  <1> QED
    BY <1>1, <1>2, <1>3, InvHolds, PTL DEF Spec

===============================================================================
