------------------------------ MODULE Conversation ------------------------------
(***************************************************************************)
(* Server-side conversations (multi_turn), from callGeminiConv in          *)
(* conversation.go to its end.  A client sends its whole history with      *)
(* every request.  When the history without its last message is the key of *)
(* a stored conversation, only that message goes upstream, behind what     *)
(* Google already holds; otherwise a conversation is begun with the whole  *)
(* history.  The answer is stored under the key of the history it ends.    *)
(*                                                                         *)
(* A conversation is one object: every key of convStore it was put under   *)
(* points to it, and requests change it without a lock.                    *)
(*                                                                         *)
(* Clients know nothing of conversations.  They may send any answered      *)
(* history with one more message, as often as they like: the next turn, a  *)
(* retry of a request whose answer was lost, another branch, or a history  *)
(* another client has as well.                                             *)
(*                                                                         *)
(* Left open: whether the limiter grants an exit and which one (RateLimit, *)
(* ProxyPool), so conv.proxyID, which only steers that choice, has no      *)
(* variable, nor has the health of exits and accounts.  Every answer with  *)
(* content is taken to carry the ids that continue it.                     *)
(***************************************************************************)
EXTENDS Naturals, Sequences, FiniteSets, SequencesExt

CONSTANTS Handlers,         \* requests served at the same time
          Convs,            \* addresses of convState objects
          Messages,         \* what clients say
          Replies,          \* what the model says
          Silent,           \* the replies that are tool calls without a text
          NoText,           \* an answer with neither text nor tool call
          Accounts, Exits,
          None,
          RetryAttempts, MaxProxySwitches, ConvMax,
          MaxRequests,      \* bound: requests of all clients
          MaxHistory,       \* bound: messages of a history that is continued
          MaxUpstream       \* bound: messages Google holds of a conversation

ASSUME ConstantsAssumption ==
    /\ IsFiniteSet(Handlers) /\ IsFiniteSet(Exits)
    /\ Silent \subseteq Replies /\ NoText \notin Replies
    /\ None \notin Accounts \cup Exits \cup Convs \cup Replies
    /\ RetryAttempts \in Nat \ {0}
    /\ MaxProxySwitches \in Nat
    /\ ConvMax \in Nat \ {0}
    /\ MaxRequests \in Nat /\ MaxHistory \in Nat /\ MaxUpstream \in Nat
    \* an address is free whenever one is needed
    /\ IsFiniteSet(Convs) /\ Cardinality(Convs) >= ConvMax + Cardinality(Handlers)

VARIABLES req,      \* req[r]: the local variables of handler r
          conv,     \* conv[c]: the object at address c
          store,    \* convStore: from keys to addresses
          older,    \* <<c, d>>: both stored, c's updated is before d's
          expired,  \* those whose updated is more than convTTL ago
          inflight, \* inflight[e]: the in-flight count of e's slot
          answered, \* histories that clients hold
          started   \* requests begun

vars == <<req, conv, store, older, expired, inflight, answered, started>>

\* cid, rid, rcid and tok26 name what Google holds: node, empty at turn 0.
\* session: the account, or the exit whose /app gave the anonymous cookie.
\* told, strayed: history variables.  told is the history its last stored
\* answer ended; strayed, that a request continued it from another history,
\* or while another request was using it.
NewConv(session) ==
    [node |-> <<>>, session |-> session, told |-> <<>>, strayed |-> FALSE]

Idle == [pc |-> "idle", messages |-> <<>>, conv |-> None, fresh |-> FALSE,
         exit |-> None, excluded |-> {}, switch |-> 0, attempt |-> 0,
         base |-> <<>>, reply |-> None]

Empty == [k \in {} |-> None]

Init ==
    /\ req = [r \in Handlers |-> Idle]
    /\ conv = [c \in Convs |-> NewConv(None)]
    /\ store = Empty
    /\ older = {}
    /\ expired = {}
    /\ inflight = [e \in Exits |-> 0]
    /\ answered = {<<>>}
    /\ started = 0

-------------------------------------------------------------------------------
\* The store.

Blank == "no text"

\* canonicalMessages: of a message only its role and its text.
Canonical(history) ==
    [i \in 1 .. Len(history) |-> IF history[i] \in Silent THEN Blank ELSE history[i]]

\* convParentKey and convChildKey
ParentKey(messages) == Canonical(Front(messages))
ChildKey(messages, reply) == Canonical(Append(messages, reply))

\* Of keys, those that point to the object that was updated first.
Oldest(full, order, keys) ==
    {k \in keys : \A j \in keys :
                     full[j] # full[k] => <<full[k], full[j]>> \in order}

\* A mutant of Kept: only what expired is evicted.
KeptUnlessExpired(full, order, late) ==
    IF Cardinality(DOMAIN full) <= ConvMax THEN {DOMAIN full}
    ELSE {{k \in DOMAIN full : full[k] \notin late}}

\* A mutant of Kept: any entry may go.
KeptAny(full, order, late) ==
    LET young == {k \in DOMAIN full : full[k] \notin late}
    IN  IF Cardinality(DOMAIN full) <= ConvMax THEN {DOMAIN full}
        ELSE IF Cardinality(young) <= ConvMax THEN {young}
        ELSE {young \ {k} : k \in young}

\* What convPut may keep when there are too many entries: those that have
\* not expired, without one of the oldest if they are still too many.
Kept(full, order, late) ==
    LET young == {k \in DOMAIN full : full[k] \notin late}
    IN  IF Cardinality(DOMAIN full) <= ConvMax THEN {DOMAIN full}
        ELSE IF Cardinality(young) <= ConvMax THEN {young}
        ELSE {young \ {k} : k \in Oldest(full, order, young)}

\* The store becomes s; order and late are cut down to what it points to.
Points(s) == {s[k] : k \in DOMAIN s}
StoreBecomes(s, order, late) ==
    /\ store' = s
    /\ older' = order \cap (Points(s) \X Points(s))
    /\ expired' = late \cap Points(s)

\* convDelete
Delete(key) ==
    StoreBecomes([k \in DOMAIN store \ {key} |-> store[k]], older, expired)

\* st.updated = time.Now(): c is younger than everything in the store.
Touched(c) ==
    {p \in older : p[1] # c /\ p[2] # c} \cup {<<d, c>> : d \in Points(store) \ {c}}

\* A mutant of Put: the object keeps its old age as well.
PutTwice(key, c) ==
    LET full == [k \in DOMAIN store \cup {key} |-> IF k = key THEN c ELSE store[k]]
        order == older \cup {<<d, c>> : d \in Points(store)}
        late == expired \ {c}
    IN  \E keys \in Kept(full, order, late) :
            StoreBecomes([k \in keys |-> full[k]], order, late)

\* convPut: the object is young again under all its keys.
Put(key, c) ==
    LET full == [k \in DOMAIN store \cup {key} |-> IF k = key THEN c ELSE store[k]]
        order == Touched(c)
        late == expired \ {c}
    IN  \E keys \in Kept(full, order, late) :
            StoreBecomes([k \in keys |-> full[k]], order, late)

-------------------------------------------------------------------------------
\* callGeminiConv, up to the call of streamGenerateConv.

InUse(c) == \E r \in Handlers : req[r].conv = c
Free == {c \in Convs : ~InUse(c) /\ c \notin Points(store)}

\* Objects that nothing points to after the step are garbage.
Collected(objects) ==
    [c \in Convs |->
        IF c \in Points(store') \/ \E r \in Handlers : req'[r].conv = c
        THEN objects[c] ELSE NewConv(None)]

NewRequest(messages, c, fresh) ==
    [Idle EXCEPT !.pc = "exit", !.messages = messages, !.conv = c, !.fresh = fresh]

\* convGet: stored and not expired.
Known(key) == key \in DOMAIN store /\ store[key] \notin expired

\* The history is in the store: the conversation goes on.
Hit(r, history, message) ==
    LET key == Canonical(history)
        c == store[key]
    IN  /\ history # <<>> /\ Known(key)
        /\ req' = [req EXCEPT ![r] = NewRequest(Append(history, message), c, FALSE)]
        /\ conv' = [conv EXCEPT ![c].strayed =
              @ \/ conv[c].told # history \/ InUse(c)]
        /\ UNCHANGED <<store, older, expired>>

\* It does not, or what it finds has expired and is deleted: a new
\* conversation, with an account or (without one, or not wanting one) anonymous.
Miss(r, history, message) ==
    LET key == Canonical(history)
        messages == Append(history, message)
    IN  /\ history = <<>> \/ ~Known(key)
        /\ IF history # <<>> THEN Delete(key) ELSE UNCHANGED <<store, older, expired>>
        /\ \E account \in Accounts \cup {None}, c \in Free :
              /\ req' = [req EXCEPT ![r] = NewRequest(messages, c, TRUE)]
              /\ conv' = Collected([conv EXCEPT ![c] = NewConv(account)])

Begin(r) ==
    /\ req[r].pc = "idle"
    /\ started < MaxRequests
    /\ started' = started + 1
    /\ \E history \in answered, message \in Messages :
          Hit(r, history, message) \/ Miss(r, history, message)
    /\ UNCHANGED <<inflight, answered>>

-------------------------------------------------------------------------------
\* streamGenerateConv.

FreedBy(e) == IF e = None THEN inflight ELSE [inflight EXCEPT ![e] = @ - 1]

\* An error ends the request; a continued conversation is given up, so that
\* the client's retry begins a new one.
Fail(r) ==
    /\ req' = [req EXCEPT ![r] = Idle]
    /\ inflight' = FreedBy(req[r].exit)
    /\ IF req[r].fresh
       THEN UNCHANGED <<store, older, expired>>
       ELSE Delete(ParentKey(req[r].messages))

\* A mutant of GiveUpExit: the place is not given back.
GiveUpExitKept(r) ==
    LET q == req[r]
    IN  IF q.switch < MaxProxySwitches
        THEN /\ req' = [req EXCEPT ![r] =
                   [q EXCEPT !.pc = "exit", !.exit = None, !.switch = @ + 1,
                             !.excluded = @ \cup {q.exit}]]
             /\ UNCHANGED <<store, older, expired, inflight>>
        ELSE Fail(r)

\* Another exit after this one, as long as changes are left.
GiveUpExit(r) ==
    LET q == req[r]
    IN  IF q.switch < MaxProxySwitches
        THEN /\ req' = [req EXCEPT ![r] =
                   [q EXCEPT !.pc = "exit", !.exit = None, !.switch = @ + 1,
                             !.excluded = @ \cup {q.exit}]]
             /\ inflight' = FreedBy(q.exit)
             /\ UNCHANGED <<store, older, expired>>
        ELSE Fail(r)

TakeExit(r) ==
    /\ req[r].pc = "exit"
    /\ \E e \in Exits \ req[r].excluded :
          /\ req' = [req EXCEPT ![r].exit = e, ![r].pc = "session", ![r].attempt = 0]
          /\ inflight' = [inflight EXCEPT ![e] = @ + 1]
    /\ UNCHANGED <<conv, store, older, expired, answered, started>>

NoExit(r) ==
    /\ req[r].pc = "exit"
    /\ Fail(r)
    /\ conv' = Collected(conv)
    /\ UNCHANGED <<answered, started>>

\* A mutant of Build: a new exit gets a new anonymous session.
BuildAfresh(r) ==
    LET c == req[r].conv
    IN  /\ req[r].pc = "session"
        /\ conv' = [conv EXCEPT ![c].session =
              IF @ \in Accounts THEN @ ELSE req[r].exit]
        /\ req' = [req EXCEPT ![r].base = conv[c].node, ![r].pc = "send"]
        /\ UNCHANGED <<store, older, expired, inflight, answered, started>>

\* The cookie is there: an account's, for which getXSRF finds a token, or an
\* anonymous one from before; or getAnonSession fetches it through the exit.
\* The body then names what Google holds of the conversation.
Build(r) ==
    LET c == req[r].conv
    IN  /\ req[r].pc = "session"
        /\ conv' = [conv EXCEPT ![c].session = IF @ = None THEN req[r].exit ELSE @]
        /\ req' = [req EXCEPT ![r].base = conv[c].node, ![r].pc = "send"]
        /\ UNCHANGED <<store, older, expired, inflight, answered, started>>

\* No token, or no anonymous cookie.
SessionFails(r) ==
    /\ req[r].pc = "session"
    /\ conv[req[r].conv].session \notin Exits
    /\ GiveUpExit(r)
    /\ conv' = Collected(conv)
    /\ UNCHANGED <<answered, started>>

\* What Google holds once it has answered: the whole history was sent, or
\* only the new message.
Upstream(q, reply) ==
    q.base \o (IF q.fresh THEN q.messages ELSE <<Last(q.messages)>>) \o <<reply>>

\* A 200 with a content frame.  The ids go into the object, the place at the
\* exit is given back.
Answered(r) ==
    /\ req[r].pc = "send"
    /\ \E reply \in Replies \cup {NoText} :
          LET node == Upstream(req[r], reply)
          IN  /\ Len(node) <= MaxUpstream
              /\ conv' = [conv EXCEPT ![req[r].conv].node = node]
              /\ req' = [req EXCEPT ![r].pc = "store", ![r].reply = reply,
                                    ![r].exit = None]
    /\ inflight' = FreedBy(req[r].exit)
    /\ UNCHANGED <<store, older, expired, answered, started>>

\* An attempt fails: the end if the client of a stream has been sent text,
\* else another attempt, and after the last one another exit.
AttemptFails(r) ==
    /\ req[r].pc = "send"
    /\ \/ Fail(r)
       \/ /\ req[r].attempt + 1 < RetryAttempts
          /\ req' = [req EXCEPT ![r].attempt = @ + 1]
          /\ UNCHANGED <<store, older, expired, inflight>>
       \/ /\ req[r].attempt + 1 = RetryAttempts
          /\ GiveUpExit(r)
    /\ conv' = Collected(conv)
    /\ UNCHANGED <<answered, started>>

-------------------------------------------------------------------------------
\* callGeminiConv, from there on.

\* The answer has something for the client (which, if it does not arrive, the
\* client is free never to continue).
Store(r) ==
    LET q == req[r]
        history == Append(q.messages, q.reply)
    IN  /\ q.pc = "store" /\ q.reply # NoText
        /\ Put(ChildKey(q.messages, q.reply), q.conv)
        /\ answered' = IF Len(history) <= MaxHistory
                       THEN answered \cup {history} ELSE answered
        /\ req' = [req EXCEPT ![r] = Idle]
        /\ conv' = Collected([conv EXCEPT ![q.conv].told = history])
        /\ UNCHANGED <<inflight, started>>

\* A mutant of NothingToStore: the conversation is not given up.
NothingToStoreKept(r) ==
    /\ req[r].pc = "store" /\ req[r].reply = NoText
    /\ req' = [req EXCEPT ![r] = Idle]
    /\ UNCHANGED <<conv, store, older, expired, inflight, answered, started>>

\* Only reasoning: an error, although Google counts it as a turn.
NothingToStore(r) ==
    /\ req[r].pc = "store" /\ req[r].reply = NoText
    /\ Fail(r)
    /\ conv' = Collected(conv)
    /\ UNCHANGED <<answered, started>>

-------------------------------------------------------------------------------
Step(r) ==
    \/ Begin(r) \/ TakeExit(r) \/ NoExit(r) \/ Build(r) \/ SessionFails(r)
    \/ Answered(r) \/ AttemptFails(r) \/ Store(r) \/ NothingToStore(r)

\* convTTL after its last update; what was updated before it is expired too.
Expires ==
    /\ \E c \in Points(store) \ expired :
          /\ \A d \in Points(store) \ expired :
                d # c => <<c, d>> \in older
          /\ expired' = expired \cup {c}
    /\ UNCHANGED <<req, conv, store, older, inflight, answered, started>>

\* The process is restarted: the store is only in memory.
Restart ==
    /\ req' = [r \in Handlers |-> Idle]
    /\ conv' = [c \in Convs |-> NewConv(None)]
    /\ StoreBecomes(Empty, older, expired)
    /\ inflight' = [e \in Exits |-> 0]
    /\ UNCHANGED <<answered, started>>

Next == (\E r \in Handlers : Step(r)) \/ Expires \/ Restart

Spec == Init /\ [][Next]_vars

-------------------------------------------------------------------------------
Said == Messages \cup Replies \cup {NoText, Blank}

HandlerState ==
    [pc : {"idle", "exit", "session", "send", "store"},
     messages : Seq(Said), conv : Convs \cup {None}, fresh : BOOLEAN,
     exit : Exits \cup {None}, excluded : SUBSET Exits,
     switch : 0 .. MaxProxySwitches, attempt : 0 .. RetryAttempts - 1,
     base : Seq(Said), reply : Replies \cup {NoText, None}]

ConvState ==
    [node : Seq(Said), session : Accounts \cup Exits \cup {None},
     told : Seq(Said), strayed : BOOLEAN]

StrictOrder(order, S) ==
    /\ order \subseteq S \X S
    /\ \A c, d \in S : <<c, d>> \in order <=> c # d /\ <<d, c>> \notin order
    /\ \A c, d, f \in S :
          <<c, d>> \in order /\ <<d, f>> \in order => <<c, f>> \in order

TypeOK ==
    /\ req \in [Handlers -> HandlerState]
    /\ conv \in [Convs -> ConvState]
    /\ \A k \in DOMAIN store : k \in Seq(Said) /\ store[k] \in Convs
    /\ StrictOrder(older, Points(store))
    /\ expired \subseteq Points(store)
    /\ inflight \in [Exits -> Nat]
    /\ answered \subseteq Seq(Said)
    /\ started \in 0 .. MaxRequests

\* conversation.go:258-264 (releaseCurrentSlot, deferred): the places taken at
\* an exit are the requests on it, through every early return and exit change.
SlotsReturned ==
    \A e \in Exits : inflight[e] = Cardinality({r \in Handlers : req[r].exit = e})

\* conversation.go:82-99: the store never holds more than convMax entries,
\* whichever of them share an object and whichever have expired.
StoreBounded == Cardinality(DOMAIN store) <= ConvMax

\* A conversation that is continued once from each answer, by one request at
\* a time, gets only what the client's history lacks: what Google holds when
\* the new message is sent is that history, whatever failed, expired or was
\* evicted before.
ContinuesTheHistory ==
    \A r \in Handlers :
        LET q == req[r]
        IN  q.pc = "send" /\ ~q.fresh /\ ~conv[q.conv].strayed =>
                q.base = Front(q.messages)

\* conversation.go:20-21: a conversation keeps its account or its anonymous
\* session from first to last, through changes of exit.
SessionStays ==
    [][\A r \in Handlers :
          LET c == req[r].conv
          IN  c # None /\ c = req'[r].conv /\ conv[c].session # None =>
                 conv'[c].session = conv[c].session]_vars

\* conversation.go:83, 96-98: making room never costs the client who was just
\* answered the continuation while an older conversation is kept.
NewestSurvives ==
    [][\A r \in Handlers :
          LET q == req[r]
          IN  q.pc = "store" /\ q.reply # NoText /\ req'[r].pc = "idle"
                 /\ DOMAIN store' # {} =>
              \/ ChildKey(q.messages, q.reply) \in DOMAIN store'
              \/ Points(store') = {q.conv}]_vars

\* conversation.go:120-121 (a hit in the store is the continuation of a known
\* conversation, sending the last message is enough): Google holds exactly
\* what the client sends before it.
HitIsContinuation ==
    \A r \in Handlers :
        req[r].pc = "send" /\ ~req[r].fresh => req[r].base = Front(req[r].messages)

===============================================================================
