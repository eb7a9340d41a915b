------------------------ MODULE AccountServiceProofs ------------------------
(***************************************************************************)
(* Proofs about AccountService, for any operations, requests, keys, broker *)
(* accounts and bounds.                                                    *)
(***************************************************************************)
EXTENDS AccountService, TLAPS

Serving == Steps \ {"idle", "done"}
Refreshing == {"history", "walk", "publish"}
Verifying == {"ask", "record"}

\* What a request holds at each of its steps.
WellFormed(q) ==
  /\ q \in Request
  /\ q.at \in Serving => q.op \in Ops /\ q.key \in Keys
  /\ q.token # "none" => q.at \in Verifying
  /\ q.at = "record" => q.answer \in {"connected", "auth_failed"}
  /\ q.answer = "created" => q.at = "done" /\ q.op \in Ops
  /\ q.answer = "connected" => q.at = "record"

OneOpenToken ==
  \A q, r \in Requests :
    req[q].token = "open" /\ req[r].token = "open" /\ req[q].op = req[r].op => q = r

Served ==
  /\ req \in [Requests -> Request]
  /\ \A r \in Requests : WellFormed(req[r])
  /\ OneOpenToken

Stored ==
  /\ account \in [Ops -> Row \cup {None}]
  /\ ledger \in [Ops -> Entry \cup {None}]
  /\ mirror \in [Ops -> [Items -> Nat]]
  /\ published \in [Ops -> Nat]
  /\ drawn \in Nat
  /\ verifying \in [Ops -> Nat]
  /\ floor \in [Ops -> [Items -> Nat]]

Outside ==
  /\ valid \in [Keys -> BOOLEAN]
  /\ broker \in [Numbers -> [Items -> [rev : Nat, shown : BOOLEAN]]]
  /\ dialog \in [op : Ops \cup {None}, waits : Requests \cup {None}]
  /\ minted \subseteq Ops
  /\ moves \in 0..MaxMoves
  /\ faults \in 0..MaxFaults

TypeInv == Served /\ Stored /\ Outside

\* A row has an operation that made it, and the number its keys open.
Rooted ==
  \A o \in Ops : account[o] # None =>
    /\ ledger[o] # None
    /\ account[o].number = KeyNumber[account[o].key]

\* What was asked with an account's keys names an account that was created, and
\* pins the keys of the version it names.
Pinned ==
  \A r \in Requests :
    req[r].at \in Verifying \cup Refreshing =>
      /\ ledger[req[r].op] # None
      /\ account[req[r].op] # None =>
           /\ KeyNumber[req[r].key] = account[req[r].op].number
           /\ req[r].version <= account[req[r].op].version
           /\ req[r].version = account[req[r].op].version => req[r].key = account[req[r].op].key

RowInv == Rooted /\ Pinned /\ OneAccountPerBinding /\ CreatedIsWhatWasAsked

\* An account found revoked has revoked keys, and no verdict that says otherwise
\* can still be recorded.
Condemned ==
  \A o \in Ops : Live(o) /\ account[o].status = "auth_failed" =>
    /\ ~valid[account[o].key]
    /\ \A r \in Requests :
         ~(/\ req[r].op = o /\ req[r].token = "open" /\ req[r].at = "record"
           /\ req[r].answer = "connected" /\ req[r].version = account[o].version)

\* A request told that the broker rejects its keys has revoked keys.
HeardRevoked ==
  \A r \in Requests : req[r].at = "record" /\ req[r].answer = "auth_failed" => ~valid[req[r].key]

VerdictInv == Condemned /\ HeardRevoked

Revision(r, i) == broker[KeyNumber[req[r].key]][i].rev

\* A refresh saw at least what the broker had when it began; its generation was drawn.
SeenSinceBegun ==
  \A r \in Requests : req[r].at \in Refreshing =>
    /\ req[r].gen <= drawn
    /\ \A i \in Items :
         /\ req[r].begun[i] <= Revision(r, i)
         /\ req[r].seen[i] # 0 => req[r].begun[i] <= req[r].seen[i]

\* What a refresh of a later generation saw is as new as what one of an earlier
\* generation began with, published or not.
SeenInOrder ==
  \A r \in Requests : req[r].at \in Refreshing /\ account[req[r].op] # None =>
    \A i \in Items : req[r].seen[i] # 0 =>
      /\ published[req[r].op] < req[r].gen => floor[req[r].op][i] <= req[r].seen[i]
      /\ \A q \in Requests :
           req[q].at \in Refreshing /\ req[q].op = req[r].op /\ req[q].gen < req[r].gen =>
             req[q].begun[i] <= req[r].seen[i]

FloorReached ==
  \A o \in Ops, i \in Items :
    /\ ledger[o] = None => floor[o][i] = 0
    /\ account[o] # None => floor[o][i] <= broker[account[o].number][i].rev

MirrorInv == SeenSinceBegun /\ SeenInOrder /\ FloorReached /\ MirrorAsNewAsItsGeneration

AccountInv == TypeInv /\ RowInv /\ VerdictInv /\ MirrorInv

---------------------------------------------------------------------------
(* Types. *)

\* A request that moves on to a well-formed step and opens no token.
LEMMA RequestMoves ==
  ASSUME TypeInv, NEW r \in Requests, NEW q, WellFormed(q),
         q.token = "open" => req[r].token = "open" /\ req[r].op = q.op,
         req' = [req EXCEPT ![r] = q]
  PROVE  Served'
<1>1. req' \in [Requests -> Request]
  BY DEF TypeInv, Served, WellFormed
<1>2. \A p \in Requests : req'[p] = IF p = r THEN q ELSE req[p]
  BY DEF TypeInv, Served
<1>3. \A p \in Requests : WellFormed(req'[p])
  BY <1>2 DEF TypeInv, Served
<1>4. OneOpenToken'
  BY <1>2 DEF TypeInv, Served, OneOpenToken
<1> QED BY <1>1, <1>3, <1>4 DEF Served, WellFormed

\* A request that ends, or only moves its step.
LEMMA RequestEnds ==
  ASSUME TypeInv, NEW r \in Requests, NEW a \in Answers \ {"created", "connected"}, Ends(r, a)
  PROVE  Served'
<1> DEFINE q == [NoRequest EXCEPT !.at = "done", !.answer = a]
<1>1. WellFormed(q) /\ q.token = "none"
  BY DEF WellFormed, Request, NoRequest, Steps, Tokens, Answers, Serving, Verifying
<1> QED BY <1>1, RequestMoves DEF Ends

\* The answer of a creation reaches the client: the requests in service keep their types.
LEMMA RequestCreated ==
  ASSUME TypeInv, NEW r \in Requests, req[r].at \in Serving, AnswersCreated(r)
  PROVE  Served'
<1> DEFINE q == [NoRequest EXCEPT !.at = "done", !.answer = "created",
                                  !.op = req[r].op, !.key = req[r].key]
<1>0. WellFormed(req[r])
  BY DEF TypeInv, Served
<1>1. WellFormed(q) /\ q.token = "none"
  <2>1. req[r].op \in Ops /\ req[r].key \in Keys
    BY <1>0 DEF WellFormed
  <2>2. /\ q.at = "done" /\ q.answer = "created" /\ q.op = req[r].op /\ q.token = "none"
    BY DEF NoRequest
  <2>3. q \in Request
    BY <2>1 DEF Request, NoRequest, Steps, Tokens, Answers
  <2> HIDE DEF q
  <2> QED BY <2>1, <2>2, <2>3 DEF WellFormed, Serving, Verifying
<1> QED BY <1>1, RequestMoves DEF AnswersCreated

\* A request goes to a later step of its service: the requests in service keep their types.
LEMMA RequestGoes ==
  ASSUME TypeInv, NEW r \in Requests, NEW step \in Serving \ Verifying,
         req[r].at \in Serving \ Verifying, Goes(r, step)
  PROVE  Served'
<1> DEFINE q == [req[r] EXCEPT !.at = step]
<1>0. WellFormed(req[r])
  BY DEF TypeInv, Served
<1>1. WellFormed(q) /\ q.token = "none"
  BY <1>0 DEF WellFormed, Request, Tokens, Serving, Verifying
<1>2. req' = [req EXCEPT ![r] = q]
  BY DEF Goes
<1> QED BY <1>1, <1>2, RequestMoves

\* A request enters its service: the requests in service keep their types.
LEMMA RequestBegins ==
  ASSUME TypeInv, NEW r \in Requests, NEW q \in Request, q.at \in Serving \ {"record"},
         q.op \in Ops, q.key \in Keys, q.token = "none", q.answer = "none",
         req' = [req EXCEPT ![r] = q]
  PROVE  Served'
<1>1. WellFormed(q)
  BY DEF WellFormed, Serving
<1> QED BY <1>1, RequestMoves

\* The first step of a request leaves it waiting for its second.
LEMMA FirstSteps ==
  ASSUME TypeInv, NEW r \in Requests,
         Submit(r) \/ BeginVerification(r) \/ BeginRefresh(r) \/ BeginRotation(r)
  PROVE  req'[r].at \in {"resolve", "ask", "history", "check"}
<1>1. req \in [Requests -> Request]
  BY DEF TypeInv, Served
<1>2. CASE Submit(r)
  <2>1. PICK k \in Keys, o \in IF dialog.op = None THEN Ops \ minted ELSE {dialog.op} :
          req' = [req EXCEPT ![r] = [NoRequest EXCEPT !.at = "resolve", !.op = o, !.key = k]]
    BY <1>2 DEF Submit
  <2>2. [NoRequest EXCEPT !.at = "resolve", !.op = o, !.key = k].at = "resolve"
    BY DEF NoRequest
  <2> QED BY <1>1, <2>1, <2>2
<1>3. CASE BeginVerification(r)
  BY <1>1, <1>3 DEF BeginVerification, NoRequest
<1>4. CASE BeginRefresh(r)
  <2>1. PICK o \in Ops :
          req' = [req EXCEPT ![r] =
            [NoRequest EXCEPT !.at = "history", !.op = o, !.key = account[o].key,
               !.version = account[o].version, !.gen = drawn + 1,
               !.begun = Reported(account[o].number, Items)]]
    BY <1>4 DEF BeginRefresh
  <2> QED BY <1>1, <2>1 DEF NoRequest
<1>5. CASE BeginRotation(r)
  BY <1>1, <1>5 DEF BeginRotation, NoRequest
<1> QED BY <1>2, <1>3, <1>4, <1>5

\* The service's own requests change neither the keys nor the items at the broker.
LEMMA ServedOutside ==
  ASSUME NEW r \in Requests, Serve(r) PROVE UNCHANGED <<valid, broker>>
<1>1. CASE \/ Submit(r) \/ ResolveFirst(r) \/ ValidateNew(r) \/ CreateOperation(r) \/ CreateLost(r)
           \/ ConfirmOperation(r) \/ BeginVerification(r) \/ AskBroker(r)
  BY <1>1 DEF Submit, ResolveFirst, ValidateNew, ValidateKeys, CreateOperation, CreateLost,
     ConfirmOperation, BeginVerification, AskBroker, alpaca
<1>2. CASE \/ FinishVerification(r) \/ VerificationRefused(r) \/ BeginRefresh(r)
           \/ FetchHistory(r) \/ WalkActivities(r) \/ PublishRefresh(r)
  BY <1>2 DEF FinishVerification, VerificationRefused, BeginRefresh, FetchHistory,
     WalkActivities, Fetch, PublishRefresh, alpaca
<1>3. CASE \/ RefreshRefused(r) \/ BeginRotation(r) \/ ValidateRotated(r) \/ Rotate(r)
           \/ RotationRefused(r) \/ Dies(r)
  BY <1>3 DEF RefreshRefused, BeginRotation, ValidateRotated, ValidateKeys, Rotate,
     RotationRefused, Dies, alpaca
<1> QED BY <1>1, <1>2, <1>3 DEF Serve

\* Only a refresh that begins draws a generation, and only one that ends writes a mirror.
LEMMA ServedTables ==
  ASSUME NEW r \in Requests, Serve(r)
  PROVE  /\ ~BeginRefresh(r) => UNCHANGED drawn
         /\ ~PublishRefresh(r) => UNCHANGED <<floor, published, mirror>>
<1>1. CASE \/ Submit(r) \/ ResolveFirst(r) \/ ValidateNew(r) \/ CreateOperation(r) \/ CreateLost(r)
           \/ ConfirmOperation(r) \/ BeginVerification(r) \/ AskBroker(r)
  BY <1>1 DEF Submit, ResolveFirst, ValidateNew, ValidateKeys, CreateOperation, CreateLost,
     ConfirmOperation, BeginVerification, AskBroker, database
<1>2. CASE \/ FinishVerification(r) \/ VerificationRefused(r) \/ BeginRefresh(r)
           \/ FetchHistory(r) \/ WalkActivities(r) \/ PublishRefresh(r)
  BY <1>2 DEF FinishVerification, VerificationRefused, BeginRefresh, FetchHistory,
     WalkActivities, Fetch, PublishRefresh, database
<1>3. CASE \/ RefreshRefused(r) \/ BeginRotation(r) \/ ValidateRotated(r) \/ Rotate(r)
           \/ RotationRefused(r) \/ Dies(r)
  BY <1>3 DEF RefreshRefused, BeginRotation, ValidateRotated, ValidateKeys, Rotate,
     RotationRefused, Dies, database
<1> QED BY <1>1, <1>2, <1>3 DEF Serve

\* Accounts that exist before the first request have their types.
LEMMA TypeInit == Init => TypeInv
<1> SUFFICES ASSUME Init PROVE TypeInv
  OBVIOUS
<1>1. PICK k \in [Existing -> Keys] :
        /\ account = [o \in Ops |-> IF o \in Existing THEN Created(k[o]) ELSE None]
        /\ ledger = [o \in Ops |-> IF o \in Existing THEN [form |-> k[o], made |-> TRUE] ELSE None]
  BY DEF Init
<1>2. \A x \in Keys : Created(x) \in Row
  BY KeysAssumption DEF Created, Row
<1>3. account \in [Ops -> Row \cup {None}] /\ ledger \in [Ops -> Entry \cup {None}]
  BY <1>1, <1>2 DEF Entry
<1>4. Stored
  BY <1>3 DEF Stored, Init, NoItems
<1>5. Outside
  BY BoundsAssumption, ExistingAssumption DEF Outside, Init
<1>6. WellFormed(NoRequest) /\ NoRequest.token = "none"
  BY DEF WellFormed, Request, NoRequest, Steps, Tokens, Answers, Serving, Verifying
<1>7. Served
  BY <1>6 DEF Served, OneOpenToken, Init, WellFormed
<1> QED BY <1>4, <1>5, <1>7 DEF TypeInv

\* What the requests and the world leave alone.
LEMMA FaultType == ASSUME TypeInv, Fault PROVE faults' \in 0..MaxFaults
  BY BoundsAssumption DEF TypeInv, Outside, Fault

\* A step that writes no row keeps the types of the tables.
LEMMA StoredKept == ASSUME Stored, UNCHANGED database PROVE Stored'
  BY DEF Stored, database

\* A step away from the broker and the dialog keeps their types.
LEMMA OutsideKept ==
  ASSUME TypeInv, UNCHANGED <<alpaca, browser>>, UNCHANGED faults \/ Fault
  PROVE  Outside'
<1>1. faults' \in 0..MaxFaults
  BY FaultType DEF TypeInv, Outside
<1> QED BY <1>1 DEF TypeInv, Outside, alpaca, browser

\* A step of one request that touches nothing else.
LEMMA TypeLocal ==
  ASSUME TypeInv, UNCHANGED <<database, alpaca, browser>>, UNCHANGED faults \/ Fault, Served'
  PROVE  TypeInv'
<1>1. Stored'
  BY StoredKept DEF TypeInv
<1> QED BY <1>1, OutsideKept DEF TypeInv

\* Validating keys, for a creation or a rotation, keeps the types.
LEMMA ValidateType ==
  ASSUME TypeInv, NEW r \in Requests, NEW from \in {"validate", "check"},
         NEW next \in {"create", "rotate"}, ValidateKeys(r, from, next)
  PROVE  TypeInv'
<1>1. CASE Goes(r, next)
  <2>1. Served'
    BY <1>1, RequestGoes DEF ValidateKeys, Serving, Verifying, Steps
  <2> QED BY <2>1, TypeLocal DEF ValidateKeys
<1>2. CASE Ends(r, "refused")
  <2>1. Served'
    BY <1>2, RequestEnds DEF Answers
  <2> QED BY <2>1, TypeLocal DEF ValidateKeys
<1> QED BY <1>1, <1>2 DEF ValidateKeys

\* Fetching history, or walking to older pages, keeps the types.
LEMMA FetchType ==
  ASSUME TypeInv, NEW r \in Requests, NEW from \in {"history", "walk"}, NEW items \in SUBSET Items,
         NEW next \in {"walk", "publish"}, Fetch(r, from, items, next)
  PROVE  TypeInv'
<1>1. CASE Ends(r, "refused")
  <2>1. Served'
    BY <1>1, RequestEnds DEF Answers
  <2> QED BY <2>1, <1>1, TypeLocal DEF Fetch
<1>2. CASE ~Ends(r, "refused")
  <2> DEFINE seen == [i \in Items |-> IF i \in items
                        THEN Reported(KeyNumber[req[r].key], items)[i] ELSE req[r].seen[i]]
             q == [req[r] EXCEPT !.at = next, !.seen = seen]
  <2>0. WellFormed(req[r]) /\ req[r].at = from
    BY DEF TypeInv, Served, Fetch
  <2>1. KeyNumber[req[r].key] \in Numbers
    BY <2>0, KeysAssumption DEF WellFormed, Serving, Steps
  <2>2. seen \in [Items -> Nat]
    <3>1. \A i \in Items : broker[KeyNumber[req[r].key]][i].rev \in Nat
      BY <2>1 DEF TypeInv, Outside
    <3> QED BY <2>0, <3>1 DEF WellFormed, Request, Reported
  <2>3. WellFormed(q) /\ q.token = "none"
    <3> HIDE DEF seen
    <3> QED BY <2>0, <2>2 DEF WellFormed, Request, Serving, Verifying, Steps, Tokens
  <2>4. req' = [req EXCEPT ![r] = q]
    BY <1>2 DEF Fetch
  <2>5. Served'
    BY <2>3, <2>4, RequestMoves
  <2> QED BY <2>5, <1>2, TypeLocal DEF Fetch
<1> QED BY <1>1, <1>2

\* The types of rows are kept by what requests do to them.
LEMMA CreateType ==
  ASSUME TypeInv, NEW r \in Requests, CreateOperation(r)
  PROVE  TypeInv'
<1>0. WellFormed(req[r]) /\ req[r].at = "create" /\ req[r].op \in Ops /\ req[r].key \in Keys
  BY DEF TypeInv, Served, WellFormed, Serving, Steps, CreateOperation
<1>1. Created(req[r].key) \in Row
  BY <1>0, KeysAssumption DEF Created, Row
<1>2. account' \in [Ops -> Row \cup {None}] /\ ledger' \in [Ops -> Entry \cup {None}]
  <2>1. CASE UNCHANGED <<account, ledger>>
    BY <2>1 DEF TypeInv, Stored
  <2>2. CASE /\ account' = [account EXCEPT ![req[r].op] = Created(req[r].key)]
             /\ ledger' = [ledger EXCEPT ![req[r].op] = [form |-> req[r].key, made |-> TRUE]]
    <3>1. [form |-> req[r].key, made |-> TRUE] \in Entry
      BY <1>0 DEF Entry
    <3> QED BY <1>0, <1>1, <2>2, <3>1 DEF TypeInv, Stored
  <2> QED BY <2>1, <2>2 DEF CreateOperation
<1>5. Stored'
  BY <1>2 DEF CreateOperation, TypeInv, Stored
<1>3. Served'
  BY <1>0, RequestCreated, RequestGoes DEF CreateOperation, Serving, Verifying, Steps
<1>4. Outside'
  <2>1. UNCHANGED faults \/ Fault
    BY DEF CreateOperation
  <2> QED BY <2>1, OutsideKept DEF CreateOperation
<1> QED BY <1>3, <1>4, <1>5 DEF TypeInv

\* Opening a verification, with its token, keeps the types.
LEMMA BeginVerificationType ==
  ASSUME TypeInv, NEW r \in Requests, BeginVerification(r)
  PROVE  TypeInv'
<1>1. PICK o \in Ops :
        /\ Live(o)
        /\ verifying' = [verifying EXCEPT ![o] = @ + 1]
        /\ req' = [q \in Requests |->
             IF q = r
             THEN [NoRequest EXCEPT !.at = "ask", !.op = o, !.key = account[o].key,
                     !.version = account[o].version, !.gen = verifying[o] + 1,
                     !.token = "open"]
             ELSE IF OpenToken(q, o) THEN [req[q] EXCEPT !.token = "superseded"]
             ELSE req[q]]
  BY DEF BeginVerification
<1>2. account[o] \in Row /\ verifying[o] \in Nat
  BY <1>1 DEF TypeInv, Stored, Live
<1> DEFINE new == [NoRequest EXCEPT !.at = "ask", !.op = o, !.key = account[o].key,
                     !.version = account[o].version, !.gen = verifying[o] + 1,
                     !.token = "open"]
<1>3. WellFormed(new) /\ new.op = o
  <2>1. account[o].key \in Keys /\ account[o].version \in Nat /\ verifying[o] + 1 \in Nat
    BY <1>2 DEF Row
  <2> QED BY <2>1 DEF WellFormed, Request, NoRequest, Steps, Tokens, Answers, Serving, Verifying, Row
<1>4. ASSUME NEW q \in Requests, OpenToken(q, o)
      PROVE  WellFormed([req[q] EXCEPT !.token = "superseded"])
  <2> DEFINE s == [req[q] EXCEPT !.token = "superseded"]
  <2>1. WellFormed(req[q]) /\ req[q].token = "open"
    BY <1>4 DEF TypeInv, Served, OpenToken
  <2>2. /\ s.at = req[q].at /\ s.op = req[q].op /\ s.key = req[q].key
        /\ s.answer = req[q].answer /\ s \in Request
    BY <2>1 DEF WellFormed, Request, Tokens
  <2>3. req[q].at \in Verifying
    BY <2>1 DEF WellFormed
  <2> HIDE DEF s
  <2>4. WellFormed(s)
    BY <2>1, <2>2, <2>3 DEF WellFormed
  <2> QED BY <2>4 DEF s
<1>5. \A q \in Requests : WellFormed(req'[q])
  BY <1>1, <1>3, <1>4 DEF TypeInv, Served
<1>6. req' \in [Requests -> Request]
  BY <1>1, <1>5 DEF WellFormed
<1>7. ASSUME NEW q \in Requests, req'[q].token = "open", q # r
      PROVE  req'[q] = req[q] /\ req[q].op # o
  <2>1. req[q] \in Request
    BY DEF TypeInv, Served
  <2> QED BY <1>1, <1>7, <2>1 DEF OpenToken, Request
<1>8. req'[r].op = o
  BY <1>1, <1>3
<1>9. OneOpenToken'
  BY <1>7, <1>8 DEF OneOpenToken, TypeInv, Served
<1>10. Stored'
  BY <1>1, <1>2 DEF BeginVerification, TypeInv, Stored
<1>11. Outside'
  BY OutsideKept DEF BeginVerification
<1> QED BY <1>5, <1>6, <1>9, <1>10, <1>11 DEF TypeInv, Served

\* Beginning a refresh generation keeps the types.
LEMMA BeginRefreshType ==
  ASSUME TypeInv, NEW r \in Requests, BeginRefresh(r)
  PROVE  TypeInv'
<1>1. PICK o \in Ops :
        /\ Live(o)
        /\ drawn' = drawn + 1
        /\ req' = [req EXCEPT ![r] =
             [NoRequest EXCEPT !.at = "history", !.op = o, !.key = account[o].key,
                !.version = account[o].version, !.gen = drawn + 1,
                !.begun = Reported(account[o].number, Items)]]
  BY DEF BeginRefresh
<1>2. account[o] \in Row /\ drawn \in Nat
  BY <1>1 DEF TypeInv, Stored, Live
<1>3. Reported(account[o].number, Items) \in [Items -> Nat]
  BY <1>2 DEF Reported, Row, TypeInv, Outside
<1> DEFINE q == [NoRequest EXCEPT !.at = "history", !.op = o, !.key = account[o].key,
                !.version = account[o].version, !.gen = drawn + 1,
                !.begun = Reported(account[o].number, Items)]
<1>4. /\ q \in Request /\ q.at \in Serving \ {"record"} /\ q.op \in Ops /\ q.key \in Keys
      /\ q.token = "none" /\ q.answer = "none"
  <2>1. account[o].key \in Keys /\ account[o].version \in Nat /\ drawn + 1 \in Nat
    BY <1>2 DEF Row
  <2> QED BY <1>3, <2>1 DEF Request, NoRequest, Steps, Tokens, Answers, Serving
<1>5. Served'
  <2> HIDE DEF q
  <2> QED BY <1>1, <1>4, RequestBegins DEF q
<1>6. Stored'
  BY <1>1, <1>2 DEF BeginRefresh, TypeInv, Stored
<1>7. Outside'
  BY OutsideKept DEF BeginRefresh
<1> QED BY <1>5, <1>6, <1>7 DEF TypeInv

\* Finishing a verification keeps the types.
LEMMA FinishType ==
  ASSUME TypeInv, NEW r \in Requests, FinishVerification(r)
  PROVE  TypeInv'
<1>1. WellFormed(req[r]) /\ req[r].op \in Ops /\ req[r].answer \in {"connected", "auth_failed"}
  BY DEF TypeInv, Served, WellFormed, Serving, Steps, FinishVerification
<1>2. account[req[r].op] \in Row
  BY <1>1 DEF FinishVerification, MayRecord, Live, TypeInv, Stored
<1>3. [account[req[r].op] EXCEPT !.status = req[r].answer] \in Row
  BY <1>1, <1>2 DEF Row
<1>4. Stored'
  <2>1. account' = [account EXCEPT ![req[r].op] = [account[req[r].op] EXCEPT !.status = req[r].answer]]
    BY DEF FinishVerification
  <2>2. account' \in [Ops -> Row \cup {None}]
    BY <1>3, <2>1 DEF TypeInv, Stored
  <2> QED BY <2>2 DEF FinishVerification, TypeInv, Stored
<1>5. Served'
  BY RequestEnds DEF FinishVerification, Answers
<1>6. Outside'
  BY OutsideKept DEF FinishVerification
<1> QED BY <1>4, <1>5, <1>6 DEF TypeInv

\* Rotating the credentials of an account keeps the types.
LEMMA RotateType ==
  ASSUME TypeInv, NEW r \in Requests, Rotate(r)
  PROVE  TypeInv'
<1>1. WellFormed(req[r]) /\ req[r].op \in Ops /\ req[r].key \in Keys
  BY DEF TypeInv, Served, WellFormed, Serving, Steps, Rotate
<1>2. account[req[r].op] \in Row
  BY <1>1 DEF Rotate, MayRotate, Live, TypeInv, Stored
<1> DEFINE row == [account[req[r].op] EXCEPT !.key = req[r].key, !.version = @ + 1,
                                             !.status = "connected"]
<1>3. row \in Row
  <2>1. account[req[r].op].version + 1 \in Nat
    BY <1>2 DEF Row
  <2> QED BY <1>1, <1>2, <2>1 DEF Row
<1>4. account' = [account EXCEPT ![req[r].op] = row]
  BY DEF Rotate
<1>5. Stored'
  <2> HIDE DEF row
  <2> QED BY <1>1, <1>3, <1>4 DEF Rotate, TypeInv, Stored
<1>6. Served'
  BY RequestEnds DEF Rotate, Answers
<1>7. Outside'
  BY OutsideKept DEF Rotate
<1> QED BY <1>5, <1>6, <1>7 DEF TypeInv

\* Publishing a refresh keeps the types.
LEMMA PublishType ==
  ASSUME TypeInv, NEW r \in Requests, PublishRefresh(r)
  PROVE  TypeInv'
<1>1. WellFormed(req[r]) /\ req[r].op \in Ops /\ req[r] \in Request
  BY DEF TypeInv, Served, WellFormed, Serving, Steps, PublishRefresh
<1>2. Upserted(r) \in [Items -> Nat] /\ Later(floor[req[r].op], req[r].begun) \in [Items -> Nat]
  BY <1>1 DEF Upserted, Later, TypeInv, Stored, Request
<1>3. req[r].gen \in Nat
  BY <1>1 DEF Request
<1>4. Stored'
  <2>1. mirror' \in [Ops -> [Items -> Nat]] /\ floor' \in [Ops -> [Items -> Nat]]
    BY <1>1, <1>2 DEF PublishRefresh, TypeInv, Stored
  <2>2. published' \in [Ops -> Nat]
    BY <1>1, <1>3 DEF PublishRefresh, TypeInv, Stored
  <2> QED BY <2>1, <2>2 DEF PublishRefresh, TypeInv, Stored
<1>5. Served'
  BY RequestEnds DEF PublishRefresh, Answers
<1>6. Outside'
  BY OutsideKept DEF PublishRefresh
<1> QED BY <1>4, <1>5, <1>6 DEF TypeInv

\* Deleting an account, with all the rows that hang from it, keeps the types.
LEMMA DeleteType ==
  ASSUME TypeInv, Rooted, Delete
  PROVE  TypeInv'
<1>1. PICK o \in Ops :
       /\ Live(o)
       /\ \/ /\ account' = [account EXCEPT ![o].deleted = TRUE, ![o].status = "paused",
                                           ![o].version = @ + 1]
             /\ UNCHANGED <<ledger, mirror, published, verifying, floor>>
          \/ /\ account' = [account EXCEPT ![o] = None]
             /\ ledger' = [ledger EXCEPT ![o].made = FALSE]
             /\ mirror' = [mirror EXCEPT ![o] = NoItems]
             /\ UNCHANGED floor
             /\ published' = [published EXCEPT ![o] = 0]
             /\ verifying' = [verifying EXCEPT ![o] = 0]
  BY DEF Delete
<1>2. account[o] \in Row /\ ledger[o] \in Entry
  BY <1>1 DEF Live, Rooted, TypeInv, Stored
<1>3. Stored'
  <2>1. CASE UNCHANGED <<ledger, mirror, published, verifying, floor>>
    <3> DEFINE row == [account[o] EXCEPT !.deleted = TRUE, !.status = "paused", !.version = @ + 1]
    <3>1. row \in Row
      <4>1. account[o].version + 1 \in Nat
        BY <1>2 DEF Row
      <4> QED BY <1>2, <4>1 DEF Row
    <3>2. CASE account' = [account EXCEPT ![o].deleted = TRUE, ![o].status = "paused",
                                           ![o].version = @ + 1]
      <4>1. account' = [account EXCEPT ![o] = row]
        BY <3>2 DEF TypeInv, Stored
      <4>2. account' \in [Ops -> Row \cup {None}]
        <5> HIDE DEF row
        <5> QED BY <3>1, <4>1 DEF TypeInv, Stored
      <4> QED BY <2>1, <4>2 DEF Delete, TypeInv, Stored
    <3>3. CASE account' = [account EXCEPT ![o] = None]
      BY <2>1, <3>3 DEF Delete, TypeInv, Stored
    <3> QED BY <1>1, <3>2, <3>3
  <2>2. CASE ~UNCHANGED <<ledger, mirror, published, verifying, floor>>
    <3>1. /\ account' = [account EXCEPT ![o] = None]
          /\ ledger' = [ledger EXCEPT ![o].made = FALSE]
          /\ mirror' = [mirror EXCEPT ![o] = NoItems]
          /\ UNCHANGED floor
          /\ published' = [published EXCEPT ![o] = 0]
          /\ verifying' = [verifying EXCEPT ![o] = 0]
      BY <1>1, <2>2
    <3>2. [ledger[o] EXCEPT !.made = FALSE] \in Entry /\ NoItems \in [Items -> Nat]
      BY <1>2 DEF Entry, NoItems
    <3>3. ledger' \in [Ops -> Entry \cup {None}] /\ mirror' \in [Ops -> [Items -> Nat]]
      BY <3>1, <3>2 DEF TypeInv, Stored
    <3> QED BY <3>1, <3>3 DEF Delete, TypeInv, Stored
  <2> QED BY <2>1, <2>2
<1>4. Served'
  BY DEF Delete, TypeInv, Served, OneOpenToken
<1>5. Outside'
  BY OutsideKept DEF Delete
<1> QED BY <1>3, <1>4, <1>5 DEF TypeInv

\* Steps that write nothing but the request keep the types.
LEMMA LocalType ==
  ASSUME TypeInv, NEW r \in Requests,
         \/ Submit(r) \/ ResolveFirst(r) \/ CreateLost(r) \/ ConfirmOperation(r) \/ AskBroker(r)
         \/ VerificationRefused(r) \/ RefreshRefused(r) \/ BeginRotation(r) \/ RotationRefused(r)
         \/ Dies(r)
  PROVE  TypeInv'
<1>0. WellFormed(req[r])
  BY DEF TypeInv, Served
<1>1. CASE Submit(r)
  <2>1. PICK k \in Keys, o \in Ops :
          /\ req' = [req EXCEPT ![r] = [NoRequest EXCEPT !.at = "resolve", !.op = o, !.key = k]]
          /\ dialog' = [op |-> o, waits |-> r]
          /\ minted' = minted \cup {o}
    BY <1>1 DEF Submit, TypeInv, Outside
  <2>2. [NoRequest EXCEPT !.at = "resolve", !.op = o, !.key = k] \in Request
    BY DEF Request, NoRequest, Steps, Tokens, Answers
  <2>3. Served'
    BY <2>1, <2>2, RequestBegins DEF NoRequest, Serving, Steps
  <2>4. Outside'
    BY <1>1, <2>1 DEF Submit, TypeInv, Outside, alpaca
  <2> QED BY <1>1, <2>3, <2>4, StoredKept DEF Submit, TypeInv
<1>2. CASE BeginRotation(r)
  <2>1. PICK k \in Keys, o \in Ops :
          req' = [req EXCEPT ![r] = [NoRequest EXCEPT !.at = "check", !.op = o, !.key = k]]
    BY <1>2 DEF BeginRotation
  <2>2. [NoRequest EXCEPT !.at = "check", !.op = o, !.key = k] \in Request
    BY DEF Request, NoRequest, Steps, Tokens, Answers
  <2>3. Served'
    BY <2>1, <2>2, RequestBegins DEF NoRequest, Serving, Steps
  <2> QED BY <1>2, <2>3, TypeLocal DEF BeginRotation
<1>3. CASE AskBroker(r)
  <2>1. CASE Ends(r, "refused")
    <3>1. Served'
      BY <2>1, RequestEnds DEF Answers
    <3> QED BY <1>3, <3>1, <2>1, TypeLocal DEF AskBroker
  <2>2. CASE ~Ends(r, "refused")
    <3> DEFINE a == IF valid[req[r].key] THEN "connected" ELSE "auth_failed"
               q == [req[r] EXCEPT !.at = "record", !.answer = a]
    <3>1. req' = [req EXCEPT ![r] = q] /\ req[r].at = "ask"
      BY <1>3, <2>2 DEF AskBroker, TypeInv, Served
    <3>2. a \in {"connected", "auth_failed"}
      OBVIOUS
    <3>3. WellFormed(q) /\ q.token = req[r].token /\ q.op = req[r].op
      <4> HIDE DEF a
      <4> QED BY <1>0, <3>1, <3>2 DEF WellFormed, Request, Steps, Answers, Serving, Verifying
    <3>4. Served'
      <4> HIDE DEF q
      <4> QED BY <3>1, <3>3, RequestMoves
    <3> QED BY <1>3, <2>2, <3>4, TypeLocal DEF AskBroker
  <2> QED BY <2>1, <2>2
<1>4. CASE ResolveFirst(r) \/ CreateLost(r) \/ ConfirmOperation(r)
  <2>1. /\ req[r].at \in Serving \ Verifying
        /\ \/ \E a \in Answers \ {"created", "connected"} : Ends(r, a)
           \/ AnswersCreated(r)
           \/ \E step \in Serving \ Verifying : Goes(r, step)
        /\ UNCHANGED <<database, alpaca, browser>>
        /\ UNCHANGED faults \/ Fault
    <3>1. CASE ResolveFirst(r)
      BY <3>1 DEF ResolveFirst, Serving, Verifying, Answers, Steps
    <3>2. CASE CreateLost(r)
      BY <3>2 DEF CreateLost, Serving, Verifying, Answers, Steps
    <3>3. CASE ConfirmOperation(r)
      BY <3>3 DEF ConfirmOperation, Serving, Verifying, Answers, Steps
    <3> QED BY <1>4, <3>1, <3>2, <3>3
  <2>2. Served'
    BY <2>1, RequestEnds, RequestCreated, RequestGoes
  <2> QED BY <2>1, <2>2, TypeLocal
<1>5. CASE VerificationRefused(r) \/ RefreshRefused(r) \/ RotationRefused(r) \/ Dies(r)
  <2>1. /\ Ends(r, "refused") /\ UNCHANGED <<database, alpaca, browser>>
        /\ UNCHANGED faults \/ Fault
    BY <1>5 DEF VerificationRefused, RefreshRefused, RotationRefused, Dies
  <2>2. Served'
    BY <2>1, RequestEnds DEF Answers
  <2> QED BY <2>1, <2>2, TypeLocal
<1> QED BY <1>1, <1>2, <1>3, <1>4, <1>5

\* Steps of the network, the dialog and the broker keep the types.
LEMMA WorldType ==
  ASSUME TypeInv,
         \/ NetworkError \/ CloseDialog \/ AnswerArrives \/ RevokeKey \/ BrokerMoves \/ Retract
         \/ UNCHANGED vars
  PROVE  TypeInv'
<1>1. UNCHANGED req /\ (Retract \/ UNCHANGED database)
  BY DEF NetworkError, CloseDialog, AnswerArrives, RevokeKey, BrokerMoves, Retract, vars
<1>2. Served'
  BY <1>1 DEF TypeInv, Served, OneOpenToken
<1>3. Stored'
  <2>1. CASE Retract
    <3>1. PICK o \in Ops, i \in Items : mirror' = [mirror EXCEPT ![o][i] = 0]
      BY <2>1 DEF Retract
    <3>2. mirror' \in [Ops -> [Items -> Nat]]
      BY <3>1 DEF TypeInv, Stored
    <3> QED BY <2>1, <3>2 DEF Retract, TypeInv, Stored
  <2> QED BY <1>1, <2>1, StoredKept DEF TypeInv
<1>4. Outside'
  <2> USE DEF TypeInv, Outside, alpaca, browser
  <2>1. CASE NetworkError
    BY <2>1, FaultType DEF NetworkError
  <2>2. CASE CloseDialog
    BY <2>2 DEF CloseDialog
  <2>3. CASE AnswerArrives
    BY <2>3 DEF AnswerArrives
  <2>4. CASE RevokeKey
    BY <2>4, BoundsAssumption DEF RevokeKey, Move
  <2>5. CASE BrokerMoves
    <3>1. PICK n \in Numbers, i \in Items, s \in BOOLEAN :
            broker' = [broker EXCEPT ![n][i] = [rev |-> @.rev + 1, shown |-> s]]
      BY <2>5 DEF BrokerMoves
    <3>2. [rev |-> broker[n][i].rev + 1, shown |-> s] \in [rev : Nat, shown : BOOLEAN]
      OBVIOUS
    <3>3. broker' \in [Numbers -> [Items -> [rev : Nat, shown : BOOLEAN]]]
      BY <3>1, <3>2
    <3> QED BY <2>5, <3>3, BoundsAssumption DEF BrokerMoves, Move
  <2>6. CASE Retract
    BY <2>6 DEF Retract
  <2>7. CASE UNCHANGED vars
    BY <2>7 DEF vars
  <2> QED BY <2>1, <2>2, <2>3, <2>4, <2>5, <2>6, <2>7
<1> QED BY <1>2, <1>3, <1>4 DEF TypeInv

\* Every action keeps the types.
LEMMA TypeStep == TypeInv /\ Rooted /\ [Next]_vars => TypeInv'
<1> SUFFICES ASSUME TypeInv, Rooted, [Next]_vars PROVE TypeInv'
  OBVIOUS
<1>1. ASSUME NEW r \in Requests, Serve(r) PROVE TypeInv'
  <2>1. CASE ValidateNew(r) \/ ValidateRotated(r)
    BY <2>1, ValidateType DEF ValidateNew, ValidateRotated
  <2>2. CASE FetchHistory(r) \/ WalkActivities(r)
    BY <2>2, FetchType DEF FetchHistory, WalkActivities, Items
  <2> QED BY <1>1, <2>1, <2>2, LocalType, CreateType, BeginVerificationType, FinishType,
             BeginRefreshType, PublishType, RotateType DEF Serve
<1> QED BY <1>1, WorldType, DeleteType DEF Next

---------------------------------------------------------------------------
(* Rows, requests and keys. *)

\* What no step undoes: an operation stays spent and keeps its form; a row that
\* exists did not come back, keeps its number, and changes its keys, or is marked
\* deleted, only with its version.
RowsMove ==
  \A o \in Ops :
    /\ ledger[o] # None => ledger'[o] # None /\ ledger'[o].form = ledger[o].form
    /\ ledger[o] # None /\ account'[o] # None =>
         /\ account[o] # None
         /\ account'[o].number = account[o].number
         /\ account[o].version <= account'[o].version
         /\ account[o].version = account'[o].version =>
              account'[o].key = account[o].key /\ (account[o].deleted => account'[o].deleted)

\* Rows only appear for requests that asked, move within their own account, or go with it.
LEMMA RowsStep ==
  TypeInv /\ Rooted /\ [Next]_vars =>
    RowsMove /\ Rooted' /\ (OneAccountPerBinding => OneAccountPerBinding')
<1> SUFFICES ASSUME TypeInv, Rooted, [Next]_vars
             PROVE  RowsMove /\ Rooted' /\ (OneAccountPerBinding => OneAccountPerBinding')
  OBVIOUS
<1> USE DEF TypeInv, Stored
<1>0. \A o \in Ops : account[o] # None => account[o] \in Row /\ ledger[o] \in Entry
  BY DEF Rooted
<1>1. CASE UNCHANGED <<account, ledger>>
  BY <1>0, <1>1 DEF RowsMove, Rooted, OneAccountPerBinding, Live, Row
<1>2. ASSUME NEW r \in Requests, CreateOperation(r), ~UNCHANGED <<account, ledger>>
      PROVE  RowsMove /\ Rooted' /\ (OneAccountPerBinding => OneAccountPerBinding')
  <2> DEFINE o == req[r].op  k == req[r].key
  <2>1. /\ o \in Ops /\ k \in Keys /\ ledger[o] = None /\ ~Bound(KeyNumber[k])
        /\ account' = [account EXCEPT ![o] = Created(k)]
        /\ ledger' = [ledger EXCEPT ![o] = [form |-> k, made |-> TRUE]]
    BY <1>2 DEF CreateOperation, Served, WellFormed, Serving, Steps
  <2>2. [form |-> k, made |-> TRUE] \in Entry
    BY <2>1 DEF Entry
  <2>3. [form |-> k, made |-> TRUE] # None
    BY <2>2, NoneAssumption DEF Entry
  <2>4. RowsMove
    <3>1. ASSUME NEW p \in Ops, ledger[p] # None
          PROVE  ledger'[p] = ledger[p] /\ account'[p] = account[p]
      BY <2>1, <3>1
    <3> QED BY <3>1, <1>0 DEF RowsMove, Row
  <2>5. Rooted'
    BY <2>1, <2>3 DEF Rooted, Created
  <2>6. OneAccountPerBinding => OneAccountPerBinding'
    BY <2>1 DEF OneAccountPerBinding, Live, Bound, Created
  <2> QED BY <2>4, <2>5, <2>6
<1>3. ASSUME NEW r \in Requests, FinishVerification(r) \/ Rotate(r)
      PROVE  RowsMove /\ Rooted' /\ (OneAccountPerBinding => OneAccountPerBinding')
  <2>0. req[r].op \in Ops /\ req[r].key \in Keys
    BY <1>3 DEF FinishVerification, Rotate, Served, WellFormed, Serving, Steps
  <2>1. PICK o \in Ops : o = req[r].op
    BY <2>0
  <2>2. Live(o) /\ ledger' = ledger /\ account[o] \in Row
    BY <1>0, <1>3, <2>1 DEF FinishVerification, Rotate, MayRecord, MayRotate, Live
  <2>3. \A p \in Ops \ {o} : account'[p] = account[p]
    BY <1>3, <2>1 DEF FinishVerification, Rotate
  <2>4. /\ account'[o].number = account[o].number
        /\ account'[o].number = KeyNumber[account'[o].key]
        /\ account[o].version <= account'[o].version
        /\ account[o].version = account'[o].version => account'[o].key = account[o].key
    <3>1. CASE FinishVerification(r)
      <4>1. account'[o] = [account[o] EXCEPT !.status = req[r].answer]
        BY <2>1, <3>1 DEF FinishVerification
      <4>2. account[o].number = KeyNumber[account[o].key]
        BY <2>1, <2>2 DEF Rooted, Live
      <4> QED BY <2>2, <4>1, <4>2 DEF Row
    <3>2. CASE Rotate(r)
      <4>1. account'[o] = [account[o] EXCEPT !.key = req[r].key, !.version = @ + 1,
                                             !.status = "connected"]
        BY <2>1, <3>2 DEF Rotate
      <4>2. KeyNumber[req[r].key] = account[o].number
        BY <2>1, <3>2 DEF Rotate, MayRotate
      <4> QED BY <2>0, <2>2, <4>1, <4>2 DEF Row
    <3> QED BY <1>3, <3>1, <3>2
  <2>5. account[o].version \in Nat /\ account[o] # None
    BY <2>2 DEF Row, Live
  <2>9. ~account[o].deleted
    BY <2>2 DEF Live
  <2>6. RowsMove
    <3> SUFFICES ASSUME NEW p \in Ops, account[p] # None, account'[p] # None
                 PROVE  /\ account'[p].number = account[p].number
                        /\ account[p].version <= account'[p].version
                        /\ account[p].version = account'[p].version =>
                             /\ account'[p].key = account[p].key
                             /\ account[p].deleted => account'[p].deleted
      BY <2>2, <2>3, <2>5 DEF RowsMove
    <3>1. CASE p = o
      BY <2>4, <2>9, <3>1
    <3>2. CASE p # o
      BY <1>0, <2>3, <3>2 DEF Row
    <3> QED BY <3>1, <3>2
  <2>7. Rooted'
    <3> SUFFICES ASSUME NEW p \in Ops, account'[p] # None
                 PROVE  ledger[p] # None /\ account'[p].number = KeyNumber[account'[p].key]
      BY <2>2 DEF Rooted
    <3> QED BY <2>3, <2>4, <2>5 DEF Rooted
  <2>8. OneAccountPerBinding => OneAccountPerBinding'
    <3> SUFFICES ASSUME OneAccountPerBinding, NEW p \in Ops, NEW q \in Ops, Live(p)', Live(q)',
                        account'[p].number = account'[q].number
                 PROVE  p = q
      BY DEF OneAccountPerBinding, Live
    <3>1. Live(p) /\ Live(q)
      BY <2>2, <2>3 DEF Live
    <3>2. account[p].number = account[q].number
      BY <2>3, <2>4
    <3> QED BY <3>1, <3>2 DEF OneAccountPerBinding
  <2> QED BY <2>6, <2>7, <2>8
<1>4. CASE Delete
  <2>1. PICK o \in Ops :
       /\ Live(o)
       /\ \/ /\ account' = [account EXCEPT ![o].deleted = TRUE, ![o].status = "paused",
                                           ![o].version = @ + 1]
             /\ ledger' = ledger
          \/ /\ account' = [account EXCEPT ![o] = None]
             /\ ledger' = [ledger EXCEPT ![o].made = FALSE]
    BY <1>4 DEF Delete
  <2>2. account[o] \in Row /\ account[o].version \in Nat /\ ledger[o] \in Entry
    BY <1>0, <2>1 DEF Live, Row
  <2>3. \A p \in Ops \ {o} : account'[p] = account[p] /\ ledger'[p] = ledger[p]
    BY <2>1
  <2>4. ledger'[o] # None /\ ledger'[o].form = ledger[o].form
    <3>1. ledger'[o] \in Entry /\ ledger'[o].form = ledger[o].form
      <4>1. [ledger[o] EXCEPT !.made = FALSE] \in Entry
        BY <2>2 DEF Entry
      <4> QED BY <2>1, <2>2, <4>1 DEF Entry
    <3> QED BY <3>1, NoneAssumption DEF Entry
  <2>5. \/ account'[o] = None
        \/ /\ account'[o].number = account[o].number /\ account'[o].key = account[o].key
           /\ account[o].version <= account'[o].version
           /\ account[o].version # account'[o].version /\ account'[o].deleted
    BY <2>1, <2>2 DEF Row
  <2>6. account[o] # None
    BY <2>1 DEF Live
  <2>7. RowsMove
    <3> SUFFICES ASSUME NEW p \in Ops, account[p] # None, account'[p] # None
                 PROVE  /\ account'[p].number = account[p].number
                        /\ account[p].version <= account'[p].version
                        /\ account[p].version = account'[p].version =>
                             /\ account'[p].key = account[p].key
                             /\ account[p].deleted => account'[p].deleted
      BY <2>3, <2>4, <2>6 DEF RowsMove
    <3>1. CASE p = o
      BY <2>5, <3>1
    <3>2. CASE p # o
      BY <1>0, <2>3, <3>2 DEF Row
    <3> QED BY <3>1, <3>2
  <2>8. Rooted'
    BY <2>3, <2>4, <2>5, <2>6 DEF Rooted
  <2>9. OneAccountPerBinding => OneAccountPerBinding'
    <3> SUFFICES ASSUME OneAccountPerBinding, NEW p \in Ops, NEW q \in Ops, Live(p)', Live(q)',
                        account'[p].number = account'[q].number
                 PROVE  p = q
      BY DEF OneAccountPerBinding, Live
    <3>1. p # o /\ q # o
      BY <2>5 DEF Live
    <3>2. Live(p) /\ Live(q) /\ account[p].number = account[q].number
      BY <2>3, <3>1 DEF Live
    <3> QED BY <3>2 DEF OneAccountPerBinding
  <2> QED BY <2>7, <2>8, <2>9
<1>5. ASSUME NEW r \in Requests, Serve(r)
      PROVE  RowsMove /\ Rooted' /\ (OneAccountPerBinding => OneAccountPerBinding')
  <2>1. CASE CreateOperation(r) \/ FinishVerification(r) \/ Rotate(r)
    BY <1>1, <1>2, <1>3, <2>1
  <2>2. CASE ~(CreateOperation(r) \/ FinishVerification(r) \/ Rotate(r))
    <3>1. UNCHANGED <<account, ledger>>
      BY <1>5, <2>2 DEF Serve, Submit, ResolveFirst, ValidateNew, CreateLost, ConfirmOperation,
        BeginVerification, AskBroker, VerificationRefused, BeginRefresh, FetchHistory,
        WalkActivities, PublishRefresh, RefreshRefused, BeginRotation, ValidateRotated,
        RotationRefused, Dies, ValidateKeys, Fetch, database
    <3> QED BY <1>1, <3>1
  <2> QED BY <2>1, <2>2
<1>6. CASE NetworkError \/ CloseDialog \/ AnswerArrives \/ RevokeKey \/ BrokerMoves \/ Retract
           \/ UNCHANGED vars
  <2>1. UNCHANGED <<account, ledger>>
    BY <1>6 DEF NetworkError, CloseDialog, AnswerArrives, RevokeKey, BrokerMoves, Retract, vars,
                database
  <2> QED BY <1>1, <2>1
<1> QED BY <1>4, <1>5, <1>6 DEF Next

\* A request that has asked for an account's keys came from such a request, or has
\* just read the row.
Asks(r) == req[r].at \in Verifying \cup Refreshing
GoesOn(r) ==
  /\ Asks(r)
  /\ req'[r].op = req[r].op /\ req'[r].key = req[r].key /\ req'[r].version = req[r].version
ReadsRow(r) ==
  /\ Live(req'[r].op) /\ UNCHANGED <<account, ledger>>
  /\ req'[r].key = account[req'[r].op].key /\ req'[r].version = account[req'[r].op].version

\* A request whose service ends is not the one still being served.
LEMMA Ended ==
  ASSUME TypeInv, NEW r \in Requests, NEW p \in Requests, NEW a, Ends(p, a) \/ AnswersCreated(p), Asks(r)'
  PROVE  r # p /\ req'[r] = req[r]
<1>1. req'[p].at = "done"
  BY DEF Ends, AnswersCreated, NoRequest, TypeInv, Served
<1> QED BY <1>1 DEF Asks, Verifying, Refreshing, Ends, AnswersCreated, TypeInv, Served

\* The steps of a request that neither verifies nor refreshes.
LEMMA OtherRequests ==
  ASSUME TypeInv, NEW p \in Requests, NEW r \in Requests, Asks(r)',
         \/ Submit(p) \/ ResolveFirst(p) \/ ValidateNew(p) \/ CreateOperation(p) \/ CreateLost(p)
         \/ ConfirmOperation(p) \/ VerificationRefused(p) \/ FinishVerification(p)
         \/ PublishRefresh(p) \/ RefreshRefused(p)
         \/ BeginRotation(p) \/ ValidateRotated(p) \/ Rotate(p) \/ RotationRefused(p) \/ Dies(p)
  PROVE  r # p /\ req'[r] = req[r]
<1> USE DEF TypeInv, Served
<1>1. CASE \E a \in Answers : Ends(p, a) \/ AnswersCreated(p)
  BY <1>1, Ended
<1>2. CASE \E step \in {"validate", "confirm", "create", "rotate"} : Goes(p, step)
  <2>1. req'[p].at \notin Verifying \cup Refreshing
    BY <1>2 DEF Goes, Verifying, Refreshing, Request
  <2> QED BY <1>2, <2>1 DEF Goes, Asks
<1>3. CASE \E k \in Keys, o \in Ops, step \in {"resolve", "check"} :
             req' = [req EXCEPT ![p] = [NoRequest EXCEPT !.at = step, !.op = o, !.key = k]]
  <2>1. req'[p].at \notin Verifying \cup Refreshing
    BY <1>3 DEF NoRequest, Verifying, Refreshing
  <2> QED BY <1>3, <2>1 DEF Asks
<1>4. CASE ResolveFirst(p) \/ CreateOperation(p) \/ CreateLost(p) \/ ConfirmOperation(p)
  BY <1>1, <1>2, <1>4 DEF ResolveFirst, CreateOperation, CreateLost, ConfirmOperation, Answers
<1>5. CASE ValidateNew(p) \/ ValidateRotated(p)
  BY <1>1, <1>2, <1>5 DEF ValidateNew, ValidateRotated, ValidateKeys, Answers
<1>6. CASE VerificationRefused(p) \/ FinishVerification(p) \/ PublishRefresh(p)
           \/ RefreshRefused(p) \/ Rotate(p) \/ RotationRefused(p) \/ Dies(p)
  BY <1>1, <1>6 DEF VerificationRefused, FinishVerification, PublishRefresh, RefreshRefused,
     Rotate, RotationRefused, Dies, Answers
<1>7. CASE Submit(p)
  <2>1. PICK k \in Keys, o \in Ops :
          req' = [req EXCEPT ![p] = [NoRequest EXCEPT !.at = "resolve", !.op = o, !.key = k]]
    BY <1>7 DEF Submit, Outside
  <2> QED BY <1>3, <2>1
<1>8. CASE BeginRotation(p)
  <2>1. PICK k \in Keys, o \in Ops :
          req' = [req EXCEPT ![p] = [NoRequest EXCEPT !.at = "check", !.op = o, !.key = k]]
    BY <1>8 DEF BeginRotation
  <2> QED BY <1>3, <2>1
<1> QED BY <1>4, <1>5, <1>6, <1>7, <1>8

\* A request in service either goes on with what it read, or has just read a row.
LEMMA RequestStep ==
  ASSUME TypeInv, [Next]_vars, NEW r \in Requests, Asks(r)'
  PROVE  GoesOn(r) \/ ReadsRow(r)
<1> USE DEF TypeInv, Served
<1>0. WellFormed(req[r]) /\ req[r] \in Request
  OBVIOUS
<1>1. CASE UNCHANGED req
  BY <1>1 DEF GoesOn, Asks
<1>2. ASSUME NEW p \in Requests, Serve(p)
      PROVE  GoesOn(r) \/ ReadsRow(r)
  <2>1. CASE r # p /\ req'[r] = req[r]
    BY <2>1 DEF GoesOn, Asks
  <2>2. CASE BeginVerification(p)
    <3>1. PICK o \in Ops :
        /\ Live(o)
        /\ req' = [q \in Requests |->
             IF q = p
             THEN [NoRequest EXCEPT !.at = "ask", !.op = o, !.key = account[o].key,
                     !.version = account[o].version, !.gen = verifying[o] + 1,
                     !.token = "open"]
             ELSE IF OpenToken(q, o) THEN [req[q] EXCEPT !.token = "superseded"]
             ELSE req[q]]
      BY <2>2 DEF BeginVerification
    <3>2. CASE r = p
      BY <2>2, <3>1, <3>2 DEF BeginVerification, ReadsRow, NoRequest
    <3>3. CASE r # p
      BY <1>0, <3>1, <3>3 DEF GoesOn, Asks, Request
    <3> QED BY <3>2, <3>3
  <2>3. CASE BeginRefresh(p)
    <3>1. PICK o \in Ops :
        /\ Live(o)
        /\ req' = [req EXCEPT ![p] =
             [NoRequest EXCEPT !.at = "history", !.op = o, !.key = account[o].key,
                !.version = account[o].version, !.gen = drawn + 1,
                !.begun = Reported(account[o].number, Items)]]
      BY <2>3 DEF BeginRefresh
    <3>2. CASE r = p
      BY <2>3, <3>1, <3>2 DEF BeginRefresh, ReadsRow, NoRequest
    <3>3. CASE r # p
      BY <3>1, <3>3 DEF GoesOn, Asks
    <3> QED BY <3>2, <3>3
  <2>4. CASE AskBroker(p) \/ FetchHistory(p) \/ WalkActivities(p)
    <3>1. Asks(p)
      BY <2>4 DEF AskBroker, FetchHistory, WalkActivities, Fetch, Asks, Verifying, Refreshing
    <3>2. CASE Ends(p, "refused")
      BY <2>1, <3>2, Ended
    <3>3. CASE ~Ends(p, "refused")
      <4>1. /\ req'[r].op = req[r].op /\ req'[r].key = req[r].key
            /\ req'[r].version = req[r].version
            /\ \A q \in Requests : q # p => req'[q] = req[q]
        <5>1. CASE AskBroker(p)
          <6>1. PICK a \in {"connected", "auth_failed"} :
                  req' = [req EXCEPT ![p].at = "record", ![p].answer = a]
            BY <3>3, <5>1 DEF AskBroker
          <6> QED BY <1>0, <6>1 DEF Request
        <5>2. CASE FetchHistory(p) \/ WalkActivities(p)
          <6>1. PICK next, seen :
                  /\ next \in {"walk", "publish"}
                  /\ req' = [req EXCEPT ![p].at = next, ![p].seen = seen]
            BY <3>3, <5>2 DEF FetchHistory, WalkActivities, Fetch
          <6> QED BY <1>0, <6>1 DEF Request
        <5> QED BY <2>4, <5>1, <5>2
      <4> QED BY <2>1, <3>1, <4>1 DEF GoesOn
    <3> QED BY <3>2, <3>3
  <2> QED BY <1>2, <2>1, <2>2, <2>3, <2>4, OtherRequests DEF Serve
<1>3. CASE ~\E p \in Requests : Serve(p)
  <2>1. UNCHANGED req
    BY <1>3 DEF Next, NetworkError, CloseDialog, AnswerArrives, RevokeKey, BrokerMoves, Retract,
                Delete, vars
  <2> QED BY <1>1, <2>1
<1> QED BY <1>2, <1>3

\* Every action keeps what a request in service has pinned.
LEMMA PinnedStep ==
  ASSUME TypeInv, Rooted, Pinned, [Next]_vars
  PROVE  Pinned'
<1> SUFFICES ASSUME NEW r \in Requests, Asks(r)'
             PROVE  /\ ledger'[req'[r].op] # None
                    /\ account'[req'[r].op] # None =>
                         /\ KeyNumber[req'[r].key] = account'[req'[r].op].number
                         /\ req'[r].version <= account'[req'[r].op].version
                         /\ req'[r].version = account'[req'[r].op].version =>
                              req'[r].key = account'[req'[r].op].key
  BY DEF Pinned, Asks
<1>0. TypeInv' /\ RowsMove
  BY TypeStep, RowsStep
<1>1. PICK o \in Ops : o = req'[r].op
  BY <1>0 DEF TypeInv, Served, WellFormed, Serving, Asks, Verifying, Refreshing, Steps
<1>2. CASE GoesOn(r)
  <2>1. /\ ledger[o] # None
        /\ account[o] # None =>
             /\ KeyNumber[req[r].key] = account[o].number
             /\ req[r].version <= account[o].version
             /\ req[r].version = account[o].version => req[r].key = account[o].key
    BY <1>1, <1>2 DEF GoesOn, Asks, Pinned
  <2>2. ledger'[o] # None
    BY <1>0, <2>1 DEF RowsMove
  <2>3. CASE account'[o] # None
    <3>1. /\ account[o] # None /\ account'[o].number = account[o].number
          /\ account[o].version <= account'[o].version
          /\ account[o].version = account'[o].version => account'[o].key = account[o].key
      BY <1>0, <2>1, <2>3 DEF RowsMove
    <3>2. account[o].version \in Nat /\ account'[o].version \in Nat /\ req[r].version \in Nat
      <4>1. account[o] \in Row /\ account'[o] \in Row /\ req[r] \in Request
        BY <1>0, <2>3, <3>1 DEF TypeInv, Stored, Served
      <4> QED BY <4>1 DEF Row, Request
    <3>3. req[r].version <= account'[o].version
      BY <2>1, <3>1, <3>2
    <3>4. req[r].version = account'[o].version => account[o].version = account'[o].version
      BY <2>1, <3>1, <3>2
    <3> QED BY <1>1, <1>2, <2>1, <2>2, <3>1, <3>3, <3>4 DEF GoesOn
  <2> QED BY <1>1, <2>2, <2>3
<1>3. CASE ReadsRow(r)
  <2>1. account[o] \in Row
    BY <1>1, <1>3 DEF ReadsRow, Live, TypeInv, Stored
  <2>2. account[o].version <= account[o].version
    BY <2>1 DEF Row
  <2>3. ledger[o] # None /\ account[o].number = KeyNumber[account[o].key]
    BY <1>1, <1>3 DEF ReadsRow, Live, Rooted
  <2> QED BY <1>1, <1>3, <2>2, <2>3 DEF ReadsRow
<1> QED BY <1>2, <1>3, RequestStep

\* Another request keeps what a request that is not served was answered.
LEMMA AnswerKept ==
  ASSUME TypeInv, TypeInv', [Next]_vars, NEW r \in Requests, req'[r].answer = "created"
  PROVE  \/ req'[r].op = req[r].op /\ req'[r].key = req[r].key /\ req[r].answer = "created"
         \/ AnswersCreated(r) /\ (ResolveFirst(r) \/ CreateOperation(r) \/ ConfirmOperation(r))
<1> USE DEF TypeInv, Served
<1>0. WellFormed(req[r]) /\ req[r] \in Request
  OBVIOUS
<1>1. ASSUME NEW p \in Requests, Serve(p), p # r
      PROVE  req'[r].op = req[r].op /\ req'[r].key = req[r].key /\ req[r].answer = req'[r].answer
  <2>1. CASE BeginVerification(p)
    <3>1. req'[r] = req[r] \/ req'[r] = [req[r] EXCEPT !.token = "superseded"]
      BY <1>1, <2>1 DEF BeginVerification
    <3> QED BY <1>0, <3>1 DEF Request
  <2>2. CASE ~BeginVerification(p)
    <3>1. req'[r] = req[r]
      BY <1>1, <2>2 DEF Serve, Submit, ResolveFirst, ValidateNew, CreateOperation, CreateLost,
         ConfirmOperation, AskBroker, FinishVerification, VerificationRefused, BeginRefresh,
         FetchHistory, WalkActivities, PublishRefresh, RefreshRefused, BeginRotation,
         ValidateRotated, Rotate, RotationRefused, Dies, ValidateKeys, Fetch, Ends,
         AnswersCreated, Goes
    <3> QED BY <3>1
  <2> QED BY <2>1, <2>2
<1>2. CASE Serve(r)
  <2>0. req'[r].at = "done"
    BY DEF WellFormed
  <2>1. CASE \E a \in Answers \ {"created"} : Ends(r, a)
    BY <2>1 DEF Ends, NoRequest
  <2>2. CASE \E step \in Serving : Goes(r, step)
    BY <2>0, <2>2 DEF Goes, Serving
  <2>3. CASE ResolveFirst(r) \/ CreateOperation(r) \/ ConfirmOperation(r)
    BY <2>1, <2>2, <2>3 DEF ResolveFirst, CreateOperation, ConfirmOperation, Answers, Serving,
       Steps
  <2>4. CASE ValidateNew(r) \/ ValidateRotated(r) \/ CreateLost(r)
    BY <2>1, <2>2, <2>4 DEF ValidateNew, ValidateRotated, ValidateKeys, CreateLost, Answers,
       Serving, Steps
  <2>5. CASE VerificationRefused(r) \/ FinishVerification(r) \/ PublishRefresh(r)
             \/ RefreshRefused(r) \/ Rotate(r) \/ RotationRefused(r) \/ Dies(r)
    BY <2>1, <2>5 DEF VerificationRefused, FinishVerification, PublishRefresh, RefreshRefused,
       Rotate, RotationRefused, Dies, Answers
  <2>6. CASE Submit(r) \/ BeginVerification(r) \/ BeginRefresh(r) \/ BeginRotation(r)
    <3>1. req'[r].at \in {"resolve", "ask", "history", "check"}
      BY <2>6, FirstSteps
    <3> QED BY <2>0, <3>1
  <2>7. CASE AskBroker(r)
    <3>1. CASE ~Ends(r, "refused")
      <4>1. req'[r].at = "record"
        BY <1>0, <2>7, <3>1 DEF AskBroker, Request
      <4> QED BY <2>0, <4>1
    <3> QED BY <2>1, <3>1 DEF Answers
  <2>8. CASE FetchHistory(r) \/ WalkActivities(r)
    <3>1. CASE ~Ends(r, "refused")
      <4>1. PICK next, seen :
              /\ next \in {"walk", "publish"}
              /\ req' = [req EXCEPT ![r].at = next, ![r].seen = seen]
        BY <2>8, <3>1 DEF FetchHistory, WalkActivities, Fetch
      <4>2. req'[r] = [req[r] EXCEPT !.at = next, !.seen = seen]
        BY <4>1
      <4>3. req'[r].at = next
        BY <1>0, <4>2 DEF Request
      <4> QED BY <2>0, <4>1, <4>3
    <3> QED BY <2>1, <3>1 DEF Answers
  <2> QED BY <1>2, <2>3, <2>4, <2>5, <2>6, <2>7, <2>8 DEF Serve
<1>3. CASE ~\E p \in Requests : Serve(p)
  <2>1. UNCHANGED req
    BY <1>3 DEF Next, NetworkError, CloseDialog, AnswerArrives, RevokeKey, BrokerMoves, Retract,
                Delete, vars
  <2> QED BY <2>1
<1> QED BY <1>1, <1>2, <1>3

\* Every action keeps an account what its creation asked for.
LEMMA CreatedStep ==
  ASSUME TypeInv, Rooted, CreatedIsWhatWasAsked, [Next]_vars
  PROVE  CreatedIsWhatWasAsked'
<1> SUFFICES ASSUME NEW r \in Requests, req'[r].answer = "created"
             PROVE  ledger'[req'[r].op] # None /\ ledger'[req'[r].op].form = req'[r].key
  BY DEF CreatedIsWhatWasAsked
<1>0. TypeInv' /\ RowsMove
  BY TypeStep, RowsStep
<1>1. CASE req'[r].op = req[r].op /\ req'[r].key = req[r].key /\ req[r].answer = "created"
  <2>1. req[r].op \in Ops /\ ledger[req[r].op] # None /\ ledger[req[r].op].form = req[r].key
    BY <1>1 DEF CreatedIsWhatWasAsked, TypeInv, Served, WellFormed
  <2> QED BY <1>0, <1>1, <2>1 DEF RowsMove
<1>2. CASE AnswersCreated(r) /\ (ResolveFirst(r) \/ CreateOperation(r) \/ ConfirmOperation(r))
  <2>1. /\ req'[r].op = req[r].op /\ req'[r].key = req[r].key
        /\ req[r].op \in Ops /\ req[r].key \in Keys
    BY <1>2 DEF AnswersCreated, NoRequest, TypeInv, Served, WellFormed, Serving, Steps,
       ResolveFirst, CreateOperation, ConfirmOperation
  <2>2. CASE ledger[req[r].op] # None /\ ledger[req[r].op].form = req[r].key
    BY <1>0, <2>1, <2>2 DEF RowsMove
  <2>3. req'[r].at = "done"
    BY <1>2 DEF AnswersCreated, NoRequest, TypeInv, Served
  <2>4. \A step \in Serving : ~Goes(r, step)
    BY <2>3 DEF Goes, TypeInv, Served, Request, Serving
  <2>5. \A a \in Answers \ {"created"} : ~Ends(r, a)
    BY DEF Ends, NoRequest, TypeInv, Served
  <2>6. CASE ResolveFirst(r) \/ ConfirmOperation(r)
    <3>1. Outcome(req[r].op, req[r].key) = "created"
      BY <2>4, <2>5, <2>6 DEF ResolveFirst, ConfirmOperation, Answers, Serving, Steps
    <3> QED BY <2>2, <3>1 DEF Outcome
  <2>7. CASE CreateOperation(r) /\ ledger[req[r].op] # None
    <3>1. ledger[req[r].op].form = req[r].key
      BY <2>4, <2>7 DEF CreateOperation, Serving, Steps
    <3> QED BY <2>2, <2>7, <3>1
  <2>8. CASE CreateOperation(r) /\ ledger[req[r].op] = None
    <3>1. ledger' = [ledger EXCEPT ![req[r].op] = [form |-> req[r].key, made |-> TRUE]]
      BY <2>4, <2>8 DEF CreateOperation, Serving, Steps
    <3>2. [form |-> req[r].key, made |-> TRUE] # None
      <4>1. [form |-> req[r].key, made |-> TRUE] \in Entry
        BY <2>1 DEF Entry
      <4> QED BY <4>1, NoneAssumption DEF Entry
    <3> QED BY <2>1, <3>1, <3>2 DEF TypeInv, Stored
  <2> QED BY <1>2, <2>6, <2>7, <2>8
<1> QED BY <1>0, <1>1, <1>2, AnswerKept

\* Every action keeps the rows and the requests that rely on them in agreement.
LEMMA RowStep == TypeInv /\ RowInv /\ [Next]_vars => RowInv'
  BY RowsStep, PinnedStep, CreatedStep DEF RowInv

---------------------------------------------------------------------------
(* Verdicts. *)

\* The broker revokes keys and never makes a revoked one valid.
LEMMA ValidShrinks ==
  ASSUME TypeInv, [Next]_vars, NEW k \in Keys, valid'[k]
  PROVE  valid[k]
<1>1. CASE RevokeKey
  <2>1. PICK x \in Keys : valid' = [valid EXCEPT ![x] = FALSE]
    BY <1>1 DEF RevokeKey
  <2> QED BY <2>1 DEF TypeInv, Outside
<1>2. CASE ~RevokeKey
  <2>1. UNCHANGED valid
    BY <1>2, ServedOutside DEF Next, NetworkError, CloseDialog, AnswerArrives, BrokerMoves,
       Retract, Delete, vars, alpaca
  <2> QED BY <2>1
<1> QED BY <1>1, <1>2

\* An answer about to be recorded was there before, or the broker has just given it.
LEMMA RecordStep ==
  ASSUME TypeInv, [Next]_vars, NEW r \in Requests, req'[r].at = "record"
  PROVE  /\ req'[r].op = req[r].op /\ req'[r].key = req[r].key /\ req'[r].version = req[r].version
         /\ req'[r].token = "open" => req[r].token = "open"
         /\ \/ req[r].at = "record" /\ req'[r].answer = req[r].answer
            \/ /\ AskBroker(r) /\ req[r].at = "ask" /\ UNCHANGED <<account, valid>>
               /\ req'[r].answer = IF valid[req[r].key] THEN "connected" ELSE "auth_failed"
<1> USE DEF TypeInv, Served
<1>0. WellFormed(req[r]) /\ req[r] \in Request
  OBVIOUS
<1>1. CASE req'[r] = req[r]
  BY <1>1
<1>2. ASSUME NEW p \in Requests, Serve(p), p # r
      PROVE  req'[r] = req[r] \/ req'[r] = [req[r] EXCEPT !.token = "superseded"]
  <2>1. CASE BeginVerification(p)
    BY <1>2, <2>1 DEF BeginVerification
  <2>2. CASE ~BeginVerification(p)
    BY <1>2, <2>2 DEF Serve, Submit, ResolveFirst, ValidateNew, CreateOperation, CreateLost,
         ConfirmOperation, AskBroker, FinishVerification, VerificationRefused, BeginRefresh,
         FetchHistory, WalkActivities, PublishRefresh, RefreshRefused, BeginRotation,
         ValidateRotated, Rotate, RotationRefused, Dies, ValidateKeys, Fetch, Ends,
         AnswersCreated, Goes
  <2> QED BY <2>1, <2>2
<1>3. CASE req'[r] = [req[r] EXCEPT !.token = "superseded"]
  BY <1>0, <1>3 DEF Request
<1>4. CASE Serve(r)
  <2>1. CASE AskBroker(r)
    <3>1. ~Ends(r, "refused")
      BY DEF Ends, NoRequest
    <3> QED BY <1>0, <2>1, <3>1 DEF AskBroker, Request, database, alpaca
  <2>2. CASE ~AskBroker(r)
    <3>1. CASE \E a \in Answers : Ends(r, a) \/ AnswersCreated(r)
      BY <3>1 DEF Ends, AnswersCreated, NoRequest
    <3>2. CASE Submit(r) \/ BeginVerification(r) \/ BeginRefresh(r) \/ BeginRotation(r)
      <4>1. req'[r].at \in {"resolve", "ask", "history", "check"}
        BY <3>2, FirstSteps
      <4> QED BY <4>1
    <3>3. CASE FetchHistory(r) \/ WalkActivities(r)
      <4>1. CASE ~Ends(r, "refused")
        <5>1. PICK next, seen :
                /\ next \in {"walk", "publish"}
                /\ req' = [req EXCEPT ![r].at = next, ![r].seen = seen]
          BY <3>3, <4>1 DEF FetchHistory, WalkActivities, Fetch
        <5>2. req'[r] = [req[r] EXCEPT !.at = next, !.seen = seen]
          BY <5>1
        <5>3. req'[r].at = next
          BY <1>0, <5>2 DEF Request
        <5> QED BY <5>1, <5>3
      <4> QED BY <3>1, <4>1 DEF Answers
    <3>4. CASE \E step \in {"validate", "create", "rotate", "confirm"} : Goes(r, step)
      BY <1>0, <3>4 DEF Goes, Request
    <3>5. CASE ResolveFirst(r) \/ CreateOperation(r) \/ ConfirmOperation(r)
               \/ ValidateNew(r) \/ ValidateRotated(r) \/ CreateLost(r)
      BY <3>1, <3>4, <3>5 DEF ResolveFirst, CreateOperation, ConfirmOperation, ValidateNew,
         ValidateRotated, ValidateKeys, CreateLost, Answers
    <3>6. CASE VerificationRefused(r) \/ PublishRefresh(r)
               \/ RefreshRefused(r) \/ Rotate(r) \/ RotationRefused(r) \/ Dies(r)
      BY <3>1, <3>6 DEF VerificationRefused, PublishRefresh,
         RefreshRefused, Rotate, RotationRefused, Dies, Answers
    <3>7. CASE FinishVerification(r)
      BY <3>1, <3>7 DEF FinishVerification, Answers
    <3> QED BY <1>4, <2>2, <3>2, <3>3, <3>5, <3>6, <3>7 DEF Serve
  <2> QED BY <2>1, <2>2
<1>5. CASE ~\E p \in Requests : Serve(p)
  <2>1. UNCHANGED req
    BY <1>5 DEF Next, NetworkError, CloseDialog, AnswerArrives, RevokeKey, BrokerMoves, Retract,
                Delete, vars
  <2> QED BY <1>1, <2>1
<1> QED BY <1>1, <1>2, <1>3, <1>4, <1>5

\* A row with the version it had changes only by a verdict.
LEMMA RowChanges ==
  ASSUME TypeInv, Rooted, [Next]_vars, NEW o \in Ops, account'[o] # None, account'[o] # account[o]
  PROVE  \/ account'[o].status # "auth_failed"
            /\ (account[o] # None => account[o].version # account'[o].version)
         \/ \E q \in Requests :
              /\ FinishVerification(q) /\ req[q].op = o /\ UNCHANGED valid
              /\ account'[o] = [account[o] EXCEPT !.status = req[q].answer]
<1> USE DEF TypeInv, Stored
<1>1. ASSUME NEW q \in Requests, FinishVerification(q)
      PROVE  /\ req[q].op = o /\ UNCHANGED valid
             /\ account'[o] = [account[o] EXCEPT !.status = req[q].answer]
  BY <1>1 DEF FinishVerification, alpaca
<1>2. ASSUME NEW q \in Requests, Rotate(q)
      PROVE  account'[o].status # "auth_failed" /\ account[o].version # account'[o].version
  <2>1. req[q].op = o
    BY <1>2 DEF Rotate
  <2>2. account[o] \in Row
    BY <1>2, <2>1 DEF Rotate, MayRotate, Live
  <2>3. account'[o] = [account[o] EXCEPT !.key = req[q].key, !.version = account[o].version + 1,
                                         !.status = "connected"]
    BY <1>2, <2>1 DEF Rotate
  <2> QED BY <2>2, <2>3 DEF Row
<1>3. ASSUME NEW q \in Requests, CreateOperation(q)
      PROVE  account'[o].status # "auth_failed" /\ account[o] = None
  <2>1. ledger[req[q].op] = None /\ account' = [account EXCEPT ![req[q].op] = Created(req[q].key)]
    BY <1>3 DEF CreateOperation
  <2> QED BY <2>1 DEF Rooted, Created
<1>4. CASE Delete
  <2>1. PICK p \in Ops :
          /\ Live(p)
          /\ \/ account' = [account EXCEPT ![p].deleted = TRUE, ![p].status = "paused",
                                           ![p].version = @ + 1]
             \/ account' = [account EXCEPT ![p] = None]
    BY <1>4 DEF Delete
  <2>2. p = o /\ account[o] \in Row
    BY <2>1 DEF Live
  <2>3. account'[o] = [account[o] EXCEPT !.deleted = TRUE, !.status = "paused",
                                         !.version = account[o].version + 1]
    BY <2>1, <2>2
  <2> QED BY <2>2, <2>3 DEF Row
<1>5. ASSUME NEW p \in Requests, Serve(p),
             ~(CreateOperation(p) \/ FinishVerification(p) \/ Rotate(p))
      PROVE  UNCHANGED account
  BY <1>5 DEF Serve, Submit, ResolveFirst, ValidateNew, CreateLost, ConfirmOperation,
        BeginVerification, AskBroker, VerificationRefused, BeginRefresh, FetchHistory,
        WalkActivities, PublishRefresh, RefreshRefused, BeginRotation, ValidateRotated,
        RotationRefused, Dies, ValidateKeys, Fetch, database
<1>6. ~Delete /\ ~(\E p \in Requests : Serve(p)) => UNCHANGED account
  BY DEF Next, NetworkError, CloseDialog, AnswerArrives, RevokeKey, BrokerMoves, Retract, vars,
         database
<1> QED BY <1>1, <1>2, <1>3, <1>4, <1>5, <1>6

\* Every action keeps verdicts no newer than the checks they come from.
LEMMA VerdictStep ==
  ASSUME TypeInv, RowInv, VerdictInv, [Next]_vars
  PROVE  VerdictInv'
<1>0. TypeInv' /\ RowsMove
  BY TypeStep, RowsStep DEF RowInv
<1>1. HeardRevoked'
  <2> SUFFICES ASSUME NEW r \in Requests, req'[r].at = "record", req'[r].answer = "auth_failed"
               PROVE  ~valid'[req'[r].key]
    BY DEF HeardRevoked
  <2>1. req'[r].key = req[r].key /\ req'[r].key \in Keys
    BY <1>0, RecordStep DEF TypeInv, Served, WellFormed, Serving, Steps
  <2>2. ~valid[req[r].key]
    BY RecordStep DEF VerdictInv, HeardRevoked
  <2> QED BY <2>1, <2>2, ValidShrinks
<1>2. Condemned'
  <2> SUFFICES ASSUME NEW o \in Ops, Live(o)', account'[o].status = "auth_failed"
               PROVE  /\ ~valid'[account'[o].key]
                      /\ \A r \in Requests :
                           ~(/\ req'[r].op = o /\ req'[r].token = "open" /\ req'[r].at = "record"
                             /\ req'[r].answer = "connected" /\ req'[r].version = account'[o].version)
    BY DEF Condemned
  <2>1. account'[o] # None /\ ~account'[o].deleted /\ account'[o].key \in Keys
    BY <1>0 DEF Live, TypeInv, Stored, Row
  <2>2. CASE account'[o] = account[o]
    <3>1. /\ ~valid[account[o].key]
          /\ \A r \in Requests :
               ~(/\ req[r].op = o /\ req[r].token = "open" /\ req[r].at = "record"
                 /\ req[r].answer = "connected" /\ req[r].version = account[o].version)
      BY <2>1, <2>2 DEF VerdictInv, Condemned, Live
    <3>2. ~valid'[account'[o].key]
      BY <2>1, <2>2, <3>1, ValidShrinks
    <3>3. ASSUME NEW r \in Requests, req'[r].op = o, req'[r].token = "open",
                 req'[r].at = "record", req'[r].answer = "connected",
                 req'[r].version = account'[o].version
          PROVE  FALSE
      <4>1. /\ req[r].op = o /\ req[r].token = "open" /\ req[r].version = account[o].version
            /\ ~(req[r].at = "record" /\ req[r].answer = "connected")
        BY <2>2, <3>1, <3>3, RecordStep
      <4>2. req[r].at = "ask" /\ valid[req[r].key]
        BY <3>3, <4>1, RecordStep
      <4>3. req[r].key = account[o].key
        BY <2>1, <2>2, <4>1, <4>2 DEF RowInv, Pinned, Verifying
      <4> QED BY <3>1, <4>2, <4>3
    <3> QED BY <3>2, <3>3
  <2>3. CASE account'[o] # account[o]
    <3>1. PICK q \in Requests :
            /\ FinishVerification(q) /\ req[q].op = o /\ UNCHANGED valid
            /\ account'[o] = [account[o] EXCEPT !.status = req[q].answer]
      BY <2>1, <2>3, RowChanges DEF RowInv
    <3>2. /\ Live(o) /\ req[q].token = "open" /\ req[q].version = account[o].version
          /\ req[q].at = "record"
      BY <3>1 DEF FinishVerification, MayRecord
    <3>3. account[o] \in Row
      BY <3>2 DEF Live, TypeInv, Stored
    <3>4. req[q].answer = "auth_failed" /\ account'[o].key = account[o].key
      BY <3>1, <3>3 DEF Row
    <3>5. req[q].key = account[o].key
      BY <3>1, <3>2 DEF RowInv, Pinned, Verifying, Live
    <3>6. ~valid'[account'[o].key]
      BY <3>1, <3>2, <3>4, <3>5 DEF VerdictInv, HeardRevoked
    <3>7. ASSUME NEW r \in Requests, req'[r].op = o, req'[r].token = "open",
                 req'[r].at = "record"
          PROVE  FALSE
      <4>1. req[r].op = o /\ req[r].token = "open"
        BY <3>7, RecordStep
      <4>2. r = q
        BY <3>1, <3>2, <4>1 DEF TypeInv, Served, OneOpenToken
      <4>3. req'[q].at = "done"
        BY <3>1 DEF FinishVerification, Ends, NoRequest, TypeInv, Served
      <4> QED BY <3>7, <4>2, <4>3
    <3> QED BY <3>6, <3>7
  <2> QED BY <2>2, <2>3
<1> QED BY <1>1, <1>2 DEF VerdictInv

\* What ends a request at "record" or "publish" with anything but a refusal.
LEMMA LearnedStep ==
  ASSUME TypeInv, RowInv, [Next]_vars
  PROVE  LearnedWithCurrentKeys
<1> SUFFICES ASSUME NEW r \in Requests, req[r].at \in {"record", "publish"}, req'[r].at = "done",
                    req'[r].answer # "refused"
             PROVE  Live(req[r].op) /\ account[req[r].op].key = req[r].key
  BY DEF LearnedWithCurrentKeys
<1> USE DEF TypeInv, Served
<1>0. WellFormed(req[r]) /\ req[r] \in Request
  OBVIOUS
<1>1. CASE FinishVerification(r) \/ PublishRefresh(r)
  <2>1. Live(req[r].op) /\ req[r].version = account[req[r].op].version
    BY <1>1 DEF FinishVerification, MayRecord, PublishRefresh, MayPublish, SameIdentity
  <2> QED BY <2>1 DEF RowInv, Pinned, Verifying, Refreshing, Live
<1>2. CASE VerificationRefused(r) \/ RefreshRefused(r) \/ Dies(r)
  BY <1>2 DEF VerificationRefused, RefreshRefused, Dies, Ends, NoRequest
<1>3. ASSUME NEW p \in Requests, Serve(p), p # r
      PROVE  FALSE
  <2>1. CASE BeginVerification(p)
    <3>1. req'[r] = req[r] \/ req'[r] = [req[r] EXCEPT !.token = "superseded"]
      BY <1>3, <2>1 DEF BeginVerification
    <3> QED BY <1>0, <3>1 DEF Request
  <2>2. CASE ~BeginVerification(p)
    <3>1. req'[r] = req[r]
      BY <1>3, <2>2 DEF Serve, Submit, ResolveFirst, ValidateNew, CreateOperation, CreateLost,
         ConfirmOperation, AskBroker, FinishVerification, VerificationRefused, BeginRefresh,
         FetchHistory, WalkActivities, PublishRefresh, RefreshRefused, BeginRotation,
         ValidateRotated, Rotate, RotationRefused, Dies, ValidateKeys, Fetch, Ends,
         AnswersCreated, Goes
    <3> QED BY <3>1
  <2> QED BY <2>1, <2>2
<1>4. ~(\E p \in Requests : Serve(p)) => UNCHANGED req
  BY DEF Next, NetworkError, CloseDialog, AnswerArrives, RevokeKey, BrokerMoves, Retract,
         Delete, vars
<1>5. Serve(r) => FinishVerification(r) \/ PublishRefresh(r) \/ VerificationRefused(r)
                  \/ RefreshRefused(r) \/ Dies(r)
  BY DEF Serve, Submit, ResolveFirst, ValidateNew, CreateOperation, CreateLost,
         ConfirmOperation, BeginVerification, AskBroker, BeginRefresh,
         FetchHistory, WalkActivities, BeginRotation, ValidateRotated, Rotate,
         RotationRefused, ValidateKeys, Fetch
<1> QED BY <1>1, <1>2, <1>3, <1>4, <1>5

\* No action publishes a verdict for keys that were revoked meanwhile.
LEMMA RevokedStep ==
  ASSUME TypeInv, RowInv, VerdictInv, [Next]_vars
  PROVE  RevokedStaysRevoked
<1> SUFFICES ASSUME NEW o \in Ops, Live(o), account[o].status = "auth_failed",
                    account'[o] # None, account'[o].version = account[o].version
             PROVE  account'[o].status # "connected"
  BY DEF RevokedStaysRevoked
<1>1. CASE account'[o] # account[o]
  <2>1. PICK q \in Requests :
          /\ FinishVerification(q) /\ req[q].op = o
          /\ account'[o] = [account[o] EXCEPT !.status = req[q].answer]
    BY <1>1, RowChanges DEF RowInv, Live
  <2>2. account[o] \in Row
    BY DEF Live, TypeInv, Stored
  <2>3. account'[o].status = req[q].answer
    BY <2>1, <2>2 DEF Row
  <2>4. req[q].answer # "connected"
    BY <2>1 DEF FinishVerification, MayRecord, VerdictInv, Condemned
  <2> QED BY <2>3, <2>4
<1> QED BY <1>1

---------------------------------------------------------------------------
(* Mirrors. *)

\* Revisions of the items at the broker only grow.
LEMMA BrokerGrows ==
  ASSUME TypeInv, [Next]_vars, NEW n \in Numbers, NEW i \in Items
  PROVE  /\ broker[n][i].rev \in Nat /\ broker'[n][i].rev \in Nat
         /\ broker[n][i].rev <= broker'[n][i].rev
<1> USE DEF TypeInv, Outside
<1>1. broker[n][i].rev \in Nat
  OBVIOUS
<1>2. broker'[n][i].rev \in Nat /\ broker[n][i].rev <= broker'[n][i].rev
  <2>1. CASE BrokerMoves
    <3>1. PICK m \in Numbers, j \in Items, s \in BOOLEAN :
            broker' = [broker EXCEPT ![m][j] = [rev |-> @.rev + 1, shown |-> s]]
      BY <2>1 DEF BrokerMoves
    <3>2. CASE m = n /\ j = i
      <4>1. broker'[n][i] = [rev |-> broker[n][i].rev + 1, shown |-> s]
        BY <3>1, <3>2
      <4> QED BY <1>1, <4>1
    <3>3. CASE ~(m = n /\ j = i)
      <4>1. broker'[n][i] = broker[n][i]
        BY <3>1, <3>3
      <4> QED BY <1>1, <4>1
    <3> QED BY <3>2, <3>3
  <2>2. CASE ~BrokerMoves
    <3>1. UNCHANGED broker
      BY <2>2, ServedOutside DEF Next, NetworkError, CloseDialog, AnswerArrives, RevokeKey,
         Retract, Delete, vars, alpaca
    <3> QED BY <1>1, <3>1
  <2> QED BY <2>1, <2>2
<1> QED BY <1>1, <1>2

\* Refresh generations are drawn in growing order.
LEMMA DrawnGrows ==
  ASSUME TypeInv, [Next]_vars
  PROVE  drawn \in Nat /\ drawn' \in Nat /\ drawn <= drawn'
<1> USE DEF TypeInv, Stored
<1>1. CASE \E r \in Requests : BeginRefresh(r)
  BY <1>1 DEF BeginRefresh
<1>2. CASE ~(\E r \in Requests : BeginRefresh(r))
  <2>1. UNCHANGED drawn
    BY <1>2, ServedTables DEF Next, NetworkError, CloseDialog, AnswerArrives, RevokeKey,
       BrokerMoves, Retract, Delete, vars, database
  <2> QED BY <2>1
<1> QED BY <1>1, <1>2

\* What a step does to the mirror of an account.
LEMMA TableStep ==
  ASSUME TypeInv, [Next]_vars, NEW o \in Ops
  PROVE  \/ /\ floor'[o] = floor[o] /\ published'[o] = published[o]
            /\ \A i \in Items : mirror'[o][i] \in {mirror[o][i], 0}
         \/ account'[o] = None /\ floor'[o] = floor[o] /\ mirror'[o] = NoItems
         \/ \E q \in Requests :
              /\ PublishRefresh(q) /\ req[q].op = o /\ UNCHANGED <<account, ledger, broker>>
              /\ mirror'[o] = Upserted(q) /\ published'[o] = req[q].gen
              /\ floor'[o] = Later(floor[o], req[q].begun)
<1> USE DEF TypeInv, Stored
<1>1. ASSUME NEW q \in Requests, PublishRefresh(q)
      PROVE  \/ req[q].op # o /\ UNCHANGED <<floor[o], published[o], mirror[o]>>
             \/ /\ req[q].op = o /\ UNCHANGED <<account, ledger, broker>>
                /\ mirror'[o] = Upserted(q) /\ published'[o] = req[q].gen
                /\ floor'[o] = Later(floor[o], req[q].begun)
  BY <1>1 DEF PublishRefresh, alpaca
<1>2. CASE Delete
  BY <1>2 DEF Delete
<1>3. CASE Retract
  <2>1. PICK p \in Ops, i \in Items : mirror' = [mirror EXCEPT ![p][i] = 0]
    BY <1>3 DEF Retract
  <2>2. \A j \in Items : mirror'[o][j] \in {mirror[o][j], 0}
    BY <2>1
  <2> QED BY <1>3, <2>2 DEF Retract
<1>4. CASE ~(Delete \/ Retract \/ \E q \in Requests : PublishRefresh(q))
  <2>1. UNCHANGED <<floor, published, mirror>>
    BY <1>4, ServedTables DEF Next, NetworkError, CloseDialog, AnswerArrives, RevokeKey,
       BrokerMoves, vars, database
  <2> QED BY <2>1
<1> QED BY <1>1, <1>2, <1>3, <1>4

\* A refresh in flight goes on, reads the broker, or begins.
FetchesNow(r) ==
  /\ UNCHANGED <<broker, account, ledger, floor, published, drawn>>
  /\ \A q \in Requests \ {r} : req'[q] = req[q]
  /\ \A i \in Items : req'[r].seen[i] \in {req[r].seen[i], 0, Revision(r, i)}
RefreshGoesOn(r) ==
  /\ req[r].at \in Refreshing
  /\ req'[r].op = req[r].op /\ req'[r].key = req[r].key
  /\ req'[r].gen = req[r].gen /\ req'[r].begun = req[r].begun
  /\ req'[r].seen = req[r].seen \/ FetchesNow(r)
RefreshBegins(r) ==
  /\ req'[r].gen = drawn + 1 /\ drawn' = drawn + 1
  /\ Live(req'[r].op) /\ req'[r].key = account[req'[r].op].key
  /\ UNCHANGED broker
  /\ req'[r].seen = NoItems
  /\ req'[r].begun = Reported(account[req'[r].op].number, Items)

\* A request in a refresh either goes on with its generation or begins one.
LEMMA RefreshStep ==
  ASSUME TypeInv, [Next]_vars, NEW r \in Requests, req'[r].at \in Refreshing
  PROVE  RefreshGoesOn(r) \/ RefreshBegins(r)
<1> USE DEF TypeInv, Served
<1>0. WellFormed(req[r]) /\ req[r] \in Request
  OBVIOUS
<1>1. CASE req'[r] = req[r]
  BY <1>1 DEF RefreshGoesOn
<1>2. ASSUME NEW p \in Requests, BeginVerification(p)
      PROVE  RefreshGoesOn(r)
  <2>1. r # p
    <3>1. CASE r = p
      <4>1. req'[r].at = "ask"
        BY <1>2, <3>1 DEF BeginVerification, NoRequest
      <4> QED BY <4>1 DEF Refreshing
    <3> QED BY <3>1
  <2>2. req'[r] = req[r] \/ req'[r] = [req[r] EXCEPT !.token = "superseded"]
    BY <1>2, <2>1 DEF BeginVerification
  <2> QED BY <1>0, <1>1, <2>2 DEF RefreshGoesOn, Request
<1>3. ASSUME NEW p \in Requests, BeginRefresh(p)
      PROVE  RefreshGoesOn(r) \/ RefreshBegins(r)
  <2>1. CASE r = p
    <3>1. PICK o \in Ops :
        /\ Live(o) /\ drawn' = drawn + 1
        /\ req'[r] =
             [NoRequest EXCEPT !.at = "history", !.op = o, !.key = account[o].key,
                !.version = account[o].version, !.gen = drawn + 1,
                !.begun = Reported(account[o].number, Items)]
      BY <1>3, <2>1 DEF BeginRefresh
    <3>2. UNCHANGED broker
      BY <1>3 DEF BeginRefresh, alpaca
    <3> QED BY <3>1, <3>2 DEF RefreshBegins, NoRequest, NoItems
  <2>2. CASE r # p
    BY <1>1, <1>3, <2>2 DEF BeginRefresh
  <2> QED BY <2>1, <2>2
<1>4. ASSUME NEW p \in Requests, AskBroker(p)
      PROVE  req'[r] = req[r]
  <2>1. req'[p].at \in {"record", "done"}
    <3>1. req \in [Requests -> Request]
      BY DEF TypeInv, Served
    <3>2. CASE Ends(p, "refused")
      BY <3>1, <3>2 DEF Ends, NoRequest
    <3>3. CASE ~Ends(p, "refused")
      <4>1. PICK a \in {"connected", "auth_failed"} :
              req' = [req EXCEPT ![p].at = "record", ![p].answer = a]
        BY <1>4, <3>3 DEF AskBroker
      <4> QED BY <3>1, <4>1 DEF Request
    <3> QED BY <3>2, <3>3
  <2> QED BY <1>4, <2>1 DEF AskBroker, Ends, Refreshing
<1>5. ASSUME NEW p \in Requests, FetchHistory(p) \/ WalkActivities(p)
      PROVE  RefreshGoesOn(r) \/ RefreshBegins(r)
  <2>1. CASE Ends(p, "refused")
    <3>1. Asks(r)'
      BY DEF Asks
    <3> QED BY <1>1, <2>1, <3>1, Ended
  <2>2. CASE ~Ends(p, "refused")
    <3>1. PICK next \in {"walk", "publish"}, items \in SUBSET Items :
            req' = [req EXCEPT ![p].at = next,
             ![p].seen = [i \in Items |->
                IF i \in items THEN Reported(KeyNumber[req[p].key], items)[i] ELSE @[i]]]
      BY <1>5, <2>2 DEF FetchHistory, WalkActivities, Fetch, Items
    <3>2. CASE r # p
      BY <1>1, <3>1, <3>2
    <3>3. CASE r = p
      <4> DEFINE seen == [i \in Items |->
                IF i \in items THEN Reported(KeyNumber[req[r].key], items)[i] ELSE req[r].seen[i]]
      <4>1. req'[r] = [req[r] EXCEPT !.at = next, !.seen = seen]
        BY <3>1, <3>3
      <4>2. /\ req'[r].op = req[r].op /\ req'[r].key = req[r].key
            /\ req'[r].gen = req[r].gen /\ req'[r].begun = req[r].begun
            /\ req'[r].seen = seen
        <5> HIDE DEF seen
        <5> QED BY <1>0, <4>1 DEF Request
      <4>3. \A i \in Items : seen[i] \in {req[r].seen[i], 0, Revision(r, i)}
        BY DEF Reported, Revision
      <4>4. req[r].at \in Refreshing /\ UNCHANGED <<broker, account, ledger, floor, published, drawn>>
        BY <1>5, <3>3 DEF FetchHistory, WalkActivities, Fetch, Refreshing, database, alpaca
      <4>5. \A q \in Requests \ {r} : req'[q] = req[q]
        BY <3>1, <3>3
      <4>6. FetchesNow(r)
        <5> HIDE DEF seen
        <5> QED BY <4>2, <4>3, <4>4, <4>5 DEF FetchesNow
      <4> QED BY <4>2, <4>4, <4>6 DEF RefreshGoesOn
    <3> QED BY <3>2, <3>3
  <2> QED BY <2>1, <2>2
<1>6. ASSUME NEW p \in Requests, Serve(p)
      PROVE  RefreshGoesOn(r) \/ RefreshBegins(r)
  <2>1. Asks(r)'
    BY DEF Asks
  <2> QED BY <1>1, <1>2, <1>3, <1>4, <1>5, <1>6, <2>1, OtherRequests DEF Serve
<1>7. ~(\E p \in Requests : Serve(p)) => UNCHANGED req
  BY DEF Next, NetworkError, CloseDialog, AnswerArrives, RevokeKey, BrokerMoves, Retract,
         Delete, vars
<1> QED BY <1>1, <1>6, <1>7

\* What a request in flight knows of its account.
LEMMA RefreshFacts ==
  ASSUME TypeInv, RowInv, NEW r \in Requests, req[r].at \in Refreshing
  PROVE  /\ req[r].op \in Ops /\ req[r].key \in Keys /\ KeyNumber[req[r].key] \in Numbers
         /\ req[r].gen \in Nat
         /\ \A i \in Items : req[r].begun[i] \in Nat /\ req[r].seen[i] \in Nat
         /\ ledger[req[r].op] # None
         /\ account[req[r].op] # None => KeyNumber[req[r].key] = account[req[r].op].number
<1>1. WellFormed(req[r]) /\ req[r] \in Request /\ req[r].op \in Ops /\ req[r].key \in Keys
  BY DEF TypeInv, Served, WellFormed, Refreshing, Serving, Steps
<1>2. req[r].gen \in Nat /\ \A i \in Items : req[r].begun[i] \in Nat /\ req[r].seen[i] \in Nat
  BY <1>1 DEF Request
<1> QED BY <1>1, <1>2, KeysAssumption DEF RowInv, Pinned

\* Every action keeps what a refresh saw as new as its beginning.
LEMMA SeenSinceStep ==
  ASSUME TypeInv, RowInv, SeenSinceBegun, [Next]_vars
  PROVE  SeenSinceBegun'
<1> SUFFICES ASSUME NEW r \in Requests, req'[r].at \in Refreshing
             PROVE  /\ req'[r].gen <= drawn'
                    /\ \A i \in Items :
                         /\ req'[r].begun[i] <= Revision(r, i)'
                         /\ req'[r].seen[i] # 0 => req'[r].begun[i] <= req'[r].seen[i]
  BY DEF SeenSinceBegun
<1>0. TypeInv'
  BY TypeStep DEF RowInv
<1>1. CASE RefreshGoesOn(r)
  <2>0. req'[r].gen <= drawn'
    <3>1. req[r].gen <= drawn /\ req[r].gen \in Nat
      BY <1>1, RefreshFacts DEF RefreshGoesOn, SeenSinceBegun
    <3> QED BY <1>1, <3>1, DrawnGrows DEF RefreshGoesOn
  <2> SUFFICES ASSUME NEW i \in Items
               PROVE  /\ req'[r].begun[i] <= Revision(r, i)'
                      /\ req'[r].seen[i] # 0 => req'[r].begun[i] <= req'[r].seen[i]
    BY <2>0
  <2>1. /\ req[r].begun[i] <= Revision(r, i)
        /\ req[r].seen[i] # 0 => req[r].begun[i] <= req[r].seen[i]
    BY <1>1 DEF RefreshGoesOn, SeenSinceBegun
  <2>2. /\ req[r].gen \in Nat /\ req[r].begun[i] \in Nat /\ req[r].seen[i] \in Nat
        /\ KeyNumber[req[r].key] \in Numbers
    BY <1>1, RefreshFacts DEF RefreshGoesOn
  <2>3. /\ Revision(r, i) \in Nat /\ Revision(r, i)' \in Nat /\ Revision(r, i) <= Revision(r, i)'
    BY <1>1, <2>2, BrokerGrows DEF RefreshGoesOn, Revision
  <2>4. req[r].begun[i] <= Revision(r, i)'
    BY <2>1, <2>2, <2>3
  <2>5. req'[r].seen[i] \in {req[r].seen[i], 0, Revision(r, i)}
    BY <1>1 DEF RefreshGoesOn, FetchesNow
  <2> QED BY <1>1, <2>1, <2>4, <2>5 DEF RefreshGoesOn
<1>2. CASE RefreshBegins(r)
  <2>1. account[req'[r].op] # None
    BY <1>2 DEF RefreshBegins, Live
  <2>3. req'[r].op \in Ops
    BY <1>0 DEF TypeInv, Served, WellFormed, Refreshing, Serving, Steps
  <2>4. account[req'[r].op] \in Row /\ account[req'[r].op].number = KeyNumber[account[req'[r].op].key]
    BY <2>1, <2>3 DEF TypeInv, Stored, RowInv, Rooted
  <2>8. drawn' \in Nat /\ req'[r].gen = drawn'
    BY <1>0, <1>2 DEF RefreshBegins, TypeInv, Stored
  <2> SUFFICES ASSUME NEW i \in Items
               PROVE  /\ req'[r].begun[i] <= Revision(r, i)'
                      /\ req'[r].seen[i] # 0 => req'[r].begun[i] <= req'[r].seen[i]
    BY <2>8
  <2>5. Revision(r, i)' = broker[account[req'[r].op].number][i].rev /\ account[req'[r].op].number \in Numbers
    BY <1>2, <2>4 DEF RefreshBegins, Revision, Row
  <2>6. broker[account[req'[r].op].number][i].rev \in Nat
    BY <2>5 DEF TypeInv, Outside
  <2>7. req'[r].begun[i] \in {0, Revision(r, i)'}
    BY <1>2, <2>5 DEF RefreshBegins, Reported
  <2>9. req'[r].seen[i] = 0
    BY <1>2 DEF RefreshBegins, NoItems
  <2> QED BY <2>5, <2>6, <2>7, <2>9
<1> QED BY <1>1, <1>2, RefreshStep

\* What two refreshes of one account know of each other, across a step.
LEMMA SeenInOrderStep ==
  ASSUME TypeInv, RowInv, SeenSinceBegun, SeenInOrder, FloorReached, [Next]_vars
  PROVE  SeenInOrder'
<1> SUFFICES ASSUME NEW r \in Requests, req'[r].at \in Refreshing,
                    account'[req'[r].op] # None, NEW i \in Items, req'[r].seen[i] # 0
             PROVE  /\ published'[req'[r].op] < req'[r].gen => floor'[req'[r].op][i] <= req'[r].seen[i]
                    /\ \A q \in Requests :
                         req'[q].at \in Refreshing /\ req'[q].op = req'[r].op
                           /\ req'[q].gen < req'[r].gen =>
                           req'[q].begun[i] <= req'[r].seen[i]
  BY DEF SeenInOrder
<1>1. RefreshGoesOn(r)
  <2>1. CASE RefreshBegins(r)
    BY <2>1 DEF RefreshBegins, NoItems
  <2> QED BY <2>1, RefreshStep
<1>2. PICK o \in Ops : o = req[r].op
  BY <1>1, RefreshFacts DEF RefreshGoesOn
<1>3. RowsMove
  BY RowsStep DEF RowInv
<1>4. account[o] # None /\ KeyNumber[req[r].key] = account[o].number
  BY <1>1, <1>2, <1>3, RefreshFacts DEF RefreshGoesOn, RowsMove
<1>5. req[r].gen \in Nat /\ req[r].seen[i] \in Nat /\ req[r].at \in Refreshing
      /\ KeyNumber[req[r].key] \in Numbers
  BY <1>1, RefreshFacts DEF RefreshGoesOn
<1>6. /\ req'[r].op = o /\ req'[r].gen = req[r].gen
  BY <1>1, <1>2 DEF RefreshGoesOn
<1>7. ASSUME NEW q \in Requests, req'[q].at \in Refreshing, req'[q].op = o, req'[q].gen < req[r].gen
      PROVE  RefreshGoesOn(q) /\ req[q].op = o /\ req[q].gen < req[r].gen
  <2>1. CASE RefreshBegins(q)
    <3>1. req[r].gen <= drawn /\ drawn \in Nat /\ req'[q].gen = drawn + 1
      BY <1>5, <2>1 DEF SeenSinceBegun, TypeInv, Stored, RefreshBegins
    <3> QED BY <1>5, <1>7, <3>1
  <2> QED BY <1>7, <2>1, RefreshStep DEF RefreshGoesOn
<1>8. CASE req'[r].seen = req[r].seen
  <2>1. /\ published[o] < req[r].gen => floor[o][i] <= req[r].seen[i]
        /\ \A q \in Requests :
             req[q].at \in Refreshing /\ req[q].op = o /\ req[q].gen < req[r].gen =>
               req[q].begun[i] <= req[r].seen[i]
    BY <1>2, <1>4, <1>5, <1>8 DEF SeenInOrder
  <2>2. \A q \in Requests :
             req'[q].at \in Refreshing /\ req'[q].op = o /\ req'[q].gen < req[r].gen =>
               req'[q].begun[i] <= req'[r].seen[i]
    BY <1>7, <1>8, <2>1 DEF RefreshGoesOn
  <2>3. ASSUME published'[o] < req[r].gen PROVE floor'[o][i] <= req[r].seen[i]
    <3>1. CASE floor'[o] = floor[o] /\ published'[o] = published[o]
      BY <2>1, <2>3, <3>1
    <3>2. CASE account'[o] = None
      BY <1>6, <3>2
    <3>3. ASSUME NEW q \in Requests, PublishRefresh(q), req[q].op = o,
                 published'[o] = req[q].gen, floor'[o] = Later(floor[o], req[q].begun)
          PROVE  floor'[o][i] <= req[r].seen[i]
      <4>1. req[q].at \in Refreshing /\ published[o] < req[q].gen /\ req[q].gen < req[r].gen
        BY <2>3, <3>3 DEF PublishRefresh, MayPublish, NewerGeneration, Refreshing
      <4>2. req[q].gen \in Nat /\ published[o] \in Nat
        BY <4>1, RefreshFacts DEF TypeInv, Stored
      <4>3. floor[o][i] <= req[r].seen[i] /\ req[q].begun[i] <= req[r].seen[i]
        BY <1>5, <2>1, <3>3, <4>1, <4>2
      <4> QED BY <3>3, <4>3 DEF Later
    <3> QED BY <3>1, <3>2, <3>3, TableStep
  <2> QED BY <1>6, <1>8, <2>2, <2>3
<1>9. CASE FetchesNow(r) /\ req'[r].seen # req[r].seen
  <2>1. CASE req'[r].seen[i] = req[r].seen[i]
    <3>1. /\ published[o] < req[r].gen => floor[o][i] <= req[r].seen[i]
          /\ \A q \in Requests :
               req[q].at \in Refreshing /\ req[q].op = o /\ req[q].gen < req[r].gen =>
                 req[q].begun[i] <= req[r].seen[i]
      BY <1>2, <1>4, <1>5, <2>1 DEF SeenInOrder
    <3> QED BY <1>6, <1>7, <1>9, <2>1, <3>1 DEF RefreshGoesOn, FetchesNow
  <2>2. CASE req'[r].seen[i] = Revision(r, i)
    <3>1. Revision(r, i) = broker[account[o].number][i].rev
      BY <1>4 DEF Revision
    <3>2. floor[o][i] <= Revision(r, i)
      BY <1>4, <3>1 DEF FloorReached
    <3>3. ASSUME NEW q \in Requests, req'[q].at \in Refreshing, req'[q].op = o,
                 req'[q].gen < req[r].gen
          PROVE  req'[q].begun[i] <= Revision(r, i)
      <4>1. RefreshGoesOn(q) /\ req[q].op = o
        BY <1>7, <3>3
      <4>2. req[q].begun[i] <= Revision(q, i)
        BY <4>1 DEF RefreshGoesOn, SeenSinceBegun
      <4>3. KeyNumber[req[q].key] = account[o].number
        BY <1>4, <4>1, RefreshFacts DEF RefreshGoesOn
      <4> QED BY <3>1, <4>1, <4>2, <4>3 DEF RefreshGoesOn, Revision
    <3> QED BY <1>6, <1>9, <2>2, <3>2, <3>3 DEF FetchesNow
  <2> QED BY <1>9, <2>1, <2>2 DEF FetchesNow
<1> QED BY <1>1, <1>8, <1>9 DEF RefreshGoesOn

\* Every action keeps the rows at or above the floor of their generation.
LEMMA FloorStep ==
  ASSUME TypeInv, RowInv, SeenSinceBegun, FloorReached, [Next]_vars
  PROVE  FloorReached'
<1> SUFFICES ASSUME NEW o \in Ops, NEW i \in Items
             PROVE  /\ ledger'[o] = None => floor'[o][i] = 0
                    /\ account'[o] # None => floor'[o][i] <= broker'[account'[o].number][i].rev
  BY DEF FloorReached
<1>0. TypeInv' /\ RowsMove /\ Rooted'
  BY TypeStep, RowsStep DEF RowInv
<1>1. ASSUME account'[o] # None
      PROVE  account'[o].number \in Numbers
  BY <1>0, <1>1 DEF TypeInv, Stored, Row
<1>2. CASE floor'[o] = floor[o]
  <2>1. ledger'[o] = None => floor'[o][i] = 0
    BY <1>0, <1>2 DEF RowsMove, FloorReached
  <2>2. ASSUME account'[o] # None, ledger[o] # None
        PROVE  floor'[o][i] <= broker'[account'[o].number][i].rev
    <3>1. account[o] # None /\ account'[o].number = account[o].number
      BY <1>0, <2>2 DEF RowsMove
    <3>2. floor[o][i] \in Nat /\ floor[o][i] <= broker[account[o].number][i].rev
      BY <3>1 DEF FloorReached, TypeInv, Stored
    <3> QED BY <1>1, <1>2, <2>2, <3>1, <3>2, BrokerGrows
  <2>3. ASSUME account'[o] # None, ledger[o] = None
        PROVE  floor'[o][i] <= broker'[account'[o].number][i].rev
    <3>1. floor'[o][i] = 0
      BY <1>2, <2>3 DEF FloorReached
    <3> QED BY <1>1, <2>3, <3>1, BrokerGrows
  <2> QED BY <2>1, <2>2, <2>3
<1>3. ASSUME NEW q \in Requests, PublishRefresh(q), req[q].op = o, UNCHANGED <<account, ledger, broker>>,
             floor'[o] = Later(floor[o], req[q].begun)
      PROVE  /\ ledger'[o] = None => floor'[o][i] = 0
             /\ account'[o] # None => floor'[o][i] <= broker'[account'[o].number][i].rev
  <2>1. req[q].at \in Refreshing /\ Live(o)
    BY <1>3 DEF PublishRefresh, MayPublish, SameIdentity, Refreshing
  <2>2. ledger[o] # None /\ account[o] # None /\ KeyNumber[req[q].key] = account[o].number
    BY <1>3, <2>1, RefreshFacts DEF Live
  <2>3. req[q].begun[i] <= broker[account[o].number][i].rev
    BY <2>1, <2>2 DEF SeenSinceBegun, Revision
  <2>4. floor[o][i] <= broker[account[o].number][i].rev
    BY <2>2 DEF FloorReached
  <2>5. floor'[o][i] \in {floor[o][i], req[q].begun[i]}
    BY <1>3 DEF Later
  <2> QED BY <1>3, <2>2, <2>3, <2>4, <2>5
<1> QED BY <1>2, <1>3, TableStep

\* Every action keeps the mirror as new as the generation it shows.
LEMMA MirrorStep ==
  ASSUME TypeInv, RowInv, MirrorInv, [Next]_vars
  PROVE  MirrorInv'
<1>1. SeenSinceBegun' /\ SeenInOrder' /\ FloorReached'
  BY SeenSinceStep, SeenInOrderStep, FloorStep DEF MirrorInv
<1>2. MirrorAsNewAsItsGeneration'
  <2> SUFFICES ASSUME NEW o \in Ops, NEW i \in Items, mirror'[o][i] # 0
               PROVE  mirror'[o][i] >= floor'[o][i]
    BY DEF MirrorAsNewAsItsGeneration
  <2>0. mirror[o][i] # 0 => mirror[o][i] >= floor[o][i]
    BY DEF MirrorInv, MirrorAsNewAsItsGeneration
  <2>1. CASE floor'[o] = floor[o] /\ mirror'[o][i] \in {mirror[o][i], 0}
    BY <2>0, <2>1
  <2>2. CASE mirror'[o] = NoItems
    BY <2>2 DEF NoItems
  <2>3. ASSUME NEW q \in Requests, PublishRefresh(q), req[q].op = o, mirror'[o] = Upserted(q),
               floor'[o] = Later(floor[o], req[q].begun)
        PROVE  mirror'[o][i] >= floor'[o][i]
    <3>1. req[q].at \in Refreshing /\ Live(o) /\ Reconciles(q) /\ published[o] < req[q].gen
      <4>1. req[q].gen > published[o]
        BY <2>3 DEF PublishRefresh, MayPublish, NewerGeneration
      <4>2. req[q].gen \in Nat /\ published[o] \in Nat
        BY <2>3, RefreshFacts DEF TypeInv, Stored, PublishRefresh, Refreshing
      <4> QED BY <2>3, <4>1, <4>2 DEF PublishRefresh, MayPublish, SameIdentity, Refreshing
    <3>2. req[q].seen[i] # 0 /\ mirror'[o][i] = req[q].seen[i]
      BY <2>3, <3>1 DEF Reconciles, Upserted
    <3>3. floor[o][i] <= req[q].seen[i]
      BY <2>3, <3>1, <3>2 DEF MirrorInv, SeenInOrder, Live
    <3>4. req[q].begun[i] <= req[q].seen[i]
      BY <3>1, <3>2 DEF MirrorInv, SeenSinceBegun
    <3>5. floor'[o][i] \in {floor[o][i], req[q].begun[i]}
      BY <2>3 DEF Later
    <3>6. floor[o][i] \in Nat /\ req[q].begun[i] \in Nat /\ req[q].seen[i] \in Nat
      BY <3>1, RefreshFacts DEF TypeInv, Stored
    <3> QED BY <3>2, <3>3, <3>4, <3>5, <3>6
  <2> QED BY <2>1, <2>2, <2>3, TableStep
<1> QED BY <1>1, <1>2 DEF MirrorInv

---------------------------------------------------------------------------
(* The theorems. *)

\* What a new account is made of.
LEMMA CreatedFields ==
  ASSUME NEW x
  PROVE  /\ Created(x).number = KeyNumber[x] /\ Created(x).key = x
         /\ Created(x).status = "connected"
  BY DEF Created

\* The initial states satisfy the inductive invariant.
LEMMA AccountInit == Init => AccountInv
<1> SUFFICES ASSUME Init PROVE AccountInv
  OBVIOUS
<1>1. PICK k \in [Existing -> Keys] :
        /\ \A o, p \in Existing : KeyNumber[k[o]] = KeyNumber[k[p]] => o = p
        /\ account = [o \in Ops |-> IF o \in Existing THEN Created(k[o]) ELSE None]
        /\ ledger = [o \in Ops |-> IF o \in Existing THEN [form |-> k[o], made |-> TRUE] ELSE None]
  BY DEF Init
<1>2. \A r \in Requests : req[r] = NoRequest
  BY DEF Init
<1>3. ASSUME NEW o \in Ops, account[o] # None
      PROVE  /\ o \in Existing /\ account[o] = Created(k[o]) /\ k[o] \in Keys
             /\ ledger[o] = [form |-> k[o], made |-> TRUE]
  <2>1. CASE o \notin Existing
    <3>1. account[o] = None
      BY <1>1, <2>1
    <3> QED BY <1>3, <3>1
  <2>2. CASE o \in Existing
    <3>1. account[o] = Created(k[o])
      BY <1>1, <2>2
    <3>2. ledger[o] = [form |-> k[o], made |-> TRUE]
      BY <1>1, <2>2
    <3> QED BY <2>2, <3>1, <3>2
  <2> QED BY <2>1, <2>2
<1>4. RowInv
  <2>1. \A o \in Ops : account[o] # None => account[o].number = KeyNumber[k[o]] /\ account[o].key = k[o]
    BY <1>3, CreatedFields
  <2>2. Rooted
    <3> SUFFICES ASSUME NEW o \in Ops, account[o] # None
                 PROVE  ledger[o] # None
      BY <2>1 DEF Rooted
    <3>1. k[o] \in Keys /\ ledger[o] = [form |-> k[o], made |-> TRUE]
      BY <1>3
    <3>2. ledger[o] \in Entry
      BY <3>1 DEF Entry
    <3> QED BY <3>2, NoneAssumption DEF Entry
  <2>4. OneAccountPerBinding
    <3> SUFFICES ASSUME NEW o \in Ops, NEW p \in Ops, Live(o), Live(p),
                        account[o].number = account[p].number
                 PROVE  o = p
      BY DEF OneAccountPerBinding
    <3>1. o \in Existing /\ p \in Existing
      BY <1>3 DEF Live
    <3>2. KeyNumber[k[o]] = KeyNumber[k[p]]
      BY <2>1 DEF Live
    <3> QED BY <1>1, <3>1, <3>2
  <2>3. Pinned /\ CreatedIsWhatWasAsked
    BY <1>2 DEF Pinned, CreatedIsWhatWasAsked, NoRequest, Verifying, Refreshing
  <2> QED BY <2>2, <2>3, <2>4 DEF RowInv
<1>5. VerdictInv
  <2>1. \A o \in Ops : account[o] # None => account[o].status # "auth_failed"
    <3> SUFFICES ASSUME NEW o \in Ops, account[o] # None
                 PROVE  account[o].status = "connected"
      OBVIOUS
    <3>1. account[o] = Created(k[o])
      BY <1>3
    <3> QED BY <3>1, CreatedFields
  <2>2. Condemned
    BY <2>1 DEF Condemned, Live
  <2>3. HeardRevoked
    BY <1>2 DEF HeardRevoked, NoRequest
  <2> QED BY <2>2, <2>3 DEF VerdictInv
<1>6. MirrorInv
  <2>1. SeenSinceBegun /\ SeenInOrder /\ MirrorAsNewAsItsGeneration
    BY <1>2 DEF SeenSinceBegun, SeenInOrder, MirrorAsNewAsItsGeneration, NoRequest, Refreshing,
       Init, NoItems
  <2>2. FloorReached
    <3>1. ASSUME NEW o \in Ops, account[o] # None PROVE account[o].number \in Numbers
      <4>1. account[o].number = KeyNumber[k[o]] /\ k[o] \in Keys
        BY <1>3, <3>1, CreatedFields
      <4> QED BY <4>1, KeysAssumption
    <3> QED BY <3>1 DEF FloorReached, Init, NoItems
  <2> QED BY <2>1, <2>2 DEF MirrorInv
<1> QED BY <1>4, <1>5, <1>6, TypeInit DEF AccountInv

\* Every action keeps the inductive invariant.
LEMMA AccountStep == AccountInv /\ [Next]_vars => AccountInv'
  BY TypeStep, RowStep, VerdictStep, MirrorStep DEF AccountInv, RowInv

\* The inductive invariant holds in every reachable state.
LEMMA AccountAlways == Spec => []AccountInv
  BY AccountInit, AccountStep, PTL DEF Spec

\* Every variable keeps its type, and an account has at most one open token.
THEOREM AccountTypes == Spec => []TypeOK
<1>1. AccountInv => TypeOK
  BY DEF AccountInv, TypeInv, Served, Stored, Outside, OneOpenToken, TypeOK
<1> QED BY AccountAlways, <1>1, PTL

\* One broker account is one active account.
THEOREM BindingCorrect == Spec => []OneAccountPerBinding
<1>1. AccountInv => OneAccountPerBinding
  BY DEF AccountInv, RowInv
<1> QED BY AccountAlways, <1>1, PTL

\* A request is told "created" only of the account its own form made.
THEOREM CreatedCorrect == Spec => []CreatedIsWhatWasAsked
<1>1. AccountInv => CreatedIsWhatWasAsked
  BY DEF AccountInv, RowInv
<1> QED BY AccountAlways, <1>1, PTL

\* No stored row is older than what the broker had when the newest published
\* generation began.
THEOREM MirrorCorrect == Spec => []MirrorAsNewAsItsGeneration
<1>1. AccountInv => MirrorAsNewAsItsGeneration
  BY DEF AccountInv, MirrorInv
<1> QED BY AccountAlways, <1>1, PTL

\* Verdicts and publications were learned with the keys stored at that moment, and
\* no late answer certifies keys found revoked.
THEOREM VerdictsCorrect == Spec => VerdictsAreCurrent
<1>1. AccountInv /\ [Next]_vars => [LearnedWithCurrentKeys /\ RevokedStaysRevoked]_vars
  BY LearnedStep, RevokedStep DEF AccountInv
<1> QED BY AccountAlways, <1>1, PTL DEF Spec, VerdictsAreCurrent
=============================================================================
