--------------------------- MODULE AccountService ---------------------------
(***************************************************************************)
(* The broker accounts of the dashboard: the Postgres functions of         *)
(* supabase/migrations (each in its last version) and the server code that *)
(* calls them, dashboard/lib/accounts and dashboard/app/api/accounts.      *)
(*                                                                         *)
(* A database function is one transaction that holds the account row, so   *)
(* it is one action.  Between two of its calls a request awaits the        *)
(* broker, and any other request may run.  One owner; an account's mode is *)
(* fixed at creation and left out.  An account is named by the operation   *)
(* that created it, a pair of keys by one name.                            *)
(***************************************************************************)
EXTENDS Integers, FiniteSets

CONSTANTS
  Ops,            \* operation ids the browser draws
  Existing,       \* operations that created an account before the model starts
  Requests,       \* HTTP requests, each served at most once
  Keys,           \* pairs of Alpaca keys
  Numbers,        \* broker account numbers
  KeyNumber,      \* the broker account a pair of keys opens
  Sessions,       \* days of the portfolio history
  Activities,     \* deposits and withdrawals
  MaxMoves,       \* bound: changes at the broker
  MaxFaults,      \* bound: lost answers, dead processes, silent brokers
  None

ASSUME KeysAssumption == KeyNumber \in [Keys -> Numbers]
ASSUME ExistingAssumption == Existing \subseteq Ops
ASSUME BoundsAssumption == MaxMoves \in Nat /\ MaxFaults \in Nat
ASSUME NoneAssumption ==
  None \notin Ops \cup Requests \cup Keys \cup Numbers
             \cup [number : Numbers, key : Keys, version : Nat, deleted : BOOLEAN,
                   status : {"connected", "auth_failed", "paused"}]
             \cup [form : Keys, made : BOOLEAN]

Items == Sessions \cup Activities

VARIABLES
  account,    \* accounts: the row an operation created
  ledger,     \* account_create_operation
  mirror,     \* equity_snapshots and cash_flows: 0, or the revision stored
  published,  \* broker_refresh_state.last_generation
  drawn,      \* broker_refresh_generation_seq
  verifying,  \* max(generation) of account_verification_token
  valid,      \* Alpaca: the keys it still accepts
  broker,     \* Alpaca: per account and row its revision, and whether it is reported
  req,        \* the requests being served
  dialog,     \* the browser's "Add account" dialog
  minted,     \* operation ids drawn so far
  moves,
  faults,
  floor       \* ghost: what the broker had when a published refresh began

database == <<account, ledger, mirror, published, drawn, verifying, floor>>
alpaca == <<valid, broker, moves>>
browser == <<dialog, minted>>
vars == <<database, alpaca, browser, req, faults>>

Row == [number : Numbers, key : Keys, version : Nat, deleted : BOOLEAN,
        status : {"connected", "auth_failed", "paused"}]
Entry == [form : Keys, made : BOOLEAN]
Steps == {"idle", "resolve", "validate", "create", "confirm", "ask", "record",
          "history", "walk", "publish", "check", "rotate", "done"}
Tokens == {"none", "open", "superseded"}
Answers == {"none", "created", "refused", "unknown", "ok", "connected", "auth_failed"}

NoRequest == [at |-> "idle", op |-> None, key |-> None, version |-> 0, gen |-> 0,
              token |-> "none", answer |-> "none", seen |-> [i \in Items |-> 0],
              begun |-> [i \in Items |-> 0]]

Request == [at : Steps, op : Ops \cup {None}, key : Keys \cup {None}, version : Nat,
            gen : Nat, token : Tokens, answer : Answers, seen : [Items -> Nat],
            begun : [Items -> Nat]]

\* Types; and an account has at most one open verification token (0023:273).
TypeOK ==
  /\ account \in [Ops -> Row \cup {None}]
  /\ ledger \in [Ops -> Entry \cup {None}]
  /\ mirror \in [Ops -> [Items -> Nat]]
  /\ published \in [Ops -> Nat]
  /\ drawn \in Nat
  /\ verifying \in [Ops -> Nat]
  /\ valid \in [Keys -> BOOLEAN]
  /\ broker \in [Numbers -> [Items -> [rev : Nat, shown : BOOLEAN]]]
  /\ req \in [Requests -> Request]
  /\ dialog \in [op : Ops \cup {None}, waits : Requests \cup {None}]
  /\ minted \subseteq Ops
  /\ moves \in 0..MaxMoves
  /\ faults \in 0..MaxFaults
  /\ floor \in [Ops -> [Items -> Nat]]
  /\ \A q, r \in Requests :
       req[q].token = "open" /\ req[r].token = "open" /\ req[q].op = req[r].op => q = r

Live(o) == o # None /\ account[o] # None /\ ~account[o].deleted

\* Plausible mistakes of the code, which the runs must notice.
NoUniqueIndex(n) == FALSE
OutcomeById(o, form) ==
  IF ledger[o] = None THEN "absent"
  ELSE IF ledger[o].made /\ Live(o) THEN "created" ELSE "unknown"
RecordsAnyToken(r) ==
  Live(req[r].op) /\ req[r].version = account[req[r].op].version
AnyGeneration(r) == TRUE
AnyIdentity(r) == Live(req[r].op)

\* The unique index on the broker binding of active accounts.
Bound(n) == \E o \in Ops : Live(o) /\ account[o].number = n

NoItems == [i \in Items |-> 0]

Created(k) == [number |-> KeyNumber[k], key |-> k, version |-> 1,
               deleted |-> FALSE, status |-> "connected"]

Init ==
  \E k \in [Existing -> Keys] :
    /\ \A o, p \in Existing : KeyNumber[k[o]] = KeyNumber[k[p]] => o = p
    /\ account = [o \in Ops |-> IF o \in Existing THEN Created(k[o]) ELSE None]
    /\ ledger = [o \in Ops |-> IF o \in Existing THEN [form |-> k[o], made |-> TRUE] ELSE None]
    /\ mirror = [o \in Ops |-> NoItems]
    /\ published = [o \in Ops |-> 0]
    /\ drawn = 0
    /\ verifying = [o \in Ops |-> 0]
    /\ valid = [x \in Keys |-> TRUE]
    /\ broker = [n \in Numbers |-> [i \in Items |-> [rev |-> 1, shown |-> TRUE]]]
    /\ req = [r \in Requests |-> NoRequest]
    /\ \E o \in Existing \cup {None} : dialog = [op |-> o, waits |-> None]
    /\ minted = Existing
    /\ moves = 0
    /\ faults = 0
    /\ floor = [o \in Ops |-> NoItems]

Goes(r, step) == req' = [req EXCEPT ![r].at = step]

\* A verification token is consumed or cancelled with the request that holds it.
Ends(r, answer) ==
  req' = [req EXCEPT ![r] = [NoRequest EXCEPT !.at = "done", !.answer = answer]]
AnswersCreated(r) ==
  req' = [req EXCEPT ![r] = [NoRequest EXCEPT !.at = "done", !.answer = "created",
                                              !.op = req[r].op, !.key = req[r].key]]
Fault == faults < MaxFaults /\ faults' = faults + 1

---------------------------------------------------------------------------
(* The broker. *)

Move == moves < MaxMoves /\ moves' = moves + 1

RevokeKey ==
  /\ Move
  /\ \E k \in Keys : valid[k] /\ valid' = [valid EXCEPT ![k] = FALSE]
  /\ UNCHANGED <<database, broker, browser, req, faults>>

\* The current session's equity moves, an activity is reversed or reported again.
BrokerMoves ==
  /\ Move
  /\ \E n \in Numbers, i \in Items, s \in BOOLEAN :
       broker' = [broker EXCEPT ![n][i] = [rev |-> @.rev + 1, shown |-> s]]
  /\ UNCHANGED <<database, valid, browser, req, faults>>

Reported(n, items) ==
  [i \in items |-> IF broker[n][i].shown THEN broker[n][i].rev ELSE 0]

---------------------------------------------------------------------------
(* Creating an account. *)

\* A submission, or its retry, with whatever the form holds now.
Submit(r) ==
  /\ dialog.waits = None
  /\ req[r].at = "idle"
  /\ \E k \in Keys, o \in IF dialog.op = None THEN Ops \ minted ELSE {dialog.op} :
       /\ req' = [req EXCEPT ![r] = [NoRequest EXCEPT !.at = "resolve", !.op = o, !.key = k]]
       /\ dialog' = [op |-> o, waits |-> r]
       /\ minted' = minted \cup {o}
  /\ UNCHANGED <<database, alpaca, faults>>

\* The answer never arrives: the id stays parked.
NetworkError ==
  /\ dialog.waits # None
  /\ Fault
  /\ dialog' = [dialog EXCEPT !.waits = None]
  /\ UNCHANGED <<database, alpaca, minted, req>>

CloseDialog ==
  /\ dialog.waits = None /\ dialog.op # None
  /\ dialog' = [dialog EXCEPT !.op = None]
  /\ UNCHANGED <<database, alpaca, minted, req, faults>>

\* Only an indeterminate answer keeps the id.
AnswerArrives ==
  /\ dialog.waits # None
  /\ req[dialog.waits].at = "done"
  /\ dialog' = [op |-> IF req[dialog.waits].answer = "unknown" THEN dialog.op ELSE None,
                waits |-> None]
  /\ UNCHANGED <<database, alpaca, minted, req, faults>>

\* resolve_create_operation and the read of the row it names.
Outcome(o, form) ==
  CASE ledger[o] = None                   -> "absent"
    [] ledger[o] # None /\ ledger[o].form # form -> "conflict"
    [] ledger[o] # None /\ ledger[o].form = form ->
         IF ledger[o].made /\ Live(o) THEN "created" ELSE "unknown"

ResolveFirst(r) ==
  /\ req[r].at = "resolve"
  /\ \/ /\ Outcome(req[r].op, req[r].key) = "created"
        /\ AnswersCreated(r)
        /\ UNCHANGED faults
     \/ /\ Outcome(req[r].op, req[r].key) = "conflict"
        /\ Ends(r, "refused")
        /\ UNCHANGED faults
     \/ /\ Outcome(req[r].op, req[r].key) \in {"absent", "unknown"}
        /\ Goes(r, "validate")
        /\ UNCHANGED faults
     \/ Fault /\ Goes(r, "validate")
  /\ UNCHANGED <<database, alpaca, browser>>

\* validateAlpacaKeys, for a creation and for a rotation.
ValidateKeys(r, from, next) ==
  /\ req[r].at = from
  /\ \/ valid[req[r].key] /\ Goes(r, next) /\ UNCHANGED faults
     \/ ~valid[req[r].key] /\ Ends(r, "refused") /\ UNCHANGED faults
     \/ Fault /\ Ends(r, "refused")
  /\ UNCHANGED <<database, alpaca, browser>>

ValidateNew(r) == ValidateKeys(r, "validate", "create")

\* create_account_operation: what a committed call answers, if it does not raise.
CreateOperation(r) ==
  LET o == req[r].op  k == req[r].key IN
  /\ req[r].at = "create"
  /\ \/ /\ ledger[o] # None
        /\ IF ledger[o].form = k /\ ledger[o].made
           THEN AnswersCreated(r) ELSE Goes(r, "confirm")
        /\ UNCHANGED <<account, ledger, faults>>
     \/ /\ ledger[o] = None /\ Bound(KeyNumber[k])
        /\ Goes(r, "confirm")
        /\ UNCHANGED <<account, ledger, faults>>
     \/ /\ ledger[o] = None /\ ~Bound(KeyNumber[k])
        /\ account' = [account EXCEPT ![o] = Created(k)]
        /\ ledger' = [ledger EXCEPT ![o] = [form |-> k, made |-> TRUE]]
        /\ \/ AnswersCreated(r) /\ UNCHANGED faults
           \/ Goes(r, "confirm") /\ Fault
  /\ UNCHANGED <<mirror, published, drawn, verifying, floor, alpaca, browser>>

\* The call never reaches the database.
CreateLost(r) ==
  /\ req[r].at = "create"
  /\ Fault
  /\ Goes(r, "confirm")
  /\ UNCHANGED <<database, alpaca, browser>>

ConfirmOperation(r) ==
  /\ req[r].at = "confirm"
  /\ \/ /\ UNCHANGED faults
        /\ CASE Outcome(req[r].op, req[r].key) = "created" -> AnswersCreated(r)
             [] Outcome(req[r].op, req[r].key) = "unknown" -> Ends(r, "unknown")
             [] OTHER -> Ends(r, "refused")
     \/ Fault /\ Ends(r, "unknown")
  /\ UNCHANGED <<database, alpaca, browser>>

---------------------------------------------------------------------------
(* Verification of the stored keys. *)

LeavesTokens(q, o) == FALSE
OpenToken(q, o) == req[q].op = o /\ req[q].token = "open"

\* begin_account_verification: one outstanding token per account.
BeginVerification(r) ==
  /\ req[r].at = "idle"
  /\ \E o \in Ops :
       /\ Live(o)
       /\ verifying' = [verifying EXCEPT ![o] = @ + 1]
       /\ req' = [q \in Requests |->
            IF q = r
            THEN [NoRequest EXCEPT !.at = "ask", !.op = o, !.key = account[o].key,
                    !.version = account[o].version, !.gen = verifying[o] + 1,
                    !.token = "open"]
            ELSE IF OpenToken(q, o) THEN [req[q] EXCEPT !.token = "superseded"]
            ELSE req[q]]
  /\ UNCHANGED <<account, ledger, mirror, published, drawn, floor, alpaca, browser, faults>>

\* GET /account with the pinned keys; no usable answer cancels the token.
AskBroker(r) ==
  /\ req[r].at = "ask"
  /\ \/ /\ req' = [req EXCEPT ![r].at = "record",
                              ![r].answer = IF valid[req[r].key] THEN "connected"
                                            ELSE "auth_failed"]
        /\ UNCHANGED faults
     \/ Fault /\ Ends(r, "refused")
  /\ UNCHANGED <<database, alpaca, browser>>

\* The checks of finish_account_verification under the account lock.
MayRecord(r) ==
  /\ Live(req[r].op)
  /\ req[r].token = "open"
  /\ req[r].gen = verifying[req[r].op]
  /\ req[r].version = account[req[r].op].version
  /\ req[r].answer = "connected" => KeyNumber[req[r].key] = account[req[r].op].number

FinishVerification(r) ==
  /\ req[r].at = "record"
  /\ MayRecord(r)
  /\ account' = [account EXCEPT ![req[r].op].status = req[r].answer]
  /\ Ends(r, "ok")
  /\ UNCHANGED <<ledger, mirror, published, drawn, verifying, floor, alpaca, browser, faults>>

\* Refused, or expired: the route answers CONFLICT and leaves the token.
VerificationRefused(r) ==
  /\ req[r].at = "record"
  /\ \/ ~MayRecord(r) /\ UNCHANGED faults
     \/ Fault
  /\ Ends(r, "refused")
  /\ UNCHANGED <<database, alpaca, browser>>

---------------------------------------------------------------------------
(* Refresh of the mirrors. *)

\* begin_broker_refresh_with_credentials
BeginRefresh(r) ==
  /\ req[r].at = "idle"
  /\ \E o \in Ops :
       /\ Live(o)
       /\ drawn' = drawn + 1
       /\ req' = [req EXCEPT ![r] =
            [NoRequest EXCEPT !.at = "history", !.op = o, !.key = account[o].key,
               !.version = account[o].version, !.gen = drawn + 1,
               !.begun = Reported(account[o].number, Items)]]
  /\ UNCHANGED <<account, ledger, mirror, published, verifying, floor, alpaca, browser, faults>>

\* fetchPortfolioHistory, then fetchCashActivities: complete, or nothing.
Fetch(r, from, items, next) ==
  /\ req[r].at = from
  /\ \/ /\ valid[req[r].key]
        /\ req' = [req EXCEPT ![r].at = next,
             ![r].seen = [i \in Items |->
                IF i \in items THEN Reported(KeyNumber[req[r].key], items)[i] ELSE @[i]]]
        /\ UNCHANGED faults
     \/ ~valid[req[r].key] /\ Ends(r, "refused") /\ UNCHANGED faults
     \/ Fault /\ Ends(r, "refused")
  /\ UNCHANGED <<database, alpaca, browser>>

FetchHistory(r) == Fetch(r, "history", Sessions, "walk")
WalkActivities(r) == Fetch(r, "walk", Activities, "publish")

SameIdentity(r) ==
  /\ Live(req[r].op)
  /\ req[r].version = account[req[r].op].version

NewerGeneration(r) == req[r].gen > published[req[r].op]

\* A stored row the payload omits refuses the whole publication.
Reconciles(r) ==
  \A i \in Items : mirror[req[r].op][i] # 0 => req[r].seen[i] # 0

MayPublish(r) == SameIdentity(r) /\ NewerGeneration(r) /\ Reconciles(r)

Upserted(r) ==
  [i \in Items |-> IF req[r].seen[i] # 0 THEN req[r].seen[i] ELSE mirror[req[r].op][i]]

Later(f, g) == [i \in Items |-> IF f[i] < g[i] THEN g[i] ELSE f[i]]

\* publish_broker_refresh
PublishRefresh(r) ==
  /\ req[r].at = "publish"
  /\ MayPublish(r)
  /\ mirror' = [mirror EXCEPT ![req[r].op] = Upserted(r)]
  /\ published' = [published EXCEPT ![req[r].op] = req[r].gen]
  /\ floor' = [floor EXCEPT ![req[r].op] = Later(@, req[r].begun)]
  /\ Ends(r, "ok")
  /\ UNCHANGED <<account, ledger, drawn, verifying, alpaca, browser, faults>>

RefreshRefused(r) ==
  /\ req[r].at = "publish"
  /\ \/ ~MayPublish(r) /\ UNCHANGED faults
     \/ Fault
  /\ Ends(r, "refused")
  /\ UNCHANGED <<database, alpaca, browser>>

\* retract_equity_snapshot, retract_cash_flow
Retract ==
  /\ \E o \in Ops, i \in Items :
       /\ Live(o) /\ mirror[o][i] # 0
       /\ mirror' = [mirror EXCEPT ![o][i] = 0]
  /\ UNCHANGED <<account, ledger, published, drawn, verifying, floor, alpaca, browser, req, faults>>

---------------------------------------------------------------------------
(* Rotation and deletion. *)

\* rotateKeys reads the row, then asks the broker about the new keys.
BeginRotation(r) ==
  /\ req[r].at = "idle"
  /\ \E o \in Ops, k \in Keys :
       /\ Live(o)
       /\ req' = [req EXCEPT ![r] =
            [NoRequest EXCEPT !.at = "check", !.op = o, !.key = k]]
  /\ UNCHANGED <<database, alpaca, browser, faults>>

ValidateRotated(r) == ValidateKeys(r, "check", "rotate")

\* rotate_account_credentials
MayRotate(r) ==
  /\ Live(req[r].op)
  /\ KeyNumber[req[r].key] = account[req[r].op].number

Rotate(r) ==
  /\ req[r].at = "rotate"
  /\ MayRotate(r)
  /\ account' = [account EXCEPT ![req[r].op].key = req[r].key,
                                ![req[r].op].version = @ + 1,
                                ![req[r].op].status = "connected"]
  /\ Ends(r, "ok")
  /\ UNCHANGED <<ledger, mirror, published, drawn, verifying, floor, alpaca, browser, faults>>

RotationRefused(r) ==
  /\ req[r].at = "rotate"
  /\ ~MayRotate(r)
  /\ Ends(r, "refused")
  /\ UNCHANGED <<database, alpaca, browser, faults>>

\* delete_account_atomic: soft, or with its history.
Delete ==
  /\ \E o \in Ops :
       /\ Live(o)
       /\ \/ /\ account' = [account EXCEPT ![o].deleted = TRUE, ![o].status = "paused",
                                           ![o].version = @ + 1]
             /\ UNCHANGED <<ledger, mirror, published, verifying, floor>>
          \/ /\ account' = [account EXCEPT ![o] = None]
             /\ ledger' = [ledger EXCEPT ![o].made = FALSE]
             /\ mirror' = [mirror EXCEPT ![o] = NoItems]
             /\ UNCHANGED floor
             /\ published' = [published EXCEPT ![o] = 0]
             /\ verifying' = [verifying EXCEPT ![o] = 0]
  /\ UNCHANGED <<drawn, alpaca, browser, req, faults>>

\* The server process of a request dies; its token stays outstanding, and the
\* browser sees a gateway's error page.
Dies(r) ==
  /\ req[r].at \notin {"idle", "done"}
  /\ Fault
  /\ Ends(r, "refused")
  /\ UNCHANGED <<database, alpaca, browser>>

Serve(r) ==
  \/ Submit(r) \/ ResolveFirst(r) \/ ValidateNew(r) \/ CreateOperation(r) \/ CreateLost(r)
  \/ ConfirmOperation(r)
  \/ BeginVerification(r) \/ AskBroker(r) \/ FinishVerification(r) \/ VerificationRefused(r)
  \/ BeginRefresh(r) \/ FetchHistory(r) \/ WalkActivities(r) \/ PublishRefresh(r)
  \/ RefreshRefused(r)
  \/ BeginRotation(r) \/ ValidateRotated(r) \/ Rotate(r) \/ RotationRefused(r)
  \/ Dies(r)

Next ==
  \/ \E r \in Requests : Serve(r)
  \/ NetworkError \/ CloseDialog \/ AnswerArrives
  \/ RevokeKey \/ BrokerMoves \/ Retract \/ Delete

Spec == Init /\ [][Next]_vars

---------------------------------------------------------------------------
(* Properties. *)

\* One broker account is one active account, however many submissions, retries
\* and lost answers it took to create it (0022:75-87).
OneAccountPerBinding ==
  \A o, p \in Ops :
    Live(o) /\ Live(p) /\ account[o].number = account[p].number => o = p

\* "Created" is answered only to the request whose form made the account; a
\* spent operation id never vouches for another form (0022:91-144).
CreatedIsWhatWasAsked ==
  \A r \in Requests :
    req[r].answer = "created" =>
      /\ ledger[req[r].op] # None
      /\ ledger[req[r].op].form = req[r].key

LearnedWithCurrentKeys ==
  \A r \in Requests :
    (req[r].at \in {"record", "publish"} /\ req'[r].at = "done"
       /\ req'[r].answer # "refused") =>
      /\ Live(req[r].op)
      /\ account[req[r].op].key = req[r].key

RevokedStaysRevoked ==
  \A o \in Ops :
    (Live(o) /\ account[o].status = "auth_failed"
       /\ account'[o] # None /\ account'[o].version = account[o].version)
      => account'[o].status # "connected"

\* What a verification concludes and what a refresh publishes was learned with the
\* keys stored at that moment: a rotation or deletion in between refuses it (0019:386,
\* 0023:374).  Verdicts count in the order in which the broker gave them: keys found
\* revoked are not certified again by an answer from before (0022:207, 0023).
VerdictsAreCurrent == [][LearnedWithCurrentKeys /\ RevokedStaysRevoked]_vars

\* No stored row is older than what the broker had when the newest published
\* generation began, whatever order refreshes fetch and publish in (0017:188).
MirrorAsNewAsItsGeneration ==
  \A o \in Ops, i \in Items : mirror[o][i] # 0 => mirror[o][i] >= floor[o][i]
=============================================================================
