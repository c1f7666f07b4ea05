---------------------------- MODULE ServerProofs ----------------------------
(***************************************************************************)
(* Proofs about the process and its HTTP surface, for every number of      *)
(* connections, keys, tenants and switches, any provisioned scopes, and    *)
(* any number of restarts.                                                 *)
(***************************************************************************)
EXTENDS Server, FiniteSetTheorems, TLAPS

\* The provers' limits are wall-clock time: a minute instead of the default five
\* seconds, so that a loaded machine does not decide what is proved.
USE SMTT(60), ZenonT(60)

\* What of a key's record never changes once the key exists.
Agree(r, s) == r.exists = s.exists /\ r.owner = s.owner /\ r.scopes = s.scopes

\* A request that authenticates runs the store's call for the key it presents, and
\* the call's copy of the record agrees with the store's.
CallOK(q, a) ==
    /\ a.pc # "idle" => q.pc = "auth" /\ q.key = {a.key}
    /\ a.pc \in {"tenant", "touch", "ok"} =>
           a.record.exists /\ Agree(a.record, keys[a.key]) /\ ~a.after
    /\ q.pc = "auth" => \E k \in Keys : q.key = {k}
    /\ q.pc \in {"auth", "handler", "upstream"} => q.endpoint \in DOMAIN Required
    /\ q.pc \in {"flip", "audit"} => q.flip \in Switches \X BOOLEAN

Calls_OK == \A c \in Callers : CallOK(http[c], auth[c])

\* What OnlyAuthorised says of one request.
Authorised(q) ==
    \E k \in q.key, t \in Tenants :
        /\ keys[k].exists
        /\ q.tenant = {t} /\ keys[k].owner = {t}
        /\ \/ Required[q.endpoint] \in keys[k].scopes
           \/ /\ keys[k].scopes = {}
              /\ \E i \in DOMAIN ledger : ledger[i] = LegacyEvent(t)

\* A request behind requireAuth is authorised, one the provider serves is the demo
\* tenant's, and the operator's endpoint is missing only in memory mode.
RequestOK(q) ==
    /\ q.pc \in {"handler", "upstream"} => Authorised(q)
    /\ q.status = 404 => backend = "memory"

Requests_OK == \A c \in Callers : RequestOK(http[c])

Events == [type: {"KILL_SWITCH_ON", "KILL_SWITCH_OFF", "LEGACY_UNSCOPED_KEY_USED"},
           subject: Switches \cup ({"tenant"} \X Tenants)]

\* The state of a process that is down, and of each store mode.
ModeOK ==
    /\ ledger \in Seq(Events)
    /\ ~process.up => \A c \in Callers : http[c] = NoRequest /\ auth[c] = NoCall
    /\ ~process.up /\ backend = "memory" => keys = [k \in Keys |-> NoRecord]
    /\ backend = "memory" => revoked = {}
    /\ process.up /\ backend = "postgres" => process.operator
    /\ \A k \in revoked : keys[k].exists /\ keys[k].revoked

IInv == ServerTypeOK /\ Calls_OK /\ Requests_OK /\ ModeOK

\* The process has not been started, and the store is empty.
LEMMA InvInit == ServerInit => IInv
<1> SUFFICES ASSUME ServerInit PROVE IInv
  OBVIOUS
<1> USE DEF ServerInit, Init
<1>1. NoCall \in Calls /\ NoRecord \in Records
  BY KeyStoreAssumptions DEF NoCall, Calls, NoRecord, Records
<1>2. TypeOK
  BY <1>1, KeyStoreAssumptions DEF TypeOK, NoRecord
<1>3. NoRequest \in Requests
  BY DEF NoRequest, Requests, Endpoints
<1>4. ServerTypeOK
  BY <1>2, <1>3, ServerAssumptions DEF ServerTypeOK, Down, NoFlips
<1>5. Calls_OK
  BY DEF Calls_OK, CallOK, NoRequest, NoCall
<1>6. ModeOK
  BY DEF ModeOK, Down, NoRequest, NoCall
<1>7. Requests_OK
  BY DEF Requests_OK, RequestOK, NoRequest
<1> QED
  BY <1>4, <1>5, <1>6, <1>7 DEF IInv

\* A request is served only while the process is up.
LEMMA BusyIsUp == ASSUME IInv, NEW c \in Callers, http[c].pc # "idle" PROVE process.up
BY DEF IInv, ModeOK, NoRequest

\* The statuses a request is answered with.
Statuses == {200, 400, 401, 402, 403, 404, 405, 413, 429, 500, 502}

\* A fresh request.
LEMMA Fresh == NoRequest \in Requests /\ NoRequest.status = 0
BY DEF NoRequest, Requests, Endpoints

\* The answer to a request says nothing but its status.
LEMMA Answer ==
    ASSUME NEW status \in Statuses
    PROVE  /\ [NoRequest EXCEPT !.pc = "done", !.status = status] \in Requests
           /\ [NoRequest EXCEPT !.pc = "done", !.status = status].pc = "done"
           /\ [NoRequest EXCEPT !.pc = "done", !.status = status].status = status
<1> DEFINE p == [NoRequest EXCEPT !.pc = "done"]
           q == [NoRequest EXCEPT !.pc = "done", !.status = status]
<1>1. p \in Requests
  BY Fresh DEF Requests
<1>2. q = [p EXCEPT !.status = status] /\ q.pc = "done" /\ q.status = status
  BY Fresh DEF Requests
<1> HIDE DEF p, q
<1>3. q \in Requests
  BY <1>1, <1>2 DEF Requests, Statuses
<1> QED
  BY <1>2, <1>3 DEF q

\* A request that goes on to Authenticate, with the key it presents.
LEMMA Presented_OK ==
    ASSUME NEW c \in Callers, auth[c].pc = "idle", NEW e \in DOMAIN Required, NEW k \in Keys
    PROVE  /\ [NoRequest EXCEPT !.pc = "auth", !.endpoint = e, !.key = {k}] \in Requests
           /\ CallOK([NoRequest EXCEPT !.pc = "auth", !.endpoint = e, !.key = {k}], auth[c])
           /\ RequestOK([NoRequest EXCEPT !.pc = "auth", !.endpoint = e, !.key = {k}])
<1> DEFINE p == [NoRequest EXCEPT !.pc = "auth"]
           o == [p EXCEPT !.endpoint = e]
           q == [NoRequest EXCEPT !.pc = "auth", !.endpoint = e, !.key = {k}]
<1>1. p \in Requests
  BY Fresh DEF Requests
<1>2. q = [o EXCEPT !.key = {k}] /\ q.pc = "auth" /\ q.endpoint = e /\ q.status = 0 /\ q.key = {k}
  BY Fresh DEF Requests
<1> HIDE DEF p, q
<1>3. o \in Requests
  BY <1>1 DEF Requests, Endpoints
<1> HIDE DEF o
<1>4. q \in Requests
  BY <1>2, <1>3 DEF Requests
<1>5. CallOK(q, auth[c])
  BY <1>2 DEF CallOK
<1>6. RequestOK(q)
  BY <1>2 DEF RequestOK
<1> QED
  BY <1>4, <1>5, <1>6 DEF q

\* A request that goes on to flip a switch.
LEMMA Operator_OK ==
    ASSUME NEW c \in Callers, auth[c].pc = "idle", NEW e \in Endpoints,
           NEW s \in Switches, NEW on \in BOOLEAN
    PROVE  /\ [NoRequest EXCEPT !.pc = "flip", !.endpoint = e, !.flip = <<s, on>>] \in Requests
           /\ CallOK([NoRequest EXCEPT !.pc = "flip", !.endpoint = e, !.flip = <<s, on>>], auth[c])
           /\ RequestOK([NoRequest EXCEPT !.pc = "flip", !.endpoint = e, !.flip = <<s, on>>])
<1> DEFINE p == [NoRequest EXCEPT !.pc = "flip"]
           o == [p EXCEPT !.endpoint = e]
           q == [NoRequest EXCEPT !.pc = "flip", !.endpoint = e, !.flip = <<s, on>>]
<1>1. p \in Requests
  BY Fresh DEF Requests
<1>2. q = [o EXCEPT !.flip = <<s, on>>] /\ q.pc = "flip" /\ q.flip = <<s, on>> /\ q.status = 0
  BY Fresh DEF Requests
<1> HIDE DEF p, q
<1>3. o \in Requests
  BY <1>1 DEF Requests
<1> HIDE DEF o
<1>4. q \in Requests
  BY <1>2, <1>3 DEF Requests
<1>5. CallOK(q, auth[c])
  BY <1>2 DEF CallOK
<1>6. RequestOK(q)
  BY <1>2 DEF RequestOK
<1> QED
  BY <1>4, <1>5, <1>6 DEF q

\* A step that changes one request and nothing else keeps the invariant if it leaves
\* the request in order.
LEMMA HttpStep ==
    ASSUME IInv, process.up, NEW c \in Callers, NEW q \in Requests,
           CallOK(q, auth[c]), RequestOK(q), http' = [http EXCEPT ![c] = q], UNCHANGED <<vars, boot, trail>>
    PROVE  IInv'
<1> USE DEF vars, boot, trail
<1>1. ServerTypeOK'
  BY DEF IInv, ServerTypeOK, TypeOK, Calls, Records
<1>2. Calls_OK'
  BY ZenonT(60) DEF IInv, ServerTypeOK, Calls_OK, CallOK, Agree
<1>3. ModeOK'
  BY DEF IInv, ModeOK
<1>4. Requests_OK'
  <2> SUFFICES ASSUME NEW d \in Callers PROVE RequestOK(http[d])'
    BY DEF Requests_OK
  <2>1. http'[d] = IF d = c THEN q ELSE http[d]
    BY DEF IInv, ServerTypeOK
  <2>2. RequestOK(http[d])
    BY DEF IInv, Requests_OK
  <2>3. CASE d = c
    BY <2>1, <2>3 DEF RequestOK, Authorised
  <2>4. CASE d # c
    BY <2>1, <2>2, <2>4 DEF RequestOK, Authorised
  <2> QED
    BY <2>3, <2>4
<1> QED
  BY <1>1, <1>2, <1>3, <1>4 DEF IInv

\* The answer to a request whose connection runs no call of the store.
LEMMA RespondInv ==
    ASSUME IInv, process.up, NEW c \in Callers, auth[c].pc = "idle",
           NEW status \in Statuses, status = 404 => backend = "memory",
           Respond(c, status), UNCHANGED <<vars, boot, trail>>
    PROVE  IInv'
<1> DEFINE q == [NoRequest EXCEPT !.pc = "done", !.status = status]
<1>1. q \in Requests /\ q.pc = "done" /\ q.status = status
  BY Answer, Zenon
<1>2. http' = [http EXCEPT ![c] = q]
  BY DEF Respond, Go
<1> HIDE DEF q
<1>3. CallOK(q, auth[c]) /\ RequestOK(q)
  BY <1>1 DEF CallOK, RequestOK
<1> QED
  BY <1>1, <1>2, <1>3, HttpStep, Zenon

\* A request arrives on a connection that runs no call of the store.
LEMMA ArriveInv == ASSUME IInv, NEW c \in Callers, NEW e \in Endpoints, Arrive(c, e) PROVE IInv'
<1>1. process.up /\ auth[c].pc = "idle" /\ UNCHANGED <<vars, boot, trail>>
  BY DEF Arrive, IInv, Calls_OK, CallOK
<1>2. ASSUME NEW status \in Statuses, Respond(c, status), status = 404 => backend = "memory"
      PROVE  IInv'
  BY <1>1, <1>2, RespondInv
<1>3. ASSUME e \in DOMAIN Required,
             NEW k \in Keys, Go(c, [NoRequest EXCEPT !.pc = "auth", !.endpoint = e, !.key = {k}])
      PROVE  IInv'
  <2> DEFINE q == [NoRequest EXCEPT !.pc = "auth", !.endpoint = e, !.key = {k}]
  <2>1. q \in Requests /\ CallOK(q, auth[c]) /\ RequestOK(q)
    BY <1>1, <1>3, Presented_OK, Zenon
  <2>2. http' = [http EXCEPT ![c] = q]
    BY <1>3 DEF Go
  <2> HIDE DEF q
  <2> QED
    BY <1>1, <2>1, <2>2, HttpStep, Zenon
<1>4. ASSUME NEW s \in Switches, NEW on \in BOOLEAN,
             Go(c, [NoRequest EXCEPT !.pc = "flip", !.endpoint = e, !.flip = <<s, on>>])
      PROVE  IInv'
  <2> DEFINE q == [NoRequest EXCEPT !.pc = "flip", !.endpoint = e, !.flip = <<s, on>>]
  <2>1. q \in Requests /\ CallOK(q, auth[c]) /\ RequestOK(q)
    BY <1>1, Operator_OK, Zenon
  <2>2. http' = [http EXCEPT ![c] = q]
    BY <1>4 DEF Go
  <2> HIDE DEF q
  <2> QED
    BY <1>1, <2>1, <2>2, HttpStep, Zenon
<1>5. ASSUME e \in DOMAIN Required, RequireAuth(c, e) PROVE IInv'
  <2>1. Respond(c, 401) \/ \E k \in Keys : Go(c, [NoRequest EXCEPT !.pc = "auth", !.endpoint = e, !.key = {k}])
    BY <1>5, Zenon DEF RequireAuth
  <2>2. CASE Respond(c, 401)
    BY <1>2, <2>2 DEF Statuses
  <2>3. CASE \E k \in Keys : Go(c, [NoRequest EXCEPT !.pc = "auth", !.endpoint = e, !.key = {k}])
    BY <1>3, <1>5, <2>3, Zenon
  <2> QED
    BY <2>1, <2>2, <2>3, Zenon
<1>6. ASSUME RequireOperator(c, e) PROVE IInv'
  <2> DEFINE Asks == \E s \in Switches, on \in BOOLEAN :
                 Go(c, [NoRequest EXCEPT !.pc = "flip", !.endpoint = e, !.flip = <<s, on>>])
  <2>1. \/ Respond(c, 404) /\ ~process.operator
        \/ (\E status \in {401, 405, 400} : Respond(c, status))
        \/ Asks
    BY <1>6, Zenon DEF RequireOperator
  <2>2. Asks => IInv'
    BY <1>4, Zenon
  <2>3. ~process.operator => backend = "memory"
    BY <1>1, KeyStoreAssumptions DEF IInv, ModeOK, ServerTypeOK, TypeOK
  <2> HIDE DEF Asks
  <2> QED
    BY <1>2, <2>1, <2>2, <2>3 DEF Statuses
<1>7. 200 \in Statuses /\ 429 \in Statuses
  BY DEF Statuses
<1> QED
  BY <1>2, <1>5, <1>6, <1>7 DEF Arrive

\* The handlers behind requireAuth, the end of the upstream call, and an
\* Authenticate whose query failed.
LEMMA ServeInv ==
    ASSUME IInv, NEW c \in Callers, AuthenticateFails(c) \/ Serve(c) \/ Upstream(c) PROVE IInv'
<1>1. process.up
  BY BusyIsUp DEF AuthenticateFails, Serve, Upstream
<1>2. auth[c].pc = "idle"
  BY DEF AuthenticateFails, Serve, Upstream, IInv, Calls_OK, CallOK
<1>3. ASSUME NEW status \in Statuses, Respond(c, status), status # 404 PROVE IInv'
  <2>1. UNCHANGED <<vars, boot, trail>>
    BY DEF AuthenticateFails, Serve, Upstream
  <2> QED
    BY <1>1, <1>2, <1>3, <2>1, RespondInv
<1>4. ASSUME Serve(c), Go(c, [http[c] EXCEPT !.pc = "upstream"]) PROVE IInv'
  <2> DEFINE q == [http[c] EXCEPT !.pc = "upstream"]
  <2>1. http[c] \in Requests /\ http[c].endpoint \in DOMAIN Required /\ RequestOK(http[c])
    BY <1>4 DEF Serve, IInv, ServerTypeOK, Calls_OK, CallOK, Requests_OK
  <2>2. /\ q \in Requests /\ q.pc = "upstream"
        /\ q.endpoint = http[c].endpoint /\ q.key = http[c].key
        /\ q.tenant = http[c].tenant /\ q.status = http[c].status
    BY <2>1 DEF Requests
  <2> HIDE DEF q
  <2>3. CallOK(q, auth[c])
    BY <1>2, <2>1, <2>2 DEF CallOK
  <2>4. Authorised(http[c])
    BY <1>4, <2>1 DEF Serve, RequestOK
  <2>5. Authorised(q)
    BY <2>2, <2>4 DEF Authorised
  <2>6. q.status = 404 => backend = "memory"
    BY <2>1, <2>2 DEF RequestOK
  <2>7. RequestOK(q)
    BY <2>5, <2>6 DEF RequestOK
  <2>8. http' = [http EXCEPT ![c] = q]
    BY <1>4 DEF Go, q
  <2>9. UNCHANGED <<vars, boot, trail>>
    BY <1>4 DEF Serve
  <2> QED
    BY <1>1, <2>2, <2>3, <2>7, <2>8, <2>9, HttpStep, Zenon
<1>5. {200, 402, 413, 429, 500, 502} \subseteq Statuses \ {404}
  BY DEF Statuses
<1> QED
  BY <1>3, <1>4, <1>5 DEF AuthenticateFails, Serve, Upstream

-----------------------------------------------------------------------------
\* A step keeps what requests rely on: the owner and the scopes of a key that
\* exists, and the events in the ledger.
RecordsKept == \A k \in Keys : keys[k].exists => Agree(keys'[k], keys[k])
LedgerKept == \A i \in DOMAIN ledger : i \in DOMAIN ledger' /\ ledger'[i] = ledger[i]

\* Such a step leaves the requests that it does not change in order.
LEMMA CallerKept ==
    ASSUME IInv, RecordsKept, LedgerKept, backend' = backend,
           NEW c \in Callers, http'[c] = http[c], auth'[c] = auth[c]
    PROVE  CallOK(http[c], auth[c])' /\ RequestOK(http[c])'
<1>1. CallOK(http[c], auth[c]) /\ RequestOK(http[c]) /\ http[c] \in Requests /\ auth[c] \in Calls
  BY DEF IInv, Calls_OK, Requests_OK, ServerTypeOK, TypeOK
<1>2. CallOK(http[c], auth[c])'
  BY <1>1 DEF CallOK, RecordsKept, Agree, Calls
<1>3. ASSUME Authorised(http[c]) PROVE Authorised(http[c])'
  <2>1. PICK k \in http[c].key, t \in Tenants :
            /\ keys[k].exists
            /\ http[c].tenant = {t} /\ keys[k].owner = {t}
            /\ \/ Required[http[c].endpoint] \in keys[k].scopes
               \/ /\ keys[k].scopes = {}
                  /\ \E i \in DOMAIN ledger : ledger[i] = LegacyEvent(t)
    BY <1>3 DEF Authorised
  <2>2. k \in Keys
    BY <1>1 DEF Requests
  <2>3. keys'[k].exists /\ keys'[k].owner = {t} /\ keys'[k].scopes = keys[k].scopes
    BY <2>1, <2>2 DEF RecordsKept, Agree
  <2>4. (\E i \in DOMAIN ledger : ledger[i] = LegacyEvent(t)) =>
            \E i \in DOMAIN ledger' : ledger'[i] = LegacyEvent(t)
    BY DEF LedgerKept
  <2> QED
    BY <2>1, <2>3, <2>4 DEF Authorised, LegacyEvent
<1>4. RequestOK(http[c])'
  BY <1>1, <1>3 DEF RequestOK
<1> QED
  BY <1>2, <1>4

\* Start-up: no connection is served yet.
LEMMA StartInv == ASSUME IInv, NEW config \in Configs, Start(config) PROVE IInv'
<1> USE DEF Start, trail, IInv
<1>1. /\ \A c \in Callers : http[c] = NoRequest /\ auth[c] = NoCall
      /\ ~process.up /\ ledger = <<>> /\ kills = {} /\ funded = {}
  BY DEF ModeOK, ServerTypeOK
<1>2. Calls_OK' /\ Requests_OK'
  <2>1. NoRequest.pc = "idle" /\ NoRequest.status = 0 /\ NoCall.pc = "idle"
    BY DEF NoRequest, NoCall
  <2>2. \A c \in Callers : http'[c] = NoRequest /\ auth'[c] = NoCall
    BY <1>1
  <2>3. Calls_OK'
    BY <2>1, <2>2 DEF Calls_OK, CallOK
  <2>4. Requests_OK'
    BY <2>1, <2>2 DEF Requests_OK, RequestOK
  <2> QED
    BY <2>3, <2>4
<1>3. CASE backend = "memory" /\ Bootstrap(config)
  <2>1. PICK k \in Keys \ issued :
            /\ tenants' = {Demo}
            /\ keys' = [keys EXCEPT ![k] = NewRecord(Demo, DemoScopes)]
            /\ issued' = issued \cup {k}
            /\ funded' = IF config.budget > 0 THEN {Demo} ELSE {}
    BY <1>3, Zenon DEF Bootstrap
  <2>2. NoRecord \in Records /\ ~NoRecord.exists
    BY DEF NoRecord, Records
  <2>3. NewRecord(Demo, DemoScopes) \in Records /\ NewRecord(Demo, DemoScopes).owner = {Demo}
    BY ServerAssumptions, Zenon DEF NewRecord, NoRecord, Records
  <2>4. keys = [j \in Keys |-> NoRecord]
    BY <1>1, <1>3 DEF ModeOK
  <2>5. keys' \in [Keys -> Records] /\ \A j \in Keys : keys'[j].exists => keys'[j].owner = {Demo}
    BY <2>1, <2>2, <2>3, <2>4
  <2>6. TypeOK'
    BY <2>1, <2>5, ServerAssumptions, Zenon DEF ServerTypeOK, TypeOK
  <2>7. ServerTypeOK'
    BY <1>1, <2>1, <2>6, ServerAssumptions DEF ServerTypeOK
  <2>8. ModeOK'
    BY <1>1, <1>3, <2>1, Zenon DEF ModeOK
  <2> QED
    BY <1>2, <2>7, <2>8
<1>4. CASE backend = "postgres" /\ UNCHANGED <<tenants, keys, issued, funded>>
  <2>1. TypeOK'
    BY <1>4 DEF ServerTypeOK, TypeOK
  <2>2. ServerTypeOK'
    BY <1>1, <1>4, <2>1, ServerAssumptions DEF ServerTypeOK
  <2>3. config.token # 0
    BY <1>4 DEF Validate, Configs
  <2>4. ModeOK'
    BY <1>1, <1>4, <2>3, Zenon DEF ModeOK
  <2> QED
    BY <1>2, <2>2, <2>4
<1> QED
  BY <1>3, <1>4

\* A crash leaves a process that is down, with no connection.
LEMMA CrashInv == ASSUME IInv, Crash PROVE IInv'
<1> USE DEF Crash, IInv
<1>1. NoCall \in Calls /\ NoRecord \in Records /\ ~NoRecord.exists
  BY KeyStoreAssumptions DEF NoCall, Calls, NoRecord, Records
<1>2. TypeOK'
  BY <1>1 DEF ServerTypeOK, TypeOK
<1>3. ServerTypeOK'
  BY <1>2, Fresh DEF ServerTypeOK, Down, NoFlips
<1>4. Calls_OK' /\ Requests_OK'
  <2>1. http' = [c \in Callers |-> NoRequest] /\ auth' = [c \in Callers |-> NoCall]
    BY Zenon
  <2>2. NoRequest.pc = "idle" /\ NoRequest.status = 0 /\ NoCall.pc = "idle"
    BY DEF NoRequest, NoCall
  <2>3. NoRequest.status # 404
    BY <2>2
  <2>4. ASSUME NEW c \in Callers PROVE CallOK(http[c], auth[c])' /\ RequestOK(http[c])'
    <3>1. http'[c] = NoRequest /\ auth'[c] = NoCall
      BY <2>1, Zenon
    <3> QED
      BY <2>2, <2>3, <3>1, ZenonT(60) DEF CallOK, RequestOK
  <2> QED
    BY <2>4, Zenon DEF Calls_OK, Requests_OK
<1>5. ModeOK'
  BY DEF ModeOK, Down
<1> QED
  BY <1>3, <1>4, <1>5

\* Provisioning: keys are created once, and revoking one changes nothing else of it.
LEMMA ProvisionInv == ASSUME IInv, Provision PROVE IInv'
<1> USE DEF Provision, IInv, boot, trail
<1>1. ASSUME RecordsKept, auth' = auth, backend' = backend, TypeOK', tenants \subseteq tenants',
             \A k \in revoked' : keys'[k].exists /\ keys'[k].revoked
      PROVE  IInv'
  <2>1. Calls_OK' /\ Requests_OK'
    BY <1>1, CallerKept DEF Calls_OK, Requests_OK, LedgerKept
  <2>2. ServerTypeOK'
    BY <1>1 DEF ServerTypeOK
  <2>3. ModeOK'
    BY <1>1 DEF ModeOK
  <2> QED
    BY <2>1, <2>2, <2>3
<1>2. ASSUME NEW t \in Tenants, CreateTenant(t) PROVE IInv'
  <2>1. TypeOK'
    BY <1>2 DEF ServerTypeOK, TypeOK, CreateTenant
  <2>2. RecordsKept /\ \A k \in revoked' : keys'[k].exists /\ keys'[k].revoked
    BY <1>2 DEF CreateTenant, RecordsKept, Agree, ModeOK
  <2> QED
    BY <1>1, <1>2, <2>1, <2>2 DEF CreateTenant
<1>3. ASSUME NEW k \in Keys, NEW t \in Tenants, NEW g \in Grants, CreateAPIKey(k, t, g) PROVE IInv'
  <2>1. NewRecord(t, g) \in Records /\ NewRecord(t, g).owner = {t}
    BY Zenon DEF NewRecord, NoRecord, Records
  <2>2. TypeOK'
    BY <1>3, <2>1, Zenon DEF ServerTypeOK, TypeOK, CreateAPIKey, GetTenant
  <2>3. RecordsKept /\ \A j \in revoked' : keys'[j].exists /\ keys'[j].revoked
    BY <1>3, Zenon DEF CreateAPIKey, RecordsKept, Agree, ModeOK, ServerTypeOK, TypeOK
  <2> QED
    BY <1>1, <1>3, <2>2, <2>3 DEF CreateAPIKey
<1>4. ASSUME NEW k \in Keys, RevokeAPIKey(k) PROVE IInv'
  <2> DEFINE r == [keys[k] EXCEPT !.revoked = TRUE]
  <2>1. /\ r \in Records /\ r.exists = keys[k].exists /\ r.owner = keys[k].owner
        /\ r.scopes = keys[k].scopes /\ r.revoked
    <3>1. keys[k] \in Records
      BY Zenon DEF ServerTypeOK, TypeOK
    <3>2. r \in Records
      BY <3>1, Zenon DEF Records
    <3> QED
      BY <3>1, <3>2 DEF Records
  <2>2. keys' = [keys EXCEPT ![k] = r]
    BY <1>4 DEF RevokeAPIKey
  <2> HIDE DEF r
  <2>3. TypeOK'
    <3>1. /\ revoked' = revoked \cup {k}
          /\ UNCHANGED <<backend, tenants, auth>>
      BY <1>4 DEF RevokeAPIKey
    <3> QED
      BY <2>1, <2>2, <3>1, ZenonT(60) DEF ServerTypeOK, TypeOK
  <2>4. RecordsKept /\ \A j \in revoked' : keys'[j].exists /\ keys'[j].revoked
    BY <1>4, <2>1, <2>2 DEF RevokeAPIKey, RecordsKept, Agree, ModeOK, ServerTypeOK, TypeOK
  <2> QED
    BY <1>1, <1>4, <2>3, <2>4 DEF RevokeAPIKey
<1> QED
  BY <1>2, <1>3, <1>4

\* A step of one connection keeps the invariant if it leaves its own request in
\* order and keeps what the others rely on.
LEMMA OneCaller ==
    ASSUME IInv, RecordsKept, LedgerKept, backend' = backend, NEW c \in Callers,
           \A d \in Callers \ {c} : http'[d] = http[d] /\ auth'[d] = auth[d],
           CallOK(http[c], auth[c])', RequestOK(http[c])', ServerTypeOK', ModeOK'
    PROVE  IInv'
<1>1. ASSUME NEW d \in Callers PROVE CallOK(http[d], auth[d])' /\ RequestOK(http[d])'
  <2>1. CASE d = c
    BY <2>1
  <2>2. CASE d # c
    BY <2>2, CallerKept
  <2> QED
    BY <2>1, <2>2
<1> QED
  BY <1>1, Zenon DEF IInv, Calls_OK, Requests_OK

\* The steps of the store's Authenticate.
LEMMA AuthenticateInv == ASSUME IInv, NEW c \in Callers, Authenticate(c) PROVE IInv'
<1> USE DEF boot, trail
<1>1. /\ http[c].pc = "auth" /\ http[c] \in Requests /\ auth[c] \in Calls
      /\ CallOK(http[c], auth[c]) /\ RequestOK(http[c])
      /\ UNCHANGED <<boot, trail, http>>
  BY DEF Authenticate, IInv, ServerTypeOK, TypeOK, Calls_OK, Requests_OK
<1>2. process.up /\ LedgerKept
  BY <1>1, BusyIsUp DEF LedgerKept
<1>3. ASSUME NEW a \in Calls, auth' = [auth EXCEPT ![c] = a], backend' = backend,
             UNCHANGED <<tenants, revoked>>, RecordsKept, keys' \in [Keys -> Records],
             revoked # {} => keys' = keys,
             \A k \in Keys : keys'[k].exists => keys[k].exists,
             a.pc # "idle", http[c].key = {a.key},
             a.pc \in {"tenant", "touch", "ok"} =>
                 a.record.exists /\ Agree(a.record, keys'[a.key]) /\ ~a.after
      PROVE  IInv'
  <2>1. TypeOK'
    <3>1. ASSUME NEW k \in Keys, keys'[k].exists PROVE \E t \in tenants : keys'[k].owner = {t}
      <4>1. keys[k].exists /\ keys'[k].owner = keys[k].owner
        BY <1>3, <3>1, Zenon DEF RecordsKept, Agree
      <4> QED
        BY <4>1, Zenon DEF IInv, ServerTypeOK, TypeOK
    <3>2. auth' \in [Callers -> Calls]
      BY <1>3, Zenon DEF IInv, ServerTypeOK, TypeOK
    <3> QED
      BY <1>3, <3>1, <3>2, Zenon DEF IInv, ServerTypeOK, TypeOK
  <2>2. ServerTypeOK'
    BY <1>1, <1>3, <2>1, Zenon DEF IInv, ServerTypeOK
  <2>3. ModeOK'
    BY <1>1, <1>2, <1>3, Zenon DEF IInv, ModeOK
  <2>4. auth'[c] = a /\ \A d \in Callers \ {c} : auth'[d] = auth[d]
    BY <1>3, Zenon DEF IInv, ServerTypeOK, TypeOK
  <2>5. CallOK(http[c], auth[c])'
    BY <1>1, <1>3, <2>4, Zenon DEF CallOK
  <2>6. RequestOK(http[c])'
    BY <1>1, <1>3, Zenon DEF RequestOK
  <2> QED
    BY <1>1, <1>2, <1>3, <2>2, <2>3, <2>4, <2>5, <2>6, OneCaller, ZenonT(60)
<1>4. ASSUME NEW k \in http[c].key, AuthLookup(c, k) PROVE IInv'
  <2> DEFINE a == [pc |-> Verdict(keys[k]), key |-> k, record |-> keys[k], after |-> k \in revoked]
  <2>1. k \in Keys /\ http[c].key = {k} /\ keys[k] \in Records
    BY <1>1, Zenon DEF CallOK, IInv, ServerTypeOK, TypeOK
  <2>2. Verdict(keys[k]) \in {"tenant", "ErrNotFound", "ErrRevoked"}
    BY <2>1 DEF Verdict, Records
  <2>3. a \in Calls
    BY <2>1, <2>2 DEF Calls
  <2>4. Verdict(keys[k]) = "tenant" => keys[k].exists /\ ~keys[k].revoked
    BY <2>1 DEF Verdict, Records
  <2>5. Verdict(keys[k]) = "tenant" => ~(k \in revoked)
    BY <2>4 DEF IInv, ModeOK
  <2>6. /\ a.pc # "idle" /\ a.key = k
        /\ a.pc \in {"tenant", "touch", "ok"} =>
               a.record.exists /\ Agree(a.record, keys[a.key]) /\ ~a.after
    BY <2>2, <2>4, <2>5, Zenon DEF Agree
  <2>7. /\ auth' = [auth EXCEPT ![c] = a] /\ UNCHANGED <<backend, tenants, keys, revoked>>
        /\ keys' \in [Keys -> Records]
    BY <1>4, Zenon DEF AuthLookup, IInv, ServerTypeOK, TypeOK
  <2> HIDE DEF a
  <2>8. RecordsKept
    BY <2>7 DEF RecordsKept, Agree
  <2> QED
    BY <1>3, <2>1, <2>3, <2>6, <2>7, <2>8, Zenon
<1>5. ASSUME AuthTenant(c) PROVE IInv'
  <2> DEFINE p == IF auth[c].record.owner \subseteq tenants THEN "touch" ELSE "ErrNotFound"
             a == [auth[c] EXCEPT !.pc = p]
  <2>1. a \in Calls /\ a.pc = p /\ a.key = auth[c].key /\ a.record = auth[c].record
                    /\ a.after = auth[c].after
    <3>1. a \in Calls
      BY <1>1 DEF Calls
    <3> QED
      BY <1>1, <3>1 DEF Calls
  <2>2. p \in {"touch", "ErrNotFound"}
    OBVIOUS
  <2>3. auth[c].pc = "tenant" /\ UNCHANGED <<backend, tenants, keys, revoked>>
        /\ auth' = [auth EXCEPT ![c] = a]
    BY <1>5 DEF AuthTenant
  <2> HIDE DEF a, p
  <2>4. RecordsKept /\ keys' \in [Keys -> Records]
    BY <2>3, ZenonT(60) DEF RecordsKept, Agree, IInv, ServerTypeOK, TypeOK
  <2>5. /\ http[c].key = {a.key} /\ a.pc # "idle"
        /\ a.record.exists /\ Agree(a.record, keys'[a.key]) /\ ~a.after
    BY <1>1, <2>1, <2>2, <2>3, Zenon DEF CallOK
  <2> QED
    BY <1>3, <2>1, <2>3, <2>4, <2>5, Zenon
<1>6. ASSUME AuthTouch(c) PROVE IInv'
  <2> DEFINE a == [auth[c] EXCEPT !.pc = "ok"]
  <2>1. a \in Calls /\ a.pc = "ok" /\ a.key = auth[c].key /\ a.record = auth[c].record
                    /\ a.after = auth[c].after
    <3>1. a \in Calls
      BY <1>1 DEF Calls
    <3> QED
      BY <1>1, <3>1 DEF Calls
  <2>2. /\ auth[c].pc = "touch" /\ UNCHANGED <<backend, tenants, revoked>>
        /\ auth' = [auth EXCEPT ![c] = a]
        /\ keys' = [keys EXCEPT ![auth[c].key] = Touched(@, auth[c].record)]
    BY <1>6 DEF AuthTouch
  <2> HIDE DEF a
  <2>3. /\ auth[c].key \in Keys /\ auth[c].record \in Records
        /\ auth[c].record.exists /\ Agree(auth[c].record, keys[auth[c].key])
        /\ ~auth[c].after /\ http[c].key = {auth[c].key}
        /\ keys \in [Keys -> Records]
    BY <1>1, <2>2, ZenonT(60) DEF Calls, CallOK, IInv, ServerTypeOK, TypeOK
  <2>4. \A k \in Keys : keys'[k] \in {keys[k], auth[c].record} /\ Agree(keys'[k], keys[k])
    BY <2>2, <2>3, Zenon DEF Touched, Agree
  <2>5. keys' \in [Keys -> Records]
    BY <2>2, <2>3 DEF Touched
  <2>6. RecordsKept /\ \A k \in Keys : keys'[k].exists => keys[k].exists
    BY <2>4 DEF RecordsKept, Agree
  <2>7. revoked # {} => keys' = keys
    <3>1. revoked # {} => backend # "memory"
      BY DEF IInv, ModeOK
    <3> QED
      BY <2>2, <2>3, <3>1 DEF Touched
  <2>8. Agree(a.record, keys'[a.key])
    BY <2>1, <2>3, <2>4, Zenon DEF Agree
  <2> QED
    BY <1>3, <2>1, <2>2, <2>3, <2>5, <2>6, <2>7, <2>8, Zenon
<1> QED
  BY <1>4, <1>5, <1>6 DEF Authenticate

\* An event appended to the ledger leaves the earlier ones in place.
LEMMA Appended ==
    ASSUME ledger \in Seq(Events), NEW e \in Events, ledger' = Append(ledger, e)
    PROVE  /\ ledger' \in Seq(Events) /\ LedgerKept
           /\ \E i \in DOMAIN ledger' : ledger'[i] = e
<1>1. ledger' \in Seq(Events) /\ Len(ledger') = Len(ledger) + 1
  OBVIOUS
<1>2. DOMAIN ledger = 1..Len(ledger) /\ DOMAIN ledger' = 1..Len(ledger') /\ Len(ledger) \in Nat
  BY <1>1
<1>3. ledger'[Len(ledger) + 1] = e /\ \A i \in 1..Len(ledger) : ledger'[i] = ledger[i]
  OBVIOUS
<1> QED
  BY <1>1, <1>2, <1>3 DEF LedgerKept

\* requireAuth after Authenticate: the connection ends its call of the store, and the
\* request is answered or handed to its handler.
LEMMA AdmitInv == ASSUME IInv, NEW c \in Callers, Admit(c) PROVE IInv'
<1> USE DEF boot
<1>1. /\ http[c].pc = "auth" /\ http[c] \in Requests /\ auth[c] \in Calls
      /\ CallOK(http[c], auth[c]) /\ RequestOK(http[c]) /\ ledger \in Seq(Events)
      /\ auth[c].pc \in Answered
      /\ auth' = [auth EXCEPT ![c] = NoCall]
      /\ UNCHANGED <<backend, tenants, keys, revoked>>
      /\ UNCHANGED <<boot, kills, flipped, raced>>
  BY DEF Admit, AuthReturn, IInv, ServerTypeOK, TypeOK, Calls_OK, Requests_OK, ModeOK
<1>2. process.up /\ RecordsKept
  BY <1>1, BusyIsUp, Zenon DEF RecordsKept, Agree
<1>3. NoCall \in Calls /\ NoCall.pc = "idle"
  BY KeyStoreAssumptions, Zenon DEF NoCall, Calls, NoRecord, Records
<1>4. ASSUME NEW q \in Requests, http' = [http EXCEPT ![c] = q], q.pc \in {"done", "handler"},
             q.pc = "handler" => q.endpoint \in DOMAIN Required /\ Authorised(http[c])',
             q.status = 404 => backend = "memory", ledger' \in Seq(Events), LedgerKept
      PROVE  IInv'
  <2>1. TypeOK'
    BY <1>1, <1>3, Zenon DEF IInv, ServerTypeOK, TypeOK
  <2>2. \A i \in DOMAIN ledger' : ledger'[i].subject \in Switches \cup ({"tenant"} \X Tenants)
    <3>1. \A i \in DOMAIN ledger' : ledger'[i] \in Events
      BY <1>4
    <3> QED
      BY <3>1 DEF Events
  <2>3. ServerTypeOK'
    BY <1>1, <1>2, <1>4, <2>1, <2>2, Zenon DEF IInv, ServerTypeOK
  <2>4. ModeOK'
    BY <1>1, <1>2, <1>4, ZenonT(60) DEF IInv, ModeOK
  <2>5. /\ http'[c] = q /\ auth'[c] = NoCall
        /\ \A d \in Callers \ {c} : http'[d] = http[d] /\ auth'[d] = auth[d]
    BY <1>1, <1>4, Zenon DEF IInv, ServerTypeOK, TypeOK
  <2>6. CallOK(http[c], auth[c])'
    BY <1>3, <1>4, <2>5, Zenon DEF CallOK
  <2>7. RequestOK(http[c])'
    BY <1>1, <1>4, <2>5, ZenonT(60) DEF RequestOK
  <2> QED
    BY <1>1, <1>2, <1>4, <2>3, <2>4, <2>5, <2>6, <2>7, OneCaller, Zenon
<1>5. ASSUME NEW status \in Statuses, status # 404, Respond(c, status),
             ledger' \in Seq(Events), LedgerKept
      PROVE  IInv'
  <2> DEFINE q == [NoRequest EXCEPT !.pc = "done", !.status = status]
  <2>1. q \in Requests /\ q.pc = "done" /\ q.status = status
    BY Answer, Zenon
  <2>2. http' = [http EXCEPT ![c] = q]
    BY <1>5 DEF Respond, Go
  <2> HIDE DEF q
  <2> QED
    BY <1>4, <1>5, <2>1, <2>2, Zenon
<1>6. ASSUME ledger' \in Seq(Events), LedgerKept, auth[c].pc = "ok",
             Go(c, [http[c] EXCEPT !.pc = "handler", !.tenant = auth[c].record.owner]),
             \/ HasScope(auth[c].record, http[c].endpoint)
             \/ /\ auth[c].record.scopes = {}
                /\ \A t \in auth[c].record.owner : \E i \in DOMAIN ledger' : ledger'[i] = LegacyEvent(t)
      PROVE  IInv'
  <2> DEFINE p == [http[c] EXCEPT !.pc = "handler"]
             q == [http[c] EXCEPT !.pc = "handler", !.tenant = auth[c].record.owner]
  <2>1. p \in Requests
    BY <1>1 DEF Requests
  <2>2. /\ q = [p EXCEPT !.tenant = auth[c].record.owner] /\ q.pc = "handler"
        /\ q.tenant = auth[c].record.owner /\ q.endpoint = http[c].endpoint
        /\ q.key = http[c].key /\ q.status = http[c].status
    BY <1>1 DEF Requests
  <2>3. http' = [http EXCEPT ![c] = q]
    BY <1>6 DEF Go
  <2> HIDE DEF p, q
  <2>4. auth[c].record.owner \subseteq Tenants /\ auth[c].key \in Keys
    BY <1>1 DEF Calls, Records
  <2>5. q \in Requests
    BY <2>1, <2>2, <2>4 DEF Requests
  <2>6. /\ http[c].key = {auth[c].key} /\ keys[auth[c].key].exists
        /\ Agree(auth[c].record, keys[auth[c].key]) /\ http[c].endpoint \in DOMAIN Required
    BY <1>1, <1>6, Zenon DEF CallOK, Agree
  <2>7. PICK t \in Tenants : keys[auth[c].key].owner = {t}
    BY <2>4, <2>6, ZenonT(60) DEF IInv, ServerTypeOK, TypeOK
  <2>8. http'[c] = q
    BY <2>3 DEF IInv, ServerTypeOK
  <2>9. /\ auth[c].key \in http'[c].key /\ keys'[auth[c].key].exists
        /\ http'[c].tenant = {t} /\ keys'[auth[c].key].owner = {t}
        /\ keys'[auth[c].key].scopes = auth[c].record.scopes
        /\ http'[c].endpoint = http[c].endpoint
    BY <1>1, <2>2, <2>6, <2>7, <2>8 DEF Agree
  <2>10. \/ Required[http[c].endpoint] \in auth[c].record.scopes
         \/ /\ auth[c].record.scopes = {}
            /\ \E i \in DOMAIN ledger' : ledger'[i] = LegacyEvent(t)
    BY <1>6, <2>2, <2>9, <2>8, Zenon DEF HasScope
  <2>11. Authorised(http[c])'
    BY <2>9, <2>10, Zenon DEF Authorised, LegacyEvent
  <2>12. q.status = 404 => backend = "memory"
    BY <1>1, <2>2 DEF RequestOK
  <2> QED
    BY <1>4, <1>6, <2>2, <2>3, <2>5, <2>6, <2>11, <2>12, Zenon
<1>7. {401, 403, 429} \subseteq Statuses \ {404}
  BY DEF Statuses
<1> DEFINE Admitted == \/ Go(c, [http[c] EXCEPT !.pc = "handler", !.tenant = auth[c].record.owner])
                       \/ Respond(c, 429)
<1>8. ASSUME UNCHANGED ledger PROVE ledger' \in Seq(Events) /\ LedgerKept
  BY <1>1, <1>8, Zenon DEF LedgerKept
<1>9. ASSUME UNCHANGED ledger, Respond(c, 401) \/ Respond(c, 403) PROVE IInv'
  BY <1>5, <1>7, <1>8, <1>9
<1>10. ASSUME auth[c].pc = "ok", UNCHANGED ledger, HasScope(auth[c].record, http[c].endpoint), Admitted
       PROVE  IInv'
  <2>1. CASE Respond(c, 429)
    BY <1>5, <1>7, <1>8, <1>10, <2>1
  <2>2. CASE Go(c, [http[c] EXCEPT !.pc = "handler", !.tenant = auth[c].record.owner])
    BY <1>6, <1>8, <1>10, <2>2
  <2> QED
    BY <1>10, <2>1, <2>2
<1>11. ASSUME auth[c].pc = "ok", auth[c].record.scopes = {}, Admitted,
              NEW t \in auth[c].record.owner, ledger' = Append(ledger, LegacyEvent(t))
       PROVE  IInv'
  <2>1. t \in Tenants
    BY <1>1, Zenon DEF Calls, Records
  <2>2. LegacyEvent(t) \in Events
    BY <2>1 DEF LegacyEvent, Events
  <2>3. /\ ledger' \in Seq(Events) /\ LedgerKept
        /\ \E i \in DOMAIN ledger' : ledger'[i] = LegacyEvent(t)
    BY <1>1, <1>11, <2>2, Appended
  <2>4. \A u \in auth[c].record.owner : u = t
    BY <1>1, <1>11 DEF CallOK, Agree, Calls, IInv, ServerTypeOK, TypeOK
  <2>5. CASE Respond(c, 429)
    BY <1>5, <1>7, <2>3, <2>5
  <2>6. CASE Go(c, [http[c] EXCEPT !.pc = "handler", !.tenant = auth[c].record.owner])
    <3>1. \A u \in auth[c].record.owner : \E i \in DOMAIN ledger' : ledger'[i] = LegacyEvent(u)
      BY <2>3, <2>4
    <3> QED
      BY <1>6, <1>11, <2>3, <2>6, <3>1
  <2> QED
    BY <1>11, <2>5, <2>6
<1> QED
  <2> HIDE DEF Admitted
  <2>1. \/ UNCHANGED ledger /\ (Respond(c, 401) \/ Respond(c, 403))
        \/ auth[c].pc = "ok" /\ UNCHANGED ledger /\ HasScope(auth[c].record, http[c].endpoint) /\ Admitted
        \/ /\ auth[c].pc = "ok" /\ auth[c].record.scopes = {} /\ Admitted
           /\ \E t \in auth[c].record.owner : ledger' = Append(ledger, LegacyEvent(t))
    BY DEF Admit, Admitted
  <2> QED
    BY <1>9, <1>10, <1>11, <2>1

\* The flip of a switch: the request keeps its body and goes on to the audit.
LEMMA FlipStep ==
    ASSUME IInv, NEW c \in Callers, http[c].pc = "flip"
    PROVE  /\ [http[c] EXCEPT !.pc = "audit"] \in Requests
           /\ [http[c] EXCEPT !.pc = "audit"].pc = "audit"
           /\ [http[c] EXCEPT !.pc = "audit"].flip = http[c].flip
           /\ [http[c] EXCEPT !.pc = "audit"].status = http[c].status
           /\ http[c].flip \in Switches \X BOOLEAN
           /\ auth[c].pc = "idle" /\ RequestOK(http[c])
<1>1. http[c] \in Requests /\ CallOK(http[c], auth[c]) /\ RequestOK(http[c])
  BY DEF IInv, ServerTypeOK, Calls_OK, Requests_OK
<1>2. [http[c] EXCEPT !.pc = "audit"] \in Requests
  BY <1>1 DEF Requests
<1>3. http[c].flip \in Switches \X BOOLEAN /\ auth[c].pc = "idle"
  BY <1>1 DEF CallOK
<1> QED
  BY <1>1, <1>2, <1>3 DEF Requests

\* A switch is set in the gateway before its event is written: until then the caller
\* is one whose change is not yet on the trail.
LEMMA FlipInv == ASSUME IInv, NEW c \in Callers, Flip(c) PROVE IInv'
<1> USE DEF vars, boot
<1> DEFINE q == [http[c] EXCEPT !.pc = "audit"]
           s == http[c].flip[1]
           on == http[c].flip[2]
<1>1. /\ http[c].pc = "flip" /\ http' = [http EXCEPT ![c] = q]
      /\ kills' = Set(s, on) /\ flipped' = [flipped EXCEPT ![<<s, on>>] = @ + 1]
      /\ raced' = IF Unlogged(s) = {} THEN raced ELSE raced \cup {s}
      /\ UNCHANGED <<vars, boot, ledger>>
  BY DEF Flip, Go
<1>2. /\ q \in Requests /\ q.pc = "audit" /\ q.flip = http[c].flip /\ q.status = http[c].status
      /\ http[c].flip \in Switches \X BOOLEAN /\ auth[c].pc = "idle" /\ RequestOK(http[c])
  BY <1>1, FlipStep
<1> HIDE DEF q
<1>3. s \in Switches /\ on \in BOOLEAN /\ process.up
  BY <1>1, <1>2, BusyIsUp, ZenonT(60)
<1> HIDE DEF s, on
<1>4. TypeOK'
  BY <1>1 DEF IInv, ServerTypeOK, TypeOK
<1>5. flipped' \in [Switches \X BOOLEAN -> Nat]
  BY <1>1, <1>3 DEF IInv, ServerTypeOK
<1>6. kills' \subseteq Switches /\ raced' \subseteq Switches
  BY <1>1, <1>3, Zenon DEF IInv, ServerTypeOK, Set
<1>7. ServerTypeOK'
  <2>1. UNCHANGED <<process, funded, tenants, ledger, starts, issued>>
    BY <1>1
  <2>2. http' \in [Callers -> Requests]
    BY <1>1, <1>2, ZenonT(60) DEF IInv, ServerTypeOK
  <2> QED
    BY <1>3, <1>4, <1>5, <1>6, <2>1, <2>2 DEF IInv, ServerTypeOK
<1>8. ModeOK'
  BY <1>1, <1>3, Zenon DEF IInv, ModeOK
<1>9. RecordsKept /\ LedgerKept
  BY <1>1 DEF RecordsKept, LedgerKept, Agree
<1>10. http'[c] = q /\ \A d \in Callers \ {c} : http'[d] = http[d] /\ auth'[d] = auth[d]
  BY <1>1 DEF IInv, ServerTypeOK
<1>11. CallOK(http[c], auth[c])'
  BY <1>1, <1>2, <1>10, ZenonT(60) DEF CallOK
<1>12. RequestOK(http[c])'
  <2>1. backend' = backend
    BY <1>1, Zenon DEF vars
  <2> QED
    BY <1>2, <1>10, <2>1, Zenon DEF RequestOK
<1> QED
  BY <1>1, <1>7, <1>8, <1>9, <1>10, <1>11, <1>12, OneCaller

\* The events of the trail.
LEMMA SwitchEvents ==
    ASSUME NEW s \in Switches, NEW on \in BOOLEAN PROVE SwitchEvent(s, on) \in Events
BY DEF SwitchEvent, Events

\* The event of the flip, and the answer.
LEMMA AuditInv == ASSUME IInv, NEW c \in Callers, Audit(c) PROVE IInv'
<1> USE DEF vars, boot
<1> DEFINE q == [NoRequest EXCEPT !.pc = "done", !.status = 200]
<1>1. /\ http[c].pc = "audit" /\ http' = [http EXCEPT ![c] = q]
      /\ ledger' = Append(ledger, SwitchEvent(http[c].flip[1], http[c].flip[2]))
      /\ UNCHANGED <<vars, boot, kills, flipped, raced>>
  BY DEF Audit, Logged, Respond, Go
<1>2. q \in Requests /\ q.pc = "done" /\ q.status = 200
  BY Answer DEF Statuses
<1> HIDE DEF q
<1>3. auth[c].pc = "idle" /\ process.up /\ http[c].flip \in Switches \X BOOLEAN
  BY <1>1, BusyIsUp, Zenon DEF IInv, Calls_OK, CallOK
<1>4. ledger' \in Seq(Events) /\ LedgerKept
  BY <1>1, <1>3, SwitchEvents, Appended, Zenon DEF IInv, ModeOK
<1>5. \A i \in DOMAIN ledger' : ledger'[i].subject \in Switches \cup ({"tenant"} \X Tenants)
  <2>1. \A i \in DOMAIN ledger' : ledger'[i] \in Events
    BY <1>4
  <2> QED
    BY <2>1 DEF Events
<1>6. TypeOK'
  BY <1>1, Zenon DEF IInv, ServerTypeOK, TypeOK
<1>7. ServerTypeOK'
  BY <1>1, <1>2, <1>3, <1>5, <1>6, Zenon DEF IInv, ServerTypeOK
<1>8. ModeOK'
  BY <1>1, <1>3, <1>4, Zenon DEF IInv, ModeOK
<1>9. RecordsKept
  BY <1>1 DEF RecordsKept, Agree
<1>10. http'[c] = q /\ \A d \in Callers \ {c} : http'[d] = http[d] /\ auth'[d] = auth[d]
  BY <1>1, ZenonT(60) DEF IInv, ServerTypeOK
<1>11. CallOK(http[c], auth[c])'
  BY <1>1, <1>2, <1>3, <1>10, ZenonT(60) DEF CallOK
<1>12. RequestOK(http[c])'
  <2>1. q.status # 404
    BY <1>2
  <2> QED
    BY <1>2, <1>10, <2>1, Zenon DEF RequestOK
<1> QED
  BY <1>1, <1>4, <1>7, <1>8, <1>9, <1>10, <1>11, <1>12, OneCaller

\* Every step of the server keeps the invariant.
LEMMA InvNext == IInv /\ [ServerNext]_serverVars => IInv'
<1> SUFFICES ASSUME IInv, [ServerNext]_serverVars PROVE IInv'
  OBVIOUS
<1>1. CASE UNCHANGED serverVars
  <2>1. Calls_OK' /\ Requests_OK'
    BY <1>1, CallerKept DEF serverVars, vars, boot, trail, RecordsKept, LedgerKept, Agree, Calls_OK, Requests_OK
  <2>2. ServerTypeOK' /\ ModeOK'
    BY <1>1, Zenon DEF serverVars, vars, boot, trail, IInv, ServerTypeOK, TypeOK, ModeOK
  <2> QED
    BY <2>1, <2>2 DEF IInv
<1>2. ASSUME NEW c \in Callers, Handle(c) PROVE IInv'
  BY <1>2, AuthenticateInv, ServeInv, AdmitInv, FlipInv, AuditInv DEF Handle
<1> QED
  BY <1>1, <1>2, StartInv, CrashInv, ProvisionInv, ArriveInv DEF ServerNext

\* The server's invariant, at every start, crash and request.
LEMMA InvAlways == ServerSpec => []IInv
BY InvInit, InvNext, PTL DEF ServerSpec

-----------------------------------------------------------------------------
\* Type correctness of the process, and with it the store's own consistency: every
\* key belongs to a tenant that exists, whatever is provisioned, and a process that is
\* down holds no budget, no switch and no event.
THEOREM ServerAlwaysTyped == ServerSpec => []ServerTypeOK
BY InvAlways, PTL DEF IInv

\* Authenticate never accepts a key that was revoked before it looked the key up.
\* In memory mode nothing in the process revokes keys, which is why the write-back
\* of a stale record that loses a revocation in KeyStore cannot happen here.
THEOREM RevocationAlwaysHonoured == ServerSpec => []RevocationHonoured
<1>1. IInv => RevocationHonoured
  BY Zenon DEF IInv, Calls_OK, CallOK, RevocationHonoured
<1> QED
  BY <1>1, InvAlways, PTL

\* requireAuth lets a request through only as the tenant of the key it presented,
\* with the route's scope, or with the legacy pass on record.
THEOREM OnlyAuthorisedServed == ServerSpec => []OnlyAuthorised
<1>1. IInv => OnlyAuthorised
  BY ZenonT(60) DEF IInv, Requests_OK, RequestOK, Authorised, OnlyAuthorised
<1> QED
  BY <1>1, InvAlways, PTL

\* Config.Validate keeps the operator's endpoint in place with the durable store.
THEOREM ProductionAlwaysStoppable == ServerSpec => []ProductionStoppable
<1>1. IInv => ProductionStoppable
  BY DEF IInv, Requests_OK, RequestOK, ProductionStoppable
<1> QED
  BY <1>1, InvAlways, PTL

-----------------------------------------------------------------------------
\* The store by itself, with callers that authenticate while others revoke keys: the
\* copy of a record an Authenticate will write back has the store's owner and scopes.
CopyOK(a) == a.pc \in {"tenant", "touch"} => a.record.exists /\ Agree(a.record, keys[a.key])
Copies_OK == \A c \in Callers : CopyOK(auth[c])

\* In Postgres a revoked key stays revoked, and whoever looked it up since was told.
Durable ==
    backend = "postgres" => /\ \A k \in revoked : keys[k].exists /\ keys[k].revoked
                            /\ RevocationHonoured

StoreInv == TypeOK /\ Copies_OK /\ Durable

\* The store starts empty.
LEMMA StoreInit == Init => StoreInv
<1> SUFFICES ASSUME Init PROVE StoreInv
  OBVIOUS
<1>1. NoCall \in Calls /\ NoRecord \in Records /\ ~NoRecord.exists
  BY KeyStoreAssumptions, Zenon DEF NoCall, Calls, NoRecord, Records
<1>2. TypeOK
  BY <1>1 DEF Init, TypeOK
<1>3. Copies_OK /\ Durable
  BY DEF Init, Copies_OK, CopyOK, Durable, RevocationHonoured, NoCall
<1> QED
  BY <1>2, <1>3 DEF StoreInv

\* A key that exists keeps its owner and its scopes.  Only the last-used update of
\* MemoryStore takes a revocation back, in a call that read the record before it.
KeyKept(k) ==
    keys[k].exists =>
        /\ Agree(keys'[k], keys[k])
        /\ keys[k].revoked /\ ~keys'[k].revoked =>
               /\ backend = "memory"
               /\ \E c \in Callers : AuthTouch(c) /\ auth[c].key = k /\ ~auth[c].record.revoked

\* Creating and revoking a key: the callers' copies are of keys that exist already, and
\* agree on the owner and the scopes.
LEMMA StoreWrites ==
    ASSUME StoreInv, NEW k \in Keys,
           (\E t \in Tenants, g \in Grants : CreateAPIKey(k, t, g)) \/ RevokeAPIKey(k)
    PROVE  StoreInv' /\ \A x \in Keys : KeyKept(x)
<1>a. /\ keys \in [Keys -> Records] /\ auth \in [Callers -> Calls]
      /\ \A c \in Callers : auth[c].key \in Keys
  BY ZenonT(60) DEF StoreInv, TypeOK, Calls
<1>1. ASSUME NEW t \in Tenants, NEW g \in Grants, CreateAPIKey(k, t, g)
      PROVE  StoreInv' /\ \A x \in Keys : KeyKept(x)
  <2>1. /\ NewRecord(t, g) \in Records /\ NewRecord(t, g).exists /\ NewRecord(t, g).owner = {t}
    BY Zenon DEF NewRecord, NoRecord, Records
  <2>2. TypeOK'
    BY <1>1, <2>1, ZenonT(60) DEF CreateAPIKey, GetTenant, StoreInv, TypeOK
  <2>3. \A x \in Keys : keys[x].exists => keys'[x] = keys[x]
    BY <1>1, <1>a DEF CreateAPIKey
  <2>4. Copies_OK'
    BY <1>1, <1>a, <2>3, ZenonT(60) DEF CreateAPIKey, StoreInv, Copies_OK, CopyOK, Agree
  <2>5. Durable'
    BY <1>1, <1>a, <2>3, ZenonT(60) DEF CreateAPIKey, StoreInv, Durable, RevocationHonoured, TypeOK
  <2> QED
    BY <2>2, <2>3, <2>4, <2>5 DEF StoreInv, KeyKept, Agree
<1>2. ASSUME RevokeAPIKey(k) PROVE StoreInv' /\ \A x \in Keys : KeyKept(x)
  <2>1. keys' \in [Keys -> Records]
    BY <1>2, <1>a, ZenonT(60) DEF RevokeAPIKey, Records
  <2>2. /\ \A x \in Keys : Agree(keys'[x], keys[x]) /\ (keys[x].revoked => keys'[x].revoked)
        /\ keys'[k].exists /\ keys'[k].revoked
    BY <1>2, <1>a DEF RevokeAPIKey, Records, Agree
  <2>3. TypeOK'
    BY <1>2, <2>1, <2>2 DEF RevokeAPIKey, StoreInv, TypeOK, Agree
  <2>4. Copies_OK'
    BY <1>2, <1>a, <2>2 DEF RevokeAPIKey, StoreInv, Copies_OK, CopyOK, Agree
  <2>5. Durable'
    BY <1>2, <1>a, <2>2 DEF RevokeAPIKey, StoreInv, Durable, RevocationHonoured, TypeOK, Agree
  <2> QED
    BY <2>2, <2>3, <2>4, <2>5, ZenonT(60) DEF StoreInv, KeyKept
<1> QED
  BY <1>1, <1>2, Zenon

\* The steps of Authenticate that only read: a lookup copies the record of the moment.
LEMMA StoreReads ==
    ASSUME StoreInv, NEW c \in Callers,
           (\E k \in Keys : AuthLookup(c, k)) \/ AuthTenant(c) \/ AuthReturn(c)
    PROVE  StoreInv' /\ \A x \in Keys : KeyKept(x)
<1>a. /\ keys \in [Keys -> Records] /\ auth \in [Callers -> Calls] /\ keys' = keys
      /\ UNCHANGED <<backend, tenants, revoked>>
  BY DEF StoreInv, TypeOK, AuthLookup, AuthTenant, AuthReturn
<1>b. \A x \in Keys : KeyKept(x)
  BY <1>a DEF KeyKept, Agree
<1>c. ASSUME NEW b \in Calls, auth' = [auth EXCEPT ![c] = b], CopyOK(b),
             backend = "postgres" => (b.after => b.pc \notin {"tenant", "touch", "ok"})
      PROVE  StoreInv'
  BY <1>a, <1>c, ZenonT(60) DEF StoreInv, TypeOK, Copies_OK, CopyOK, Durable, RevocationHonoured
<1>1. ASSUME NEW k \in Keys, AuthLookup(c, k) PROVE StoreInv'
  <2> DEFINE b == [pc |-> Verdict(keys[k]), key |-> k, record |-> keys[k], after |-> k \in revoked]
  <2>1. b \in Calls
    BY <1>a DEF Calls, Verdict
  <2>2. b.pc \in {"tenant", "touch", "ok"} => keys[k].exists /\ ~keys[k].revoked
    BY DEF Verdict
  <2>3. CopyOK(b)
    BY <2>2 DEF CopyOK, Agree
  <2>4. backend = "postgres" => (b.after => b.pc \notin {"tenant", "touch", "ok"})
    BY <2>2, Zenon DEF StoreInv, Durable
  <2>5. auth' = [auth EXCEPT ![c] = b]
    BY <1>1, Zenon DEF AuthLookup
  <2> HIDE DEF b
  <2> QED
    BY <1>c, <2>1, <2>3, <2>4, <2>5, Zenon
<1>2. ASSUME AuthTenant(c) PROVE StoreInv'
  <2>1. PICK p \in {"touch", "ErrNotFound"} : auth' = [auth EXCEPT ![c].pc = p]
    BY <1>2, ZenonT(60) DEF AuthTenant
  <2> DEFINE b == [auth[c] EXCEPT !.pc = p]
  <2>2. b \in Calls /\ b.pc = p /\ b.key = auth[c].key /\ b.record = auth[c].record /\ b.after = auth[c].after
    BY <1>a DEF Calls
  <2>3. CopyOK(b)
    BY <1>2, <2>2 DEF AuthTenant, StoreInv, Copies_OK, CopyOK
  <2>4. backend = "postgres" => (b.after => b.pc \notin {"tenant", "touch", "ok"})
    BY <1>2, <2>2 DEF AuthTenant, StoreInv, Durable, RevocationHonoured
  <2>5. auth' = [auth EXCEPT ![c] = b]
    BY <2>1, Zenon
  <2> HIDE DEF b
  <2> QED
    BY <1>c, <2>2, <2>3, <2>4, <2>5, Zenon
<1>3. ASSUME AuthReturn(c) PROVE StoreInv'
  <2>1. NoCall \in Calls /\ NoCall.pc = "idle"
    BY KeyStoreAssumptions, ZenonT(60) DEF NoCall, Calls, NoRecord, Records
  <2>2. CopyOK(NoCall)
    BY <2>1 DEF CopyOK
  <2> QED
    BY <1>3, <1>c, <2>1, <2>2, Zenon DEF AuthReturn
<1> QED
  BY <1>b, <1>1, <1>2, <1>3, Zenon

\* The last-used update: MemoryStore puts back the copy, which agrees on the owner and the
\* scopes, and PostgresStore leaves them and the revocation alone.
LEMMA StoreTouch ==
    ASSUME StoreInv, NEW c \in Callers, AuthTouch(c)
    PROVE  StoreInv' /\ \A x \in Keys : KeyKept(x)
<1> DEFINE k == auth[c].key
<1>a. /\ keys \in [Keys -> Records] /\ auth \in [Callers -> Calls] /\ k \in Keys
      /\ auth[c].record \in Records /\ \A d \in Callers : auth[d].key \in Keys
  BY DEF StoreInv, TypeOK, Calls
<1>b. /\ auth[c].record.exists /\ Agree(auth[c].record, keys[k])
  BY DEF AuthTouch, StoreInv, Copies_OK, CopyOK
<1>1. /\ keys' \in [Keys -> Records] /\ \A x \in Keys : Agree(keys'[x], keys[x])
      /\ \A x \in Keys : keys'[x] # keys[x] => backend = "memory" /\ x = k /\ keys'[x] = auth[c].record
  BY <1>a, <1>b DEF AuthTouch, Touched, Agree
<1>2. /\ auth' \in [Callers -> Calls]
      /\ \A d \in Callers : /\ auth'[d].key = auth[d].key /\ auth'[d].record = auth[d].record
                            /\ auth'[d].after = auth[d].after
                            /\ auth'[d].pc = auth[d].pc \/ (d = c /\ auth'[d].pc = "ok")
  BY <1>a DEF AuthTouch, Calls
<1> HIDE DEF k
<1>3. TypeOK'
  BY <1>1, <1>2 DEF AuthTouch, StoreInv, TypeOK, Agree
<1>4. Copies_OK'
  BY <1>a, <1>1, <1>2 DEF StoreInv, Copies_OK, CopyOK, Agree
<1>5. Durable'
  BY <1>1, <1>2 DEF AuthTouch, StoreInv, TypeOK, Durable, RevocationHonoured
<1>6. \A x \in Keys : KeyKept(x)
  <2> SUFFICES ASSUME NEW x \in Keys, keys[x].exists PROVE KeyKept(x)
    BY Zenon DEF KeyKept
  <2>1. ASSUME keys[x].revoked, ~keys'[x].revoked
        PROVE  /\ backend = "memory"
               /\ \E d \in Callers : AuthTouch(d) /\ auth[d].key = x /\ ~auth[d].record.revoked
    BY <2>1, <1>1 DEF k
  <2> QED
    BY <1>1, <2>1, Zenon DEF KeyKept
<1> QED
  BY <1>3, <1>4, <1>5, <1>6 DEF StoreInv

\* Every step of the store keeps its invariant and every key.
LEMMA StoreStep == StoreInv /\ [Next]_vars => StoreInv' /\ \A k \in Keys : KeyKept(k)
<1> SUFFICES ASSUME StoreInv, [Next]_vars PROVE StoreInv' /\ \A k \in Keys : KeyKept(k)
  OBVIOUS
<1>1. ASSUME NEW t \in Tenants, CreateTenant(t) PROVE StoreInv' /\ \A k \in Keys : KeyKept(k)
  <2>1. TypeOK'
    BY <1>1 DEF CreateTenant, StoreInv, TypeOK
  <2>2. Copies_OK' /\ Durable'
    BY <1>1 DEF CreateTenant, StoreInv, Copies_OK, CopyOK, Durable, RevocationHonoured
  <2> QED
    BY <1>1, <2>1, <2>2 DEF CreateTenant, StoreInv, KeyKept, Agree
<1>2. CASE UNCHANGED vars
  <2>1. TypeOK'
    BY <1>2 DEF vars, StoreInv, TypeOK
  <2>2. Copies_OK' /\ Durable'
    BY <1>2, ZenonT(60) DEF vars, StoreInv, Copies_OK, CopyOK, Durable, RevocationHonoured
  <2> QED
    BY <1>2, <2>1, <2>2 DEF vars, StoreInv, KeyKept, Agree
<1> QED
  BY <1>1, <1>2, StoreWrites, StoreReads, StoreTouch, Zenon DEF Next

\* A key never changes hands and never gains or loses a scope, whichever store, although
\* MemoryStore writes whole records back that were read earlier; and nothing but that
\* write-back ever takes a revocation back.
KeysKept == [][\A k \in Keys : KeyKept(k)]_vars

\* The stale write-back costs a revocation and no more, for any number of callers.
THEOREM KeysAlwaysKept == Spec => KeysKept
BY StoreInit, StoreStep, PTL DEF Spec, KeysKept

\* With PostgresStore Authenticate honours its contract, "ErrRevoked if the key was
\* revoked", for any number of callers and keys: it touches only its own column.
THEOREM PostgresHonoursRevocation == Spec => [](backend = "postgres" => RevocationHonoured)
<1>1. StoreInv => (backend = "postgres" => RevocationHonoured)
  BY DEF StoreInv, Durable
<1> QED
  BY <1>1, StoreInit, StoreStep, PTL DEF Spec

-----------------------------------------------------------------------------
\* The requests that have flipped a switch and not logged it are the same as before.
SameUnlogged ==
    \A d \in Callers :
        /\ http'[d].pc = "audit" <=> http[d].pc = "audit"
        /\ http[d].pc = "audit" => http'[d].flip = http[d].flip

\* A process that is new, or a step that concerns no switch.
Fresh_Trail == /\ ledger' = <<>> /\ flipped' = NoFlips /\ kills' = {} /\ raced' = {}
               /\ \A d \in Callers : http'[d].pc # "audit"
Quiet == UNCHANGED trail /\ SameUnlogged
Legacy == /\ UNCHANGED <<kills, flipped, raced>> /\ SameUnlogged
          /\ \E t \in Tenants : ledger' = Append(ledger, LegacyEvent(t))

\* A request that goes on to a point other than the audit.
LEMMA UnloggedKept ==
    ASSUME IInv, NEW c \in Callers, http[c].pc # "audit", NEW q, q.pc # "audit",
           http' = [http EXCEPT ![c] = q]
    PROVE  SameUnlogged
BY DEF SameUnlogged, IInv, ServerTypeOK

\* The answer to a request is not its audit.
LEMMA RespondKept ==
    ASSUME IInv, NEW c \in Callers, http[c].pc # "audit", NEW status, Respond(c, status)
    PROVE  SameUnlogged
<1> DEFINE q == [NoRequest EXCEPT !.pc = "done", !.status = status]
<1>1. q.pc = "done"
  BY Fresh DEF Requests
<1>2. http' = [http EXCEPT ![c] = q]
  BY DEF Respond, Go
<1> HIDE DEF q
<1> QED
  BY <1>1, <1>2, UnloggedKept, Zenon

\* What a step can do to the trail.
LEMMA TrailSteps ==
    ASSUME IInv, [ServerNext]_serverVars
    PROVE  Fresh_Trail \/ Quiet \/ Legacy \/ \E c \in Callers : Flip(c) \/ Audit(c)
<1>1. CASE UNCHANGED serverVars
  BY <1>1 DEF serverVars, Quiet, SameUnlogged
<1>2. ASSUME NEW config \in Configs, Start(config) PROVE Quiet
  BY <1>2, Zenon DEF Start, Quiet, SameUnlogged
<1>3. CASE Crash
  <2>1. NoRequest.pc = "idle"
    BY DEF NoRequest
  <2> QED
    BY <1>3, <2>1 DEF Crash, Fresh_Trail
<1>4. CASE Provision
  BY <1>4, ZenonT(60) DEF Provision, Quiet, SameUnlogged
<1>5. ASSUME NEW c \in Callers, NEW e \in Endpoints, Arrive(c, e) PROVE Quiet
  <2>1. http[c].pc # "audit" /\ UNCHANGED trail
    BY <1>5 DEF Arrive
  <2>2. ASSUME NEW status, Respond(c, status) PROVE SameUnlogged
    BY <2>1, <2>2, RespondKept
  <2>3. ASSUME NEW k \in Keys, Go(c, [NoRequest EXCEPT !.pc = "auth", !.endpoint = e, !.key = {k}])
        PROVE  SameUnlogged
    <3> DEFINE q == [NoRequest EXCEPT !.pc = "auth", !.endpoint = e, !.key = {k}]
    <3>1. q.pc = "auth" /\ http' = [http EXCEPT ![c] = q]
      BY <2>3, Fresh DEF Requests, Go
    <3> HIDE DEF q
    <3> QED
      BY <2>1, <3>1, UnloggedKept, Zenon
  <2>4. ASSUME NEW s \in Switches, NEW on \in BOOLEAN,
               Go(c, [NoRequest EXCEPT !.pc = "flip", !.endpoint = e, !.flip = <<s, on>>])
        PROVE  SameUnlogged
    <3> DEFINE q == [NoRequest EXCEPT !.pc = "flip", !.endpoint = e, !.flip = <<s, on>>]
    <3>1. q.pc = "flip" /\ http' = [http EXCEPT ![c] = q]
      BY <2>4, Fresh DEF Requests, Go
    <3> HIDE DEF q
    <3> QED
      BY <2>1, <3>1, UnloggedKept, Zenon
  <2>5. RequireAuth(c, e) => SameUnlogged
    <3> DEFINE Presents == \E k \in Keys : Go(c, [NoRequest EXCEPT !.pc = "auth", !.endpoint = e, !.key = {k}])
    <3>1. RequireAuth(c, e) => Respond(c, 401) \/ Presents
      BY Zenon DEF RequireAuth
    <3>2. Presents => SameUnlogged
      BY <2>3, Zenon
    <3> HIDE DEF Presents
    <3> QED
      BY <2>2, <3>1, <3>2
  <2>6. RequireOperator(c, e) => SameUnlogged
    <3> DEFINE Asks == \E s \in Switches, on \in BOOLEAN :
                   Go(c, [NoRequest EXCEPT !.pc = "flip", !.endpoint = e, !.flip = <<s, on>>])
    <3>1. RequireOperator(c, e) =>
              Respond(c, 404) \/ (\E status \in {401, 405, 400} : Respond(c, status)) \/ Asks
      BY Zenon DEF RequireOperator
    <3>2. Asks => SameUnlogged
      BY <2>4, Zenon
    <3> HIDE DEF Asks
    <3> QED
      BY <2>2, <3>1, <3>2
  <2> QED
    BY <1>5, <2>1, <2>2, <2>5, <2>6 DEF Arrive, Quiet
<1>6. ASSUME NEW c \in Callers, Authenticate(c) PROVE Quiet
  BY <1>6 DEF Authenticate, Quiet, SameUnlogged
<1>7. ASSUME NEW c \in Callers, AuthenticateFails(c) \/ Serve(c) \/ Upstream(c) PROVE Quiet
  <2>1. http[c].pc # "audit" /\ UNCHANGED trail
    BY <1>7 DEF AuthenticateFails, Serve, Upstream
  <2>2. ASSUME NEW status, Respond(c, status) PROVE SameUnlogged
    BY <2>1, <2>2, RespondKept
  <2>3. ASSUME Go(c, [http[c] EXCEPT !.pc = "upstream"]) PROVE SameUnlogged
    <3> DEFINE q == [http[c] EXCEPT !.pc = "upstream"]
    <3>1. q.pc = "upstream" /\ http' = [http EXCEPT ![c] = q]
      BY <2>3 DEF IInv, ServerTypeOK, Requests, Go
    <3> HIDE DEF q
    <3> QED
      BY <2>1, <3>1, UnloggedKept, Zenon
  <2> QED
    BY <1>7, <2>1, <2>2, <2>3 DEF AuthenticateFails, Serve, Upstream, Quiet
<1>8. ASSUME NEW c \in Callers, Admit(c) PROVE Quiet \/ Legacy
  <2> DEFINE Handed == Go(c, [http[c] EXCEPT !.pc = "handler", !.tenant = auth[c].record.owner])
  <2>1. http[c].pc # "audit" /\ UNCHANGED <<kills, flipped, raced>>
    BY <1>8 DEF Admit
  <2>2. ASSUME NEW status, Respond(c, status) PROVE SameUnlogged
    BY <2>1, <2>2, RespondKept
  <2>3. Handed => SameUnlogged
    <3> DEFINE q == [http[c] EXCEPT !.pc = "handler", !.tenant = auth[c].record.owner]
    <3>1. q.pc = "handler"
      BY DEF IInv, ServerTypeOK, Requests
    <3>2. Handed => http' = [http EXCEPT ![c] = q]
      BY DEF Go
    <3> HIDE DEF q, Handed
    <3> QED
      BY <2>1, <3>1, <3>2, UnloggedKept
  <2>4. auth[c].record.owner \subseteq Tenants
    BY ZenonT(60) DEF IInv, ServerTypeOK, TypeOK, Calls, Records
  <2>5. /\ Handed \/ \E status \in {401, 403, 429} : Respond(c, status)
        /\ UNCHANGED ledger \/ \E t \in auth[c].record.owner : ledger' = Append(ledger, LegacyEvent(t))
    BY <1>8 DEF Admit
  <2> HIDE DEF Handed
  <2>6. SameUnlogged
    BY <2>2, <2>3, <2>5
  <2> QED
    BY <2>1, <2>4, <2>5, <2>6 DEF Quiet, Legacy, trail
<1> QED
  BY <1>1, <1>2, <1>3, <1>4, <1>5, <1>6, <1>7, <1>8 DEF ServerNext, Handle

-----------------------------------------------------------------------------
\* The events of a position of a switch, and the requests that still owe one.
At(s, on) == {i \in DOMAIN ledger : ledger[i] = SwitchEvent(s, on)}
Owed(s, on) == {c \in Unlogged(s) : http[c].flip[2] = on}

\* Switch events differ in their switch or their position, and from legacy events.
LEMMA EventsDiffer ==
    /\ \A s, t \in Switches : \A on, off \in BOOLEAN :
           SwitchEvent(s, on) = SwitchEvent(t, off) => s = t /\ on = off
    /\ \A s \in Switches, on \in BOOLEAN, t \in Tenants : LegacyEvent(t) # SwitchEvent(s, on)
BY DEF SwitchEvent, LegacyEvent

\* The event of a change tells the change.
LEMMA EventTells ==
    ASSUME NEW q, q.flip \in Switches \X BOOLEAN, NEW s \in Switches, NEW on,
           <<s, on>> \in Switches \X BOOLEAN, SwitchEvent(q.flip[1], q.flip[2]) = SwitchEvent(s, on)
    PROVE  s = q.flip[1] /\ on = q.flip[2]
BY DEF SwitchEvent

\* An event appended adds one index to the events like it.
LEMMA AtAppended ==
    ASSUME ledger \in Seq(Events), NEW e \in Events, ledger' = Append(ledger, e),
           NEW s \in Switches, NEW on \in BOOLEAN
    PROVE  /\ Len(ledger) + 1 \notin At(s, on)
           /\ At(s, on)' = IF e = SwitchEvent(s, on) THEN At(s, on) \cup {Len(ledger) + 1} ELSE At(s, on)
<1>1. Len(ledger) \in Nat /\ DOMAIN ledger = 1..Len(ledger) /\ DOMAIN ledger' = 1..(Len(ledger) + 1)
  OBVIOUS
<1>2. ledger'[Len(ledger) + 1] = e /\ \A i \in 1..Len(ledger) : ledger'[i] = ledger[i]
  OBVIOUS
<1>3. At(s, on)' = {i \in DOMAIN ledger' : ledger'[i] = SwitchEvent(s, on)}
  BY DEF At, SwitchEvent
<1> QED
  BY <1>1, <1>2, <1>3 DEF At

\* A step that leaves the callers between flip and audit alone owes the same events.
LEMMA OwedKept ==
    ASSUME SameUnlogged, NEW s, NEW on PROVE Owed(s, on)' = Owed(s, on) /\ Unlogged(s)' = Unlogged(s)
<1>1. /\ Unlogged(s) = {d \in Callers : http[d].pc = "audit" /\ http[d].flip[1] = s}
      /\ Unlogged(s)' = {d \in Callers : http'[d].pc = "audit" /\ http'[d].flip[1] = s}
  BY DEF Unlogged
<1>2. \A d \in Callers : (http'[d].pc = "audit" /\ http'[d].flip[1] = s)
                            <=> (http[d].pc = "audit" /\ http[d].flip[1] = s)
  BY DEF SameUnlogged
<1>3. Unlogged(s)' = Unlogged(s)
  BY <1>1, <1>2
<1>4. \A d \in Unlogged(s) : http'[d].flip = http[d].flip
  BY <1>1 DEF SameUnlogged
<1>5. Owed(s, on)' = {d \in Unlogged(s)' : http'[d].flip[2] = on}
  BY DEF Owed
<1> QED
  BY <1>3, <1>4, <1>5 DEF Owed

\* The same two sets as functions of the requests h.
UnloggedIn(h, s) == {c \in Callers : h[c].pc = "audit" /\ h[c].flip[1] = s}
OwedIn(h, s, on) == {c \in UnloggedIn(h, s) : h[c].flip[2] = on}

\* The requests h become g as the caller c comes from its flip to its audit, and so joins
\* the sets of its switch and position.
Comes(h, g, c) == /\ h[c].pc = "flip" /\ g[c].pc = "audit" /\ g[c].flip = h[c].flip
                  /\ \A d \in Callers \ {c} : g[d] = h[d]
Joins(h, g, c, s, on) ==
    /\ c \notin OwedIn(h, s, on)
    /\ s = h[c].flip[1] => UnloggedIn(g, s) = UnloggedIn(h, s) \cup {c}
    /\ s # h[c].flip[1] => UnloggedIn(g, s) = UnloggedIn(h, s)
    /\ s = h[c].flip[1] /\ on = h[c].flip[2] => OwedIn(g, s, on) = OwedIn(h, s, on) \cup {c}
    /\ ~(s = h[c].flip[1] /\ on = h[c].flip[2]) => OwedIn(g, s, on) = OwedIn(h, s, on)

\* A caller that comes to its audit joins the sets.
LEMMA OwedGrows ==
    ASSUME NEW h, NEW g, NEW c \in Callers, Comes(h, g, c), NEW s, NEW on
    PROVE  Joins(h, g, c, s, on)
<1> USE DEF OwedIn, UnloggedIn, Comes
<1>1. c \notin OwedIn(h, s, on)
  OBVIOUS
<1>2. /\ s = h[c].flip[1] => UnloggedIn(g, s) = UnloggedIn(h, s) \cup {c}
      /\ s # h[c].flip[1] => UnloggedIn(g, s) = UnloggedIn(h, s)
  OBVIOUS
<1>3. s = h[c].flip[1] /\ on = h[c].flip[2] => OwedIn(g, s, on) = OwedIn(h, s, on) \cup {c}
  OBVIOUS
<1>4. ~(s = h[c].flip[1] /\ on = h[c].flip[2]) => OwedIn(g, s, on) = OwedIn(h, s, on)
  OBVIOUS
<1> HIDE DEF OwedIn, UnloggedIn
<1> QED
  BY <1>1, <1>2, <1>3, <1>4, Zenon DEF Joins

\* The caller of a flip owes the event of its switch and position, and no other.
Owes(c, s, on) ==
    /\ c \notin Owed(s, on)
    /\ s = http[c].flip[1] /\ on = http[c].flip[2] => Owed(s, on)' = Owed(s, on) \cup {c}
    /\ ~(s = http[c].flip[1] /\ on = http[c].flip[2]) => Owed(s, on)' = Owed(s, on)

\* A flip makes its request owe an event, and the audit pays it.
LEMMA OwedFlip ==
    ASSUME IInv, NEW c \in Callers, Flip(c), NEW s, NEW on
    PROVE  /\ http[c].flip[1] \in Switches /\ http[c].flip[2] \in BOOLEAN
           /\ Owes(c, s, on)
           /\ s = http[c].flip[1] => Unlogged(s)' = Unlogged(s) \cup {c}
           /\ s # http[c].flip[1] => Unlogged(s)' = Unlogged(s)
           /\ \A d \in Callers : http'[d].flip = http[d].flip
<1> DEFINE q == [http[c] EXCEPT !.pc = "audit"]
<1>1. http[c].pc = "flip" /\ http' = [http EXCEPT ![c] = q]
  BY DEF Flip, Go
<1>2. q.pc = "audit" /\ q.flip = http[c].flip /\ http[c].flip \in Switches \X BOOLEAN
  BY <1>1, FlipStep, Zenon
<1> HIDE DEF q
<1>3. http'[c] = q /\ \A d \in Callers \ {c} : http'[d] = http[d]
  BY <1>1 DEF IInv, ServerTypeOK
<1>4. /\ Unlogged(s) = UnloggedIn(http, s) /\ Unlogged(s)' = UnloggedIn(http', s)
      /\ Owed(s, on) = OwedIn(http, s, on) /\ Owed(s, on)' = OwedIn(http', s, on)
  BY Zenon DEF Unlogged, UnloggedIn, Owed, OwedIn
<1>5. http'[c].pc = "audit" /\ http'[c].flip = http[c].flip
  BY <1>2, <1>3, Zenon
<1>6. Joins(http, http', c, s, on)
  <2>1. Comes(http, http', c)
    BY <1>1, <1>3, <1>5, Zenon DEF Comes
  <2> QED
    BY <2>1, OwedGrows, Zenon
<1>7. http[c].flip[1] \in Switches /\ http[c].flip[2] \in BOOLEAN
  BY <1>2
<1>8. \A d \in Callers : http'[d].flip = http[d].flip
  BY <1>3, <1>5, Zenon
<1> QED
  BY <1>4, <1>6, <1>7, <1>8, Zenon DEF Joins, Owes

\* Logging a change takes its caller off the list of those who owe an event.
LEMMA OwedAudit ==
    ASSUME IInv, NEW c \in Callers, Audit(c), NEW s \in Switches
    PROVE  /\ http[c].flip[1] \in Switches /\ http[c].flip[2] \in BOOLEAN
           /\ c \in Owed(http[c].flip[1], http[c].flip[2])
           /\ Unlogged(s)' = Unlogged(s) \ {c}
           /\ \A on : Owed(s, on)' = Owed(s, on) \ {c}
           /\ \A on : c \in Owed(s, on) => s = http[c].flip[1] /\ on = http[c].flip[2]
           /\ \A d \in Callers \ {c} : http'[d] = http[d]
<1> DEFINE q == [NoRequest EXCEPT !.pc = "done", !.status = 200]
<1>1. http[c].pc = "audit" /\ http' = [http EXCEPT ![c] = q]
  BY DEF Audit, Respond, Go
<1>2. q.pc = "done"
  BY Answer DEF Statuses
<1> HIDE DEF q
<1>3. http[c].flip \in Switches \X BOOLEAN
  BY <1>1, Zenon DEF IInv, Calls_OK, CallOK
<1>4. http'[c] = q /\ \A d \in Callers \ {c} : http'[d] = http[d]
  BY <1>1 DEF IInv, ServerTypeOK
<1>5. Unlogged(s)' = Unlogged(s) \ {c}
  BY <1>1, <1>2, <1>4 DEF Unlogged
<1>6. \A on : Owed(s, on)' = {d \in Unlogged(s)' : http'[d].flip[2] = on}
  BY DEF Owed
<1>7. \A on : Owed(s, on)' = Owed(s, on) \ {c}
  BY <1>4, <1>5, <1>6, ZenonT(60) DEF Owed, Unlogged
<1> QED
  BY <1>1, <1>3, <1>4, <1>5, <1>7, Zenon DEF Owed, Unlogged

-----------------------------------------------------------------------------
\* The last event about the switch says that it is on.
LastOn(s) ==
    \E i \in DOMAIN ledger :
        /\ ledger[i] = SwitchEvent(s, TRUE)
        /\ \A j \in DOMAIN ledger : j > i => ledger[j] # SwitchEvent(s, FALSE)

\* Of a switch that was never flipped twice at once, at most one request has yet to
\* log its flip; the switch is where that request put it, or else where the trail
\* says it is.
TrailOf(s) ==
    /\ \A c, d \in Unlogged(s) : c = d
    /\ \A c \in Unlogged(s) : s \in kills <=> http[c].flip[2]
    /\ Unlogged(s) = {} => (s \in kills <=> LastOn(s))

Trails == \A s \in Switches \ raced : TrailOf(s)

\* An event appended decides about its own switch and about no other.
LEMMA LastAppended ==
    ASSUME ledger \in Seq(Events), NEW e \in Events, ledger' = Append(ledger, e),
           NEW s \in Switches
    PROVE  /\ e = SwitchEvent(s, TRUE) => LastOn(s)'
           /\ e = SwitchEvent(s, FALSE) => ~LastOn(s)'
           /\ e # SwitchEvent(s, TRUE) /\ e # SwitchEvent(s, FALSE) => (LastOn(s)' <=> LastOn(s))
<1> DEFINE n == Len(ledger) + 1
<1>1. /\ Len(ledger) \in Nat /\ DOMAIN ledger = 1..Len(ledger) /\ DOMAIN ledger' = 1..n
      /\ ledger'[n] = e /\ \A i \in 1..Len(ledger) : ledger'[i] = ledger[i]
  OBVIOUS
<1>2. /\ n \in DOMAIN ledger' /\ \A i \in DOMAIN ledger : i \in DOMAIN ledger' /\ ledger'[i] = ledger[i]
      /\ \A i \in DOMAIN ledger' : (i = n \/ i \in DOMAIN ledger) /\ ~(i > n)
  BY <1>1
<1>3. LastOn(s)' <=> \E i \in DOMAIN ledger' :
                         /\ ledger'[i] = SwitchEvent(s, TRUE)
                         /\ \A j \in DOMAIN ledger' : j > i => ledger'[j] # SwitchEvent(s, FALSE)
  BY DEF LastOn, SwitchEvent
<1>4. SwitchEvent(s, TRUE) # SwitchEvent(s, FALSE)
  BY EventsDiffer, Zenon
<1>5. ASSUME e = SwitchEvent(s, TRUE) PROVE LastOn(s)'
  BY <1>1, <1>2, <1>3, <1>4, <1>5, Zenon
<1>6. ASSUME e = SwitchEvent(s, FALSE) PROVE ~LastOn(s)'
  <2>1. \A i \in DOMAIN ledger' : i = n \/ n > i
    BY <1>1
  <2>2. n \in DOMAIN ledger'
    BY <1>1
  <2> QED
    BY <1>1, <1>3, <1>4, <1>6, <2>1, <2>2, Zenon
<1>7. ASSUME e # SwitchEvent(s, TRUE), e # SwitchEvent(s, FALSE), LastOn(s) PROVE LastOn(s)'
  <2>1. PICK i \in DOMAIN ledger :
            /\ ledger[i] = SwitchEvent(s, TRUE)
            /\ \A j \in DOMAIN ledger : j > i => ledger[j] # SwitchEvent(s, FALSE)
    BY <1>7, Zenon DEF LastOn
  <2>2. i \in DOMAIN ledger' /\ ledger'[i] = SwitchEvent(s, TRUE)
    BY <1>1, <2>1
  <2>3. \A j \in DOMAIN ledger' : j = n \/ j \in DOMAIN ledger
    BY <1>1
  <2>4. \A j \in DOMAIN ledger' : j > i => ledger'[j] # SwitchEvent(s, FALSE)
    BY <1>1, <1>7, <2>1, <2>3, Zenon
  <2> QED
    BY <1>3, <2>2, <2>4, Zenon
<1>8. ASSUME e # SwitchEvent(s, TRUE), e # SwitchEvent(s, FALSE), LastOn(s)' PROVE LastOn(s)
  <2>1. PICK i \in DOMAIN ledger' :
            /\ ledger'[i] = SwitchEvent(s, TRUE)
            /\ \A j \in DOMAIN ledger' : j > i => ledger'[j] # SwitchEvent(s, FALSE)
    BY <1>3, <1>8, Zenon
  <2> HIDE DEF n
  <2>2. i \in DOMAIN ledger /\ ledger[i] = SwitchEvent(s, TRUE)
    BY <1>1, <1>2, <1>8, <2>1, Zenon
  <2>3. \A j \in DOMAIN ledger : j > i => ledger[j] # SwitchEvent(s, FALSE)
    BY <1>2, <2>1, Zenon
  <2> QED
    BY <2>2, <2>3, Zenon DEF LastOn
<1> QED
  BY <1>5, <1>6, <1>7, <1>8, Zenon

\* No switch is set before the first start.
LEMMA TrailsInit == ServerInit => Trails
<1> SUFFICES ASSUME ServerInit, NEW s \in Switches PROVE TrailOf(s)
  BY DEF Trails
<1>1. Unlogged(s) = {}
  BY DEF ServerInit, Unlogged, NoRequest
<1>2. ~LastOn(s)
  BY DEF ServerInit, LastOn
<1> QED
  BY <1>1, <1>2 DEF TrailOf, ServerInit

\* As long as two changes of a switch have not overlapped, its last event and the change
\* that is on its way tell where it stands.
LEMMA TrailsNext == IInv /\ Trails /\ [ServerNext]_serverVars => Trails'
<1> SUFFICES ASSUME IInv, Trails, [ServerNext]_serverVars, NEW s \in Switches, s \notin raced'
             PROVE  TrailOf(s)'
  BY DEF Trails
<1>1. ledger \in Seq(Events)
  BY Zenon DEF IInv, ModeOK
<1>2. s \notin raced => TrailOf(s)
  BY DEF Trails
<1>3. CASE Fresh_Trail
  <2>1. Unlogged(s)' = {}
    BY <1>3 DEF Fresh_Trail, Unlogged
  <2>2. ~LastOn(s)'
    BY <1>3 DEF Fresh_Trail, LastOn
  <2> QED
    BY <1>3, <2>1, <2>2 DEF Fresh_Trail, TrailOf
<1>4. ASSUME SameUnlogged, UNCHANGED <<kills, raced>>, LastOn(s)' <=> LastOn(s) PROVE TrailOf(s)'
  <2>1. Unlogged(s)' = Unlogged(s) /\ \A d \in Unlogged(s) : http'[d].flip = http[d].flip
    <3>1. \A d \in Unlogged(s) : d \in Callers /\ http[d].pc = "audit"
      BY DEF Unlogged
    <3> QED
      BY <1>4, <3>1, OwedKept, Zenon DEF SameUnlogged
  <2>2. TrailOf(s)
    BY <1>2, <1>4
  <2> QED
    BY <1>4, <2>1, <2>2, Zenon DEF TrailOf
<1>5. CASE Quiet
  <2>1. LastOn(s)' <=> LastOn(s)
    BY <1>5, Zenon DEF Quiet, trail, LastOn, SwitchEvent
  <2> QED
    BY <1>4, <1>5, <2>1 DEF Quiet, trail
<1>6. CASE Legacy
  <2>1. PICK t \in Tenants : ledger' = Append(ledger, LegacyEvent(t))
    BY <1>6 DEF Legacy
  <2>2. LegacyEvent(t) \in Events
    BY DEF LegacyEvent, Events
  <2>3. LastOn(s)' <=> LastOn(s)
    BY <1>1, <2>1, <2>2, LastAppended, EventsDiffer, Zenon
  <2> QED
    BY <1>4, <1>6, <2>3 DEF Legacy
<1>7. ASSUME NEW c \in Callers, Flip(c) PROVE TrailOf(s)'
  <2>1. /\ http[c].flip[1] \in Switches /\ http[c].flip[2] \in BOOLEAN
        /\ Unlogged(s)' = IF s = http[c].flip[1] THEN Unlogged(s) \cup {c} ELSE Unlogged(s)
        /\ \A d \in Callers : http'[d].flip = http[d].flip
    <3>1. /\ http[c].flip[1] \in Switches /\ http[c].flip[2] \in BOOLEAN
          /\ s = http[c].flip[1] => Unlogged(s)' = Unlogged(s) \cup {c}
          /\ s # http[c].flip[1] => Unlogged(s)' = Unlogged(s)
          /\ \A d \in Callers : http'[d].flip = http[d].flip
      BY <1>7, OwedFlip, Zenon
    <3> QED
      BY <3>1, Zenon
  <2>2. /\ kills' = Set(http[c].flip[1], http[c].flip[2]) /\ ledger' = ledger
        /\ raced' = IF Unlogged(http[c].flip[1]) = {} THEN raced ELSE raced \cup {http[c].flip[1]}
    BY <1>7 DEF Flip
  <2>3. TrailOf(s)
    BY <1>2, <2>2
  <2>4. CASE s = http[c].flip[1]
    <3>1. Unlogged(s)' = {c}
      BY <2>1, <2>2, <2>4, Zenon
    <3>2. s \in kills' <=> http'[c].flip[2]
      BY <2>1, <2>2, <2>4, ZenonT(60) DEF Set
    <3> QED
      BY <3>1, <3>2 DEF TrailOf
  <2>5. CASE s # http[c].flip[1]
    <3>1. Unlogged(s)' = Unlogged(s) /\ Unlogged(s) \subseteq Callers
      BY <2>1, <2>5, ZenonT(60) DEF Unlogged
    <3>2. s \in kills' <=> s \in kills
      BY <2>2, <2>5, ZenonT(60) DEF Set
    <3>3. LastOn(s)' <=> LastOn(s)
      BY <2>2, Zenon DEF LastOn, SwitchEvent
    <3> QED
      BY <2>1, <2>3, <3>1, <3>2, <3>3, ZenonT(60) DEF TrailOf
  <2> QED
    BY <2>4, <2>5
<1>8. ASSUME NEW c \in Callers, Audit(c) PROVE TrailOf(s)'
  <2> DEFINE t == http[c].flip[1]
             on == http[c].flip[2]
             e == SwitchEvent(t, on)
  <2>1. /\ t \in Switches /\ on \in BOOLEAN /\ c \in Owed(t, on)
        /\ Unlogged(s)' = Unlogged(s) \ {c}
        /\ \A d \in Callers \ {c} : http'[d] = http[d]
    BY <1>8, OwedAudit, Zenon
  <2>2. e \in Events /\ ledger' = Append(ledger, e) /\ UNCHANGED <<kills, raced>>
    BY <1>8, <2>1, SwitchEvents, Zenon DEF Audit, Logged
  <2>3. TrailOf(s)
    BY <1>2, <2>2
  <2>4. c \in Unlogged(t) /\ http[c].flip[2] = on
    BY <2>1, Zenon DEF Owed
  <2>5. Unlogged(s) \subseteq Callers /\ (c \in Unlogged(s) => s = t)
    BY DEF Unlogged
  <2> HIDE DEF t, on
  <2>6. CASE s = t
    <3>1. Unlogged(s)' = {}
      BY <2>1, <2>3, <2>4, <2>6, ZenonT(60) DEF TrailOf
    <3>2. s \in kills' <=> on
      BY <2>2, <2>3, <2>4, <2>6, ZenonT(60) DEF TrailOf
    <3>3. LastOn(s)' <=> on
      <4>1. CASE on = TRUE
        BY <1>1, <2>2, <2>6, <4>1, LastAppended, Zenon
      <4>2. CASE on = FALSE
        BY <1>1, <2>2, <2>6, <4>2, LastAppended, Zenon
      <4> QED
        BY <2>1, <4>1, <4>2, Zenon
    <3> QED
      BY <3>1, <3>2, <3>3, ZenonT(60) DEF TrailOf
  <2>7. CASE s # t
    <3>1. Unlogged(s)' = Unlogged(s) /\ \A d \in Unlogged(s) : http'[d] = http[d]
      BY <2>1, <2>5, <2>7, Zenon
    <3>2. e # SwitchEvent(s, TRUE) /\ e # SwitchEvent(s, FALSE)
      BY <2>1, <2>7, EventsDiffer, Zenon
    <3>3. LastOn(s)' <=> LastOn(s)
      BY <1>1, <2>2, <3>2, LastAppended, Zenon
    <3> QED
      BY <2>2, <2>3, <3>1, <3>3, ZenonT(60) DEF TrailOf
  <2> QED
    BY <2>6, <2>7
<1> QED
  BY <1>3, <1>5, <1>6, <1>7, <1>8, TrailSteps

Numbers == INSTANCE SumsProofs

\* The largest index of the events about a switch is the one TrailTellsSwitch reads.
LEMMA LastTells ==
    ASSUME IInv, NEW s \in Switches
    PROVE  LET about == {i \in DOMAIN ledger : \E on \in BOOLEAN : ledger[i] = SwitchEvent(s, on)}
               last == CHOOSE i \in about : \A j \in about : j <= i
           IN  LastOn(s) <=> about # {} /\ ledger[last] = SwitchEvent(s, TRUE)
<1> DEFINE about == {i \in DOMAIN ledger : \E on \in BOOLEAN : ledger[i] = SwitchEvent(s, on)}
           last == CHOOSE i \in about : \A j \in about : j <= i
<1>1. ledger \in Seq(Events)
  BY DEF IInv, ModeOK
<1>2. Len(ledger) \in Nat /\ DOMAIN ledger = 1..Len(ledger)
  BY <1>1
<1>3. about \in SUBSET (1..Len(ledger))
  BY <1>2
<1>4. \A i \in DOMAIN ledger : i \in about <=> ledger[i] = SwitchEvent(s, TRUE) \/ ledger[i] = SwitchEvent(s, FALSE)
  BY Zenon
<1> HIDE DEF about
<1>5. about # {} => last \in about /\ \A j \in about : j <= last
  <2>1. about # {} => \E i \in about : \A j \in about : j <= i
    BY <1>2, <1>3, Numbers!GreatestNatural, Zenon
  <2> QED
    BY <2>1
<1> HIDE DEF last
<1>6. SwitchEvent(s, TRUE) # SwitchEvent(s, FALSE)
  BY EventsDiffer, Zenon
<1>7. ASSUME LastOn(s) PROVE about # {} /\ ledger[last] = SwitchEvent(s, TRUE)
  <2>1. PICK i \in DOMAIN ledger :
            /\ ledger[i] = SwitchEvent(s, TRUE)
            /\ \A j \in DOMAIN ledger : j > i => ledger[j] # SwitchEvent(s, FALSE)
    BY <1>7, Zenon DEF LastOn
  <2>2. i \in about /\ about # {}
    BY <1>4, <2>1, Zenon
  <2>3. last \in DOMAIN ledger /\ (last = i \/ last > i)
    BY <1>2, <1>3, <1>5, <2>2
  <2> QED
    BY <1>4, <1>5, <2>1, <2>2, <2>3, Zenon
<1>8. ASSUME about # {}, ledger[last] = SwitchEvent(s, TRUE) PROVE LastOn(s)
  <2>1. last \in 1..Len(ledger) /\ \A j \in about : j \in 1..Len(ledger) /\ j <= last
    BY <1>3, <1>5, <1>8, Zenon
  <2>2. \A j \in about : ~(j > last)
    BY <1>2, <2>1
  <2> QED
    BY <1>2, <1>4, <1>8, <2>1, <2>2, Zenon DEF LastOn
<1> QED
  BY <1>7, <1>8, Zenon DEF about, last

\* The audit trail tells where a switch stands, unless two requests flipped that
\* switch between one another's flip and event.
THEOREM TrailAlwaysTellsSwitch == ServerSpec => []TrailTellsSwitch
<1>1. IInv /\ Trails => TrailTellsSwitch
  BY LastTells, Zenon DEF Trails, TrailOf, TrailTellsSwitch
<1>2. ServerSpec => []Trails
  BY TrailsInit, TrailsNext, InvAlways, PTL DEF ServerSpec
<1> QED
  BY <1>1, <1>2, InvAlways, PTL
-----------------------------------------------------------------------------
\* The events and the callers that FlipsAudited counts are finitely many.
LEMMA CountsFinite ==
    ASSUME IInv, NEW s, NEW on
    PROVE  /\ IsFiniteSet(At(s, on)) /\ Cardinality(At(s, on)) \in Nat
           /\ IsFiniteSet(Owed(s, on)) /\ Cardinality(Owed(s, on)) \in Nat
<1>1. IsFiniteSet(DOMAIN ledger)
  <2>1. ledger \in Seq(Events)
    BY DEF IInv, ModeOK
  <2>2. Len(ledger) \in Nat /\ DOMAIN ledger = 1..Len(ledger)
    BY <2>1
  <2> QED
    BY <2>2, FS_Interval
<1>2. IsFiniteSet(At(s, on))
  BY <1>1, FS_Subset DEF At
<1>3. IsFiniteSet(Owed(s, on))
  BY ServerAssumptions, FS_Subset DEF Owed, Unlogged
<1> QED
  BY <1>2, <1>3, FS_CardinalityType

\* Nothing has been flipped before the first start.
LEMMA FlipsInit == ServerInit => FlipsAudited
<1> SUFFICES ASSUME ServerInit, NEW s \in Switches, NEW on \in BOOLEAN
             PROVE  flipped[<<s, on>>] = Cardinality(At(s, on)) + Cardinality(Owed(s, on))
  BY Zenon DEF FlipsAudited, At, Owed
<1>1. At(s, on) = {} /\ Owed(s, on) = {}
  <2>1. NoRequest.pc = "idle" /\ http = [c \in Callers |-> NoRequest] /\ ledger = <<>>
    BY Zenon DEF ServerInit, NoRequest
  <2>2. Unlogged(s) = {}
    BY <2>1, Zenon DEF Unlogged
  <2> QED
    BY <2>1, <2>2 DEF At, Owed
<1> QED
  BY <1>1, FS_EmptySet DEF ServerInit, NoFlips

\* The count of one kind of flip: so many flips, events like it, and callers that owe one.
Tally(f, a, o) == f = a + o

\* A flip adds one to the flips and to the callers that owe the event; an audit turns one
\* of these into the event.
LEMMA TallyMoves ==
    ASSUME NEW f, NEW a \in Nat, NEW o \in Nat, Tally(f, a, o)
    PROVE  Tally(f + 1, a, o + 1) /\ Tally(f, a + 1, o - 1)
BY DEF Tally

\* What FlipsAudited says of one kind of flip, about finite sets.
Audited(s, on) ==
    /\ Tally(flipped[<<s, on>>], Cardinality(At(s, on)), Cardinality(Owed(s, on)))
    /\ IsFiniteSet(At(s, on)) /\ Cardinality(At(s, on)) \in Nat
    /\ IsFiniteSet(Owed(s, on)) /\ Cardinality(Owed(s, on)) \in Nat

\* Changing a switch adds its caller to those that owe the event.
LEMMA FlipCounted ==
    ASSUME IInv, NEW s \in Switches, NEW on \in BOOLEAN, Audited(s, on), NEW c \in Callers, Flip(c),
           flipped \in [Switches \X BOOLEAN -> Nat], <<s, on>> \in Switches \X BOOLEAN
    PROVE  Tally(flipped'[<<s, on>>], Cardinality(At(s, on)'), Cardinality(Owed(s, on)'))
<1> DEFINE k == <<http[c].flip[1], http[c].flip[2]>>
           Mine == s = http[c].flip[1] /\ on = http[c].flip[2]
<1>1. flipped' = [flipped EXCEPT ![k] = @ + 1] /\ ledger' = ledger
  BY DEF Flip
<1>2. At(s, on)' = At(s, on)
  BY <1>1, ZenonT(60) DEF At, SwitchEvent
<1>3. /\ c \notin Owed(s, on)
      /\ Mine => Owed(s, on)' = Owed(s, on) \cup {c}
      /\ ~Mine => Owed(s, on)' = Owed(s, on)
  <2>1. Owes(c, s, on)
    BY OwedFlip, Zenon
  <2> QED
    BY <2>1, Zenon DEF Owes
<1>a. <<s, on>> = k <=> Mine
  BY Zenon
<1> HIDE DEF k, Mine
<1>4. Cardinality(Owed(s, on) \cup {c}) = Cardinality(Owed(s, on)) + 1
  BY <1>3, FS_AddElement, Zenon DEF Audited
<1>5. CASE Mine
  <2>1. flipped'[<<s, on>>] = flipped[<<s, on>>] + 1
    BY <1>1, <1>5, <1>a, Zenon
  <2>2. Cardinality(Owed(s, on)') = Cardinality(Owed(s, on)) + 1
    BY <1>3, <1>4, <1>5, Zenon
  <2>3. Tally(flipped[<<s, on>>] + 1, Cardinality(At(s, on)), Cardinality(Owed(s, on)) + 1)
    BY TallyMoves, Zenon DEF Audited
  <2> QED
    BY <1>2, <2>1, <2>2, <2>3, Zenon
<1>6. CASE ~Mine
  <2>1. flipped'[<<s, on>>] = flipped[<<s, on>>]
    BY <1>1, <1>6, <1>a, Zenon
  <2> QED
    BY <1>2, <1>3, <1>6, <2>1, Zenon DEF Audited
<1> QED
  BY <1>5, <1>6, Zenon

\* Logging a change takes its caller off the list, and puts its event in the ledger.
LEMMA AuditCounted ==
    ASSUME IInv, NEW s \in Switches, NEW on \in BOOLEAN, Audited(s, on), NEW c \in Callers, Audit(c),
           ledger \in Seq(Events)
    PROVE  Tally(flipped'[<<s, on>>], Cardinality(At(s, on)'), Cardinality(Owed(s, on)'))
<1> DEFINE e == SwitchEvent(http[c].flip[1], http[c].flip[2])
           n == Len(ledger) + 1
<1>1. /\ http[c].flip[1] \in Switches /\ http[c].flip[2] \in BOOLEAN
      /\ c \in Owed(http[c].flip[1], http[c].flip[2]) /\ Owed(s, on)' = Owed(s, on) \ {c}
  <2>1. /\ http[c].flip[1] \in Switches /\ http[c].flip[2] \in BOOLEAN
        /\ c \in Owed(http[c].flip[1], http[c].flip[2])
        /\ \A o : Owed(s, o)' = Owed(s, o) \ {c}
    BY OwedAudit, Zenon
  <2> QED
    BY <2>1, Zenon
<1>2. e \in Events /\ ledger' = Append(ledger, e) /\ flipped' = flipped
  BY <1>1, SwitchEvents, Zenon DEF Audit, Logged
<1>3. e = SwitchEvent(s, on) <=> c \in Owed(s, on)
  <2>1. c \in Owed(s, on) => e = SwitchEvent(s, on)
    BY Zenon DEF Owed, Unlogged
  <2>2. e = SwitchEvent(s, on) => s = http[c].flip[1] /\ on = http[c].flip[2]
    <3>1. http[c].flip \in Switches \X BOOLEAN /\ <<s, on>> \in Switches \X BOOLEAN
      BY Zenon DEF Audit, IInv, Calls_OK, CallOK
    <3> QED
      BY <3>1, EventTells, Zenon
  <2> QED
    BY <1>1, <2>1, <2>2, Zenon
<1> HIDE DEF e
<1>4. /\ n \notin At(s, on)
      /\ At(s, on)' = IF e = SwitchEvent(s, on) THEN At(s, on) \cup {n} ELSE At(s, on)
  BY <1>2, AtAppended
<1> HIDE DEF n
<1>5. Cardinality(At(s, on) \cup {n}) = Cardinality(At(s, on)) + 1
  BY <1>4, FS_AddElement, Zenon DEF Audited
<1>6. Cardinality(Owed(s, on) \ {c}) = IF c \in Owed(s, on) THEN Cardinality(Owed(s, on)) - 1
                                       ELSE Cardinality(Owed(s, on))
  BY FS_RemoveElement, Zenon DEF Audited
<1>7. CASE c \in Owed(s, on)
  <2>1. /\ Cardinality(At(s, on)') = Cardinality(At(s, on)) + 1
        /\ Cardinality(Owed(s, on)') = Cardinality(Owed(s, on)) - 1
    BY <1>1, <1>3, <1>4, <1>5, <1>6, <1>7, Zenon
  <2>2. Tally(flipped[<<s, on>>], Cardinality(At(s, on)) + 1, Cardinality(Owed(s, on)) - 1)
    BY TallyMoves, Zenon DEF Audited
  <2> QED
    BY <1>2, <2>1, <2>2, Zenon
<1>8. CASE c \notin Owed(s, on)
  <2>1. /\ Cardinality(At(s, on)') = Cardinality(At(s, on))
        /\ Cardinality(Owed(s, on)') = Cardinality(Owed(s, on))
    BY <1>1, <1>3, <1>4, <1>6, <1>8, Zenon
  <2> QED
    BY <1>2, <2>1, Zenon DEF Audited
<1> QED
  BY <1>7, <1>8, Zenon

\* A flip adds a caller that owes an event, an audit turns it into the event, and a
\* crash forgets the ledger with the switches.
LEMMA FlipsNext == IInv /\ FlipsAudited /\ [ServerNext]_serverVars => FlipsAudited'
<1> SUFFICES ASSUME IInv, FlipsAudited, [ServerNext]_serverVars, NEW s \in Switches, NEW on \in BOOLEAN
             PROVE  Tally(flipped'[<<s, on>>], Cardinality(At(s, on)'), Cardinality(Owed(s, on)'))
  BY Zenon DEF FlipsAudited, At, Owed, Tally
<1>1. Audited(s, on)
  <2>1. Tally(flipped[<<s, on>>], Cardinality(At(s, on)), Cardinality(Owed(s, on)))
    BY Zenon DEF FlipsAudited, At, Owed, Tally
  <2> QED
    BY <2>1, CountsFinite, ZenonT(60) DEF Audited
<1>2. ledger \in Seq(Events) /\ flipped \in [Switches \X BOOLEAN -> Nat] /\ <<s, on>> \in Switches \X BOOLEAN
  BY ZenonT(60) DEF IInv, ModeOK, ServerTypeOK
<1>3. CASE Fresh_Trail
  <2>1. At(s, on)' = {} /\ Owed(s, on)' = {}
    BY <1>3 DEF Fresh_Trail, At, Owed, Unlogged
  <2>2. Cardinality(At(s, on)') = 0 /\ Cardinality(Owed(s, on)') = 0
    BY <2>1, FS_EmptySet, Zenon
  <2>3. flipped'[<<s, on>>] = 0
    BY <1>2, <1>3, ZenonT(60) DEF Fresh_Trail, NoFlips
  <2>4. Tally(0, 0, 0)
    BY DEF Tally
  <2> QED
    BY <2>2, <2>3, <2>4, Zenon
<1>4. CASE Quiet
  <2>1. At(s, on)' = At(s, on)
    BY <1>4, ZenonT(60) DEF Quiet, trail, At, SwitchEvent
  <2> QED
    BY <1>1, <1>4, <2>1, OwedKept, ZenonT(60) DEF Quiet, trail, Audited
<1>5. CASE Legacy
  <2>1. PICK t \in Tenants : ledger' = Append(ledger, LegacyEvent(t))
    BY <1>5 DEF Legacy
  <2>2. LegacyEvent(t) \in Events
    BY DEF LegacyEvent, Events
  <2>3. At(s, on)' = At(s, on)
    BY <1>2, <2>1, <2>2, AtAppended, EventsDiffer
  <2> QED
    BY <1>1, <1>5, <2>3, OwedKept, ZenonT(60) DEF Legacy, Audited
<1> QED
  BY <1>1, <1>2, <1>3, <1>4, <1>5, FlipCounted, AuditCounted, TrailSteps, ZenonT(60)

\* Every flip of a switch is in the ledger exactly once, or its request has yet to
\* log it, however the flips and events of the connections interleave.
THEOREM FlipsAlwaysAudited == ServerSpec => []FlipsAudited
BY FlipsInit, FlipsNext, InvAlways, PTL DEF ServerSpec
=============================================================================
