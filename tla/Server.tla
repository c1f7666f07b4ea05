------------------------------- MODULE Server -------------------------------
(***************************************************************************)
(* The process (cmd/gateway, internal/config) and its HTTP surface         *)
(* (internal/httpapi) on top of the control-plane store: start-up from a   *)
(* validated configuration, the middleware every request passes, the       *)
(* operator's kill-switch endpoint with its audit trail, and a crash,      *)
(* which loses everything but the rows in Postgres.                        *)
(*                                                                         *)
(* Each caller is one connection served by its own goroutine.  The         *)
(* limiters' answers are left open here (RateLimiter models them), and so  *)
(* is what HandleRequest decides beyond the budget and the switches        *)
(* (Gateway models it).  The ledger holds the events of this module only.  *)
(***************************************************************************)
EXTENDS KeyStore, Integers, Sequences, FiniteSets

CONSTANTS
    Demo,        \* the slug of the demo tenant (VG_DEMO_TENANT_SLUG)
    Switches,    \* the kill switches operators flip, <<scope, value>>
    MaxStarts,   \* bound: how often the process is started
    MaxEvents    \* bound: events in the ledger of one process

\* The scopes the demo key is created with.
DemoScopes == {"proxy:write", "read:exposure"}

ASSUME ServerAssumptions ==
    /\ Demo \in Tenants
    /\ DemoScopes \in Grants
    /\ IsFiniteSet(Callers)
    /\ MaxStarts \in Nat
    /\ MaxEvents \in Nat

VARIABLES
    process,     \* whether the process is up, and the settings the handlers read
    funded,      \* the tenants SetBudget has given a positive limit
    kills,       \* the kill switches that are on
    ledger,      \* the events appended, oldest first
    http,        \* the request each caller is serving
    starts,      \* how often the process has been started
    issued,      \* the demo keys printed so far: key material is never generated twice
    flipped,     \* history: how often each switch has been set to each position
    raced        \* history: the switches flipped while an earlier flip was not yet logged

trail == <<kills, ledger, flipped, raced>>
boot == <<process, funded, starts, issued>>
serverVars == <<vars, boot, trail, http>>

\* The scope a route of the mux requires of an API key.
Required == [exposure |-> "read:exposure", events |-> "read:events", proxy |-> "proxy:write"]
Endpoints == DOMAIN Required \cup {"health", "kill-switch"}

SwitchEvent(s, on) == [type |-> IF on THEN "KILL_SWITCH_ON" ELSE "KILL_SWITCH_OFF", subject |-> s]
LegacyEvent(t) == [type |-> "LEGACY_UNSCOPED_KEY_USED", subject |-> <<"tenant", t>>]

\* key, tenant: empty until known.  flip: the <<switch, position>> of the body.
NoRequest == [pc |-> "idle", endpoint |-> "health", key |-> {}, tenant |-> {},
              flip |-> <<>>, status |-> 0]
Requests ==
    [pc: {"idle", "auth", "handler", "upstream", "flip", "audit", "done"},
     endpoint: Endpoints, key: SUBSET Keys, tenant: SUBSET Tenants,
     flip: (Switches \X BOOLEAN) \cup {<<>>},
     status: {0, 200, 400, 401, 402, 403, 404, 405, 413, 429, 500, 502}]

\* The process's state, the trail and every request have the fields the code gives
\* them, the store is consistent, and a process that is down holds no state.
ServerTypeOK ==
    /\ TypeOK
    /\ process \in [up: BOOLEAN, operator: BOOLEAN]
    /\ funded \subseteq tenants
    /\ kills \subseteq Switches
    /\ \A i \in DOMAIN ledger : ledger[i].subject \in Switches \cup ({"tenant"} \X Tenants)
    /\ http \in [Callers -> Requests]
    /\ starts \in 0..MaxStarts
    /\ issued \subseteq Keys
    /\ flipped \in [Switches \X BOOLEAN -> Nat]
    /\ raced \subseteq Switches
    /\ ~process.up => funded = {} /\ kills = {} /\ ledger = <<>>
-----------------------------------------------------------------------------
\* The settings read from the environment that start-up and the handlers tell
\* apart: the length of the operator token (0: unset), whether there is a DSN, the
\* demo budget, and the rate limits.
Configs == [token: {0, 31, 32}, dsn: BOOLEAN, budget: {-1, 0, 1}, rate: {-1, 0, 1}]

\* Faulty variant of Validate: Postgres mode does not insist on an operator token.
ValidateLax(config) ==
    /\ backend = "postgres" => config.dsn
    /\ config.budget >= 0
    /\ config.token = 0 \/ config.token >= 32
    /\ config.rate >= 0

\* Config.Validate; the store mode itself is one of the two.
Validate(config) ==
    /\ backend = "postgres" => config.dsn /\ config.token >= 32
    /\ config.budget >= 0
    /\ config.token = 0 \/ config.token >= 32
    /\ config.rate >= 0

\* Faulty variant of Bootstrap: goes on when the tenant could not be created.
BootstrapUnchecked(config) ==
    \E k \in Keys \ issued :
        /\ funded' = IF config.budget > 0 THEN {Demo} ELSE {}
        /\ issued' = issued \cup {k}
        /\ UNCHANGED <<tenants, keys>>

\* main's demo tenant, its key and its budget, only in memory mode.
Bootstrap(config) ==
    \E k \in Keys \ issued :
        /\ tenants' = {Demo}
        /\ keys' = [keys EXCEPT ![k] = NewRecord(Demo, DemoScopes)]
        /\ issued' = issued \cup {k}
        /\ funded' = IF config.budget > 0 THEN {Demo} ELSE {}

\* main up to ListenAndServe.  A configuration that does not validate, or a
\* database that cannot be reached, ends the process before it is up: no step.
\* The rate, the provider and the route it registers never change afterwards.
Start(config) ==
    /\ ~process.up
    /\ starts < MaxStarts
    /\ Validate(config)
    /\ process' = [up |-> TRUE, operator |-> config.token # 0]
    /\ starts' = starts + 1
    /\ \/ backend = "memory" /\ Bootstrap(config)
       \/ backend = "postgres" /\ UNCHANGED <<tenants, keys, issued, funded>>
    /\ UNCHANGED <<backend, revoked, auth, trail, http>>

Down == [up |-> FALSE, operator |-> FALSE]
NoFlips == [f \in Switches \X BOOLEAN |-> 0]

ServerInit ==
    /\ Init
    /\ process = Down
    /\ funded = {}
    /\ kills = {} /\ ledger = <<>> /\ flipped = NoFlips /\ raced = {}
    /\ http = [c \in Callers |-> NoRequest]
    /\ starts = 0
    /\ issued = {}

\* The process dies at any point, and requests with it.  Only Postgres keeps its rows.
Crash ==
    /\ process.up
    /\ starts < MaxStarts
    /\ process' = Down
    /\ funded' = {}
    /\ kills' = {} /\ ledger' = <<>> /\ flipped' = NoFlips /\ raced' = {}
    /\ http' = [c \in Callers |-> NoRequest]
    /\ auth' = [c \in Callers |-> NoCall]
    /\ \/ /\ backend = "memory"
          /\ tenants' = {}
          /\ keys' = [k \in Keys |-> NoRecord]
          /\ revoked' = {}
       \/ backend = "postgres" /\ UNCHANGED <<tenants, keys, revoked>>
    /\ UNCHANGED <<backend, starts, issued>>

\* Tenants and keys are provisioned with the store, outside the process: there is
\* no admin API.  In memory mode nothing but main calls the store's writers.
Provision ==
    /\ backend = "postgres"
    /\ \/ \E t \in Tenants : CreateTenant(t)
       \/ \E k \in Keys, t \in Tenants, g \in Grants : CreateAPIKey(k, t, g)
       \/ \E k \in Keys : RevokeAPIKey(k)
    /\ UNCHANGED <<boot, trail, http>>
-----------------------------------------------------------------------------
\* The request's next point, and an answer to the caller, after which only the
\* status is left of the request.
Go(c, request) == http' = [http EXCEPT ![c] = request]
Respond(c, status) == Go(c, [NoRequest EXCEPT !.pc = "done", !.status = status])

\* There is room in the bounded ledger for what the requests under way may append.
Room == Len(ledger) + Cardinality({c \in Callers : http[c].pc \in {"auth", "flip", "audit"}})
            < MaxEvents

\* requireAuth up to the call of Authenticate.
RequireAuth(c, e) ==
    \/ Respond(c, 401)
    \/ /\ Room
       /\ \E k \in Keys : Go(c, [NoRequest EXCEPT !.pc = "auth", !.endpoint = e, !.key = {k}])

\* requireOperator, and handleKillSwitch up to the flip: wrong token, method or body.
RequireOperator(c, e) ==
    \/ ~process.operator /\ Respond(c, 404)
    \/ /\ process.operator
       /\ \/ \E status \in {401, 405, 400} : Respond(c, status)
          \/ /\ Room
             /\ \E s \in Switches, on \in BOOLEAN :
                    Go(c, [NoRequest EXCEPT !.pc = "flip", !.endpoint = e, !.flip = <<s, on>>])

\* A request arrives on a connection that is not busy.  ServeHTTP asks the per-IP
\* limiter before it routes anything.
Arrive(c, e) ==
    /\ process.up
    /\ http[c].pc \in {"idle", "done"}
    /\ \/ Respond(c, 429)
       \/ e = "health" /\ Respond(c, 200)
       \/ e \in DOMAIN Required /\ RequireAuth(c, e)
       \/ e = "kill-switch" /\ RequireOperator(c, e)
    /\ UNCHANGED <<vars, boot, trail>>
-----------------------------------------------------------------------------
\* The store's Authenticate, called for the key the request presents.
Authenticate(c) ==
    /\ http[c].pc = "auth"
    /\ \/ \E k \in http[c].key : AuthLookup(c, k)
       \/ AuthTenant(c)
       \/ AuthTouch(c)
    /\ UNCHANGED <<boot, trail, http>>

\* A database error in Authenticate's query.
AuthenticateFails(c) ==
    /\ http[c].pc = "auth"
    /\ backend = "postgres"
    /\ auth[c].pc = "idle"
    /\ Respond(c, 500)
    /\ UNCHANGED <<vars, boot, trail>>

\* Faulty variant of HasScope: any scope will do.
HasAnyScope(record, e) == record.scopes # {}

HasScope(record, e) == Required[e] \in record.scopes

\* requireAuth after Authenticate: the scope, the audit event of the legacy path,
\* and the per-tenant limiter, in this order.
Admit(c) ==
    LET e == http[c].endpoint
        record == auth[c].record
        Admitted == \/ Go(c, [http[c] EXCEPT !.pc = "handler", !.tenant = record.owner])
                    \/ Respond(c, 429)
    IN  /\ http[c].pc = "auth"
        /\ AuthReturn(c)
        /\ \/ auth[c].pc = "ErrNotFound" /\ Respond(c, 401) /\ UNCHANGED ledger
           \/ auth[c].pc = "ErrRevoked" /\ Respond(c, 403) /\ UNCHANGED ledger
           \/ /\ auth[c].pc = "ok"
              /\ \/ /\ record.scopes = {}
                    /\ \E t \in record.owner : ledger' = Append(ledger, LegacyEvent(t))
                    /\ Admitted
                 \/ record.scopes # {} /\ HasScope(record, e) /\ Admitted /\ UNCHANGED ledger
                 \/ record.scopes # {} /\ ~HasScope(record, e) /\ Respond(c, 403) /\ UNCHANGED ledger
        /\ UNCHANGED <<boot, kills, flipped, raced>>
-----------------------------------------------------------------------------
\* The provider of the one route main makes.
RouteProvider == "demo-provider"

\* A switch covers the tenant's requests: global, the tenant's own, or that of the
\* provider they are routed to.
Killed(t) ==
    \E s \in kills : s[1] = "global" \/ s \in {<<"tenant", t>>, <<"provider", RouteProvider>>}

\* HandleRequest gets as far as the provider only if no switch is on and the
\* reservation fits the limit; a tenant without a budget has limit zero, and with the
\* price main registers no estimate is zero.
MayForward(t) == ~Killed(t) /\ t \in funded

\* The handlers behind requireAuth: the two reads, a body that cannot be read, and
\* the proxy, whose request is refused (402), throttled (429), fails (502) or is
\* forwarded.
Serve(c) ==
    /\ http[c].pc = "handler"
    /\ \/ http[c].endpoint \in {"exposure", "events"} /\ Respond(c, 200)
       \/ /\ http[c].endpoint = "proxy"
          /\ \/ \E status \in {413, 402, 502} : Respond(c, status)
             \/ /\ \E t \in http[c].tenant : MayForward(t)
                /\ Respond(c, 429) \/ Go(c, [http[c] EXCEPT !.pc = "upstream"])
    /\ UNCHANGED <<vars, boot, trail>>

\* The provider's answer, its error, or the 30 s timeout.
Upstream(c) ==
    /\ http[c].pc = "upstream"
    /\ \E status \in {200, 502} : Respond(c, status)
    /\ UNCHANGED <<vars, boot, trail>>
-----------------------------------------------------------------------------
\* Faulty variant of Set: a switch is never set back.
SetOnly(s, on) == kills \cup {s}

\* KillAll, KillTenant and KillProvider.
Set(s, on) == IF on THEN kills \cup {s} ELSE kills \ {s}

Unlogged(s) == {c \in Callers : http[c].pc = "audit" /\ http[c].flip[1] = s}

\* handleKillSwitch sets the switch under the engine's lock ...
Flip(c) ==
    LET s == http[c].flip[1]
        on == http[c].flip[2]
    IN  /\ http[c].pc = "flip"
        /\ kills' = Set(s, on)
        /\ flipped' = [flipped EXCEPT ![<<s, on>>] = @ + 1]
        /\ raced' = IF Unlogged(s) = {} THEN raced ELSE raced \cup {s}
        /\ Go(c, [http[c] EXCEPT !.pc = "audit"])
        /\ UNCHANGED <<vars, boot, ledger>>

\* Faulty variant of Logged: only switching on is logged.
LoggedOn(s, on) == IF on THEN Append(ledger, SwitchEvent(s, on)) ELSE ledger

Logged(s, on) == Append(ledger, SwitchEvent(s, on))

\* ... and appends the event under the ledger's, in a step of its own.
Audit(c) ==
    /\ http[c].pc = "audit"
    /\ ledger' = Logged(http[c].flip[1], http[c].flip[2])
    /\ Respond(c, 200)
    /\ UNCHANGED <<vars, boot, kills, flipped, raced>>
-----------------------------------------------------------------------------
\* What the goroutine of one connection does once a request has arrived.
Handle(c) ==
    \/ Authenticate(c)
    \/ AuthenticateFails(c)
    \/ Admit(c)
    \/ Serve(c)
    \/ Upstream(c)
    \/ Flip(c)
    \/ Audit(c)

ServerNext ==
    \/ \E config \in Configs : Start(config)
    \/ Crash
    \/ Provision
    \/ \E c \in Callers : (\E e \in Endpoints : Arrive(c, e)) \/ Handle(c)

ServerSpec == ServerInit /\ [][ServerNext]_serverVars
-----------------------------------------------------------------------------
\* requireAuth: "the tenant now comes only from a hashed, revocable key looked up in
\* Store", and an unscoped key's pass is "never silent".  A request reaches a
\* tenant-scoped handler only as the tenant that owns the key it presented; the key
\* carries the route's scope, or it carries none and this process's ledger says so.
OnlyAuthorised ==
    \A c \in Callers :
        http[c].pc \in {"handler", "upstream"} =>
            \E k \in http[c].key, t \in Tenants :
                /\ keys[k].exists
                /\ http[c].tenant = {t} /\ keys[k].owner = {t}
                /\ \/ Required[http[c].endpoint] \in keys[k].scopes
                   \/ /\ keys[k].scopes = {}
                      /\ \E i \in DOMAIN ledger : ledger[i] = LegacyEvent(t)

\* handleKillSwitch: "Audit trail for every kill-switch flip".  While the process
\* lives, every flip is in the ledger exactly once, but for the requests that have
\* flipped and not yet logged.
FlipsAudited ==
    \A s \in Switches, on \in BOOLEAN :
        flipped[<<s, on>>] = Cardinality({i \in DOMAIN ledger : ledger[i] = SwitchEvent(s, on)})
                         + Cardinality({c \in Unlogged(s) : http[c].flip[2] = on})

\* The trail can be trusted to say which switches are on: the last event about a
\* switch names its position, unless two requests flipped that switch between one
\* another's flip and event (handleKillSwitch takes the two locks one after the other).
TrailTellsSwitch ==
    \A s \in Switches \ raced :
        Unlogged(s) = {} =>
            LET about == {i \in DOMAIN ledger : \E on \in BOOLEAN : ledger[i] = SwitchEvent(s, on)}
                last == CHOOSE i \in about : \A j \in about : j <= i
            IN  s \in kills <=> about # {} /\ ledger[last] = SwitchEvent(s, TRUE)

\* Config.Validate: "fail fast rather than let the kill switch silently run without
\* operator auth".  With the durable store the operator's endpoint is never the 404
\* of a process without a token, after no sequence of restarts.
ProductionStoppable ==
    \A c \in Callers : http[c].status = 404 => backend = "memory"
=============================================================================
