------------------------------ MODULE KeyStore ------------------------------
(***************************************************************************)
(* The control-plane store (internal/store): tenants and API keys, with    *)
(* callers that authenticate while keys are created and revoked.           *)
(*                                                                         *)
(* The two implementations of Store differ in two places.  MemoryStore     *)
(* writes the whole record that Authenticate read earlier back to the map, *)
(* PostgresStore updates one column of the row.  MemoryStore revokes a     *)
(* revoked key again, PostgresStore finds no row to update.  A step is one *)
(* critical section of the mutex, or one SQL statement.                    *)
(***************************************************************************)
EXTENDS Naturals

CONSTANTS
    Backends,  \* the implementations of Store considered
    Tenants,   \* tenants that may be created, named by their slug
    Keys,      \* API keys that may be generated
    Grants,    \* lists of scopes a key may be created with, as sets
    Callers    \* goroutines that call Authenticate

ASSUME KeyStoreAssumptions == Backends \subseteq {"memory", "postgres"} /\ Keys # {}

VARIABLES
    backend,   \* the implementation of Store in use, "memory" or "postgres"
    tenants,   \* the tenants created
    keys,      \* the record of each key generated
    auth,      \* the local state of each Authenticate call
    revoked    \* history: the keys for which RevokeAPIKey has succeeded

vars == <<backend, tenants, keys, auth, revoked>>

\* A key's record, empty until the key is generated.
Records == [exists: BOOLEAN, owner: SUBSET Tenants, scopes: Grants \cup {{}}, revoked: BOOLEAN]
NoRecord == [exists |-> FALSE, owner |-> {}, scopes |-> {}, revoked |-> FALSE]
NewRecord(t, scopes) == [NoRecord EXCEPT !.exists = TRUE, !.owner = {t}, !.scopes = scopes]

\* after: the key had been revoked when the call looked it up.
Calls == [pc: {"idle", "tenant", "touch", "ok", "ErrNotFound", "ErrRevoked"},
          key: Keys, record: Records, after: BOOLEAN]
Answered == {"ok", "ErrNotFound", "ErrRevoked"}
NoCall == [pc |-> "idle", key |-> CHOOSE k \in Keys : TRUE, record |-> NoRecord, after |-> FALSE]

\* The records and the callers' copies of them have the fields the code gives them,
\* and every key that exists belongs to one tenant that exists.
TypeOK ==
    /\ backend \in Backends
    /\ tenants \subseteq Tenants
    /\ keys \in [Keys -> Records]
    /\ auth \in [Callers -> Calls]
    /\ revoked \subseteq Keys
    /\ \A k \in Keys : keys[k].exists => \E t \in tenants : keys[k].owner = {t}

Init ==
    /\ backend \in Backends
    /\ tenants = {}
    /\ keys = [k \in Keys |-> NoRecord]
    /\ auth = [c \in Callers |-> NoCall]
    /\ revoked = {}
-----------------------------------------------------------------------------
\* ErrDuplicateSlug otherwise.
CreateTenant(t) ==
    /\ t \notin tenants
    /\ tenants' = tenants \cup {t}
    /\ UNCHANGED <<backend, keys, auth, revoked>>

\* GetTenant finds the tenant.
GetTenant(t) == t \in tenants

\* ErrNotFound for a tenant that does not exist.  Tenants are never removed, so
\* PostgresStore's separate SELECT and INSERT make one step.
CreateAPIKey(k, t, scopes) ==
    /\ GetTenant(t)
    /\ ~keys[k].exists
    /\ keys' = [keys EXCEPT ![k] = NewRecord(t, scopes)]
    /\ UNCHANGED <<backend, tenants, auth, revoked>>

\* Postgres updates only a row "WHERE revoked_at IS NULL".
Revocable(record) == backend = "postgres" => ~record.revoked

\* ErrNotFound without a record, and for PostgresStore if the key is revoked.
RevokeAPIKey(k) ==
    /\ keys[k].exists
    /\ Revocable(keys[k])
    /\ keys' = [keys EXCEPT ![k].revoked = TRUE]
    /\ revoked' = revoked \cup {k}
    /\ UNCHANGED <<backend, tenants, auth>>
-----------------------------------------------------------------------------
\* Authenticate reads the record by the hash of the plaintext.
Verdict(record) ==
    CASE ~record.exists -> "ErrNotFound"
      [] record.exists /\ record.revoked -> "ErrRevoked"
      [] OTHER -> "tenant"

AuthLookup(c, k) ==
    /\ auth[c].pc = "idle"
    /\ auth' = [auth EXCEPT ![c] = [pc |-> Verdict(keys[k]), key |-> k, record |-> keys[k],
                                    after |-> k \in revoked]]
    /\ UNCHANGED <<backend, tenants, keys, revoked>>

\* The tenant: a second lookup in memory, a part of the same SELECT in Postgres.
AuthTenant(c) ==
    /\ auth[c].pc = "tenant"
    /\ auth' = [auth EXCEPT ![c].pc = IF auth[c].record.owner \subseteq tenants
                                      THEN "touch" ELSE "ErrNotFound"]
    /\ UNCHANGED <<backend, tenants, keys, revoked>>

\* Faulty variant of Touched: Postgres, too, writes back what was read.
TouchedStale(record, copy) == copy

\* The record that the last-used update leaves behind.  Nothing reads the time
\* itself, so an update that fails, which PostgresStore ignores, is no other step.
Touched(record, copy) == IF backend = "memory" THEN copy ELSE record

AuthTouch(c) ==
    /\ auth[c].pc = "touch"
    /\ keys' = [keys EXCEPT ![auth[c].key] = Touched(@, auth[c].record)]
    /\ auth' = [auth EXCEPT ![c].pc = "ok"]
    /\ UNCHANGED <<backend, tenants, revoked>>

\* The caller has its answer and may call again.
AuthReturn(c) ==
    /\ auth[c].pc \in Answered
    /\ auth' = [auth EXCEPT ![c] = NoCall]
    /\ UNCHANGED <<backend, tenants, keys, revoked>>

Next ==
    \/ \E t \in Tenants : CreateTenant(t)
    \/ \E k \in Keys : \/ \E t \in Tenants, g \in Grants : CreateAPIKey(k, t, g)
                       \/ RevokeAPIKey(k)
    \/ \E c \in Callers : \/ \E k \in Keys : AuthLookup(c, k)
                          \/ AuthTenant(c)
                          \/ AuthTouch(c)
                          \/ AuthReturn(c)

Spec == Init /\ [][Next]_vars
-----------------------------------------------------------------------------
\* The contract of Authenticate: "ErrRevoked if the key was revoked".  A call that
\* looks a key up after RevokeAPIKey has succeeded for it never succeeds, whatever
\* calls were under way when the key was revoked.
RevocationHonoured ==
    \A c \in Callers : auth[c].after => auth[c].pc \notin {"tenant", "touch", "ok"}
=============================================================================
