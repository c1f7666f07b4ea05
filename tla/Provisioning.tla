---------------------------- MODULE Provisioning ----------------------------
(***************************************************************************)
(* The process of Server beside the budget_accounts table of the durable   *)
(* store.  An operator provisions a tenant, its key and its budget in      *)
(* Postgres, and then starts the process, as main's log asks for.          *)
(***************************************************************************)
EXTENDS Server

VARIABLE budgets    \* the tenants with a positive limit in budget_accounts

provisioningVars == <<serverVars, budgets>>

ProvisioningInit == ServerInit /\ budgets = {}

\* A row is added for a tenant, before the process is started.
AddBudget(t) ==
    /\ backend = "postgres"
    /\ ~process.up
    /\ t \in tenants
    /\ budgets' = budgets \cup {t}
    /\ UNCHANGED serverVars

ProvisioningNext ==
    \/ \E t \in Tenants : AddBudget(t)
    \/ ServerNext /\ UNCHANGED budgets

ProvisioningSpec == ProvisioningInit /\ [][ProvisioningNext]_provisioningVars
-----------------------------------------------------------------------------
\* The note in 0001_control_plane_init.sql: the hot path "reads from in-process state
\* that is seeded/refreshed from these tables at startup", and main's log line:
\* "provision tenants, API keys, and budgets via the store directly (no admin API yet)
\* before routing real traffic".  A proxy request that requireAuth has let through for a
\* tenant with a budget in the store is not refused for want of one: unless a kill
\* switch covers it, it may be forwarded.
ProvisionedServed ==
    \A c \in Callers :
        http[c].pc = "handler" /\ http[c].endpoint = "proxy" =>
            \A t \in http[c].tenant \cap budgets : Killed(t) \/ MayForward(t)
=============================================================================
