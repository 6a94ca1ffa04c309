------------------------------ MODULE StubPool ------------------------------
(***************************************************************************)
(* What the process table of VActivityManagerService promises, with all of  *)
(* its tables, threads and locks abstracted away: the host package declares *)
(* a fixed set of stub processes, a stub is let to one tenant at a time (a  *)
(* tenant is a ProcessRecord, one start of one app process), and a stub     *)
(* changes hands only after the process of the tenant in it has died.       *)
(***************************************************************************)
CONSTANTS Stub, Tenant

VARIABLE tenants    \* [Stub -> SUBSET Tenant]: who lives in each stub

TypeOK == tenants \in [Stub -> SUBSET Tenant]

Init == tenants = [s \in Stub |-> {}]

\* An empty stub is let to a tenant.
Let(s, t) ==
    /\ tenants[s] = {}
    /\ tenants' = [tenants EXCEPT ![s] = {t}]

\* The processes of some stubs die, together or one by one.
Vacate(S) == tenants' = [s \in Stub |-> IF s \in S THEN {} ELSE tenants[s]]

Next ==
    \/ \E s \in Stub, t \in Tenant : Let(s, t)
    \/ \E S \in SUBSET Stub : Vacate(S)

Spec == Init /\ [][Next]_tenants
=============================================================================
