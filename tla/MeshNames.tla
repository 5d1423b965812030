----------------------------- MODULE MeshNames ------------------------------
(***************************************************************************)
(* The VIP table in the agent that uses it: the start-up that opens it and *)
(* retires foreign tenants (cmd/wendy-agent/main.go), the DNS server that  *)
(* allocates from it (mesh/dns.go), and provisioning, which changes the    *)
(* tenant (services/provisioning_service.go).                              *)
(*                                                                         *)
(* Three locks meet here.  A DNS answer reads the server's identity under  *)
(* one lock and allocates under another, so a query holds a tenant that    *)
(* may no longer be the device's when it is used.  An enrolment is durable *)
(* before its callback retires the old tenant and turns DNS to the new     *)
(* one, so the agent may die in between.  A reset erases the enrolment and *)
(* leaves DNS on the old tenant until the agent exits.                     *)
(***************************************************************************)
EXTENDS VIPTable

CONSTANT MaxEnrolls   \* bound: enrolments

ASSUME EnrollAssumption == MaxEnrolls \in Nat /\ None \notin Tenants

VARIABLES
  enrolled,   \* the tenant of the stored certificate, or None
  stage,      \* "down"; "opened": table open, not retired yet; "up";
              \* "persisted": enrolled, the callback has not run; "retired":
              \* the callback is between RetireTenant and the DNS server
  identity,   \* the DNS server's tenant, or None
  queries,    \* device -> the tenant an unfinished query read, or None
  resetRestartPending,
  enrolls     \* counter against MaxEnrolls

names == <<enrolled, stage, identity, queries, resetRestartPending, enrolls>>
allVars == <<vars, names>>

NoQueries == [d \in Devices |-> None]

\* The table's types and those of the agent around it.
NamesTypeOK ==
  /\ TypeOK
  /\ enrolled \in Tenants \cup {None}
  /\ stage \in {"down", "opened", "up", "persisted", "retired"}
  /\ identity \in Tenants \cup {None}
  /\ queries \in [Devices -> Tenants \cup {None}]
  /\ resetRestartPending \in BOOLEAN
  /\ enrolls \in 0..MaxEnrolls

NamesInit ==
  /\ Init
  /\ enrolled = None /\ stage = "down" /\ identity = None
  /\ queries = NoQueries /\ resetRestartPending = FALSE /\ enrolls = 0

-----------------------------------------------------------------------------
(* Start-up.                                                               *)

\* RetireTenant with its early return for a table that holds no other tenant.
Retire(t) ==
  \/ Usable /\ Outside(t) = {} /\ UNCHANGED vars
  \/ \E outcome \in PersistOutcomes : RetireTenant(t, outcome)

\* Mutant: the table is loaded and used before its directory is synced.
Start_Unsynced ==
  /\ stage = "down" /\ ~open /\ Valid(vis)
  /\ open' = TRUE /\ poisoned' = FALSE
  /\ entries' = LoadedEntries(vis) /\ owner' = LoadedOwner(vis)
  /\ retired' = vis.retired /\ cursor' = vis.cursor
  /\ stage' = "opened"
  /\ UNCHANGED <<vis, disk, grants, enrolled, identity, queries,
                 resetRestartPending, enrolls>>

\* main: open the table; one that does not open leaves the agent without ...
Start ==
  /\ stage = "down"
  /\ \/ Open /\ stage' = "opened"
     \/ UNCHANGED vars /\ stage' = "up"
  /\ UNCHANGED <<enrolled, identity, queries, resetRestartPending, enrolls>>

\* Mutant: only a change of tenant in a running agent retires.
StartRetire_Skipped ==
  /\ stage = "opened"
  /\ stage' = "up" /\ identity' = enrolled
  /\ UNCHANGED <<vars, enrolled, queries, resetRestartPending, enrolls>>

\* ... and, enrolled, retire foreign tenants before any proxy can resolve.  On
\* failure the agent drops the table, so neither DNS nor the proxy has one.
StartRetire ==
  /\ stage = "opened"
  /\ \/ enrolled # None /\ Retire(enrolled)
     \/ enrolled = None /\ UNCHANGED vars
  /\ stage' = "up"
  /\ identity' = IF poisoned' THEN None ELSE enrolled
  /\ UNCHANGED <<enrolled, queries, resetRestartPending, enrolls>>

-----------------------------------------------------------------------------
(* DNS.                                                                    *)

\* answerDevice, answerFriendly: the identity is read under the server's lock.
QueryStart(d) ==
  /\ stage \in {"up", "persisted", "retired"}
  /\ identity # None /\ queries[d] = None
  /\ queries' = [queries EXCEPT ![d] = identity]
  /\ UNCHANGED <<vars, enrolled, stage, identity, resetRestartPending, enrolls>>

\* answerAllocated: the VIP, or NXDOMAIN on an error that changes nothing.
QueryAnswer(d) ==
  /\ queries[d] # None
  /\ Allocate(d, queries[d]) \/ UNCHANGED vars
  /\ queries' = [queries EXCEPT ![d] = None]
  /\ UNCHANGED <<enrolled, stage, identity, resetRestartPending, enrolls>>

-----------------------------------------------------------------------------
(* Provisioning.                                                           *)

\* Mutant: a reset agent can be enrolled again before it restarts.
EnrollPersist_AfterReset(t) ==
  /\ stage = "up" /\ enrolled = None /\ enrolls < MaxEnrolls
  /\ enrolls' = enrolls + 1
  /\ enrolled' = t
  /\ stage' = "persisted"
  /\ UNCHANGED <<vars, identity, queries, resetRestartPending>>

\* StartProvisioning: only an agent that is neither enrolled nor waiting for
\* the restart of a reset; the certificate is durable first.
EnrollPersist(t) ==
  /\ stage = "up" /\ enrolled = None /\ ~resetRestartPending
  /\ enrolls < MaxEnrolls
  /\ enrolls' = enrolls + 1
  /\ enrolled' = t
  /\ stage' = "persisted"
  /\ UNCHANGED <<vars, identity, queries, resetRestartPending>>

\* OnProvisioned: RetireTenant; a failure is logged.
EnrollRetire ==
  /\ stage = "persisted"
  /\ \/ open /\ Retire(enrolled)
     \/ (~open \/ poisoned) /\ UNCHANGED vars
  /\ stage' = "retired"
  /\ UNCHANGED <<enrolled, identity, queries, resetRestartPending, enrolls>>

\* ... then the DNS server, if there is a table.
SetMeshIdentity ==
  /\ stage = "retired"
  /\ identity' = IF open THEN enrolled ELSE None
  /\ stage' = "up"
  /\ UNCHANGED <<vars, enrolled, queries, resetRestartPending, enrolls>>

\* unprovision: it may win the gap before the callback, which then does
\* nothing.  DNS keeps its identity until the agent exits.
Unprovision ==
  /\ stage \in {"up", "persisted"} /\ enrolled # None
  /\ enrolled' = None /\ resetRestartPending' = TRUE
  /\ stage' = "up"
  /\ UNCHANGED <<vars, identity, queries, enrolls>>

\* The agent ends, or the device loses power.
Stop ==
  /\ Close \/ PowerLoss \/ (~open /\ UNCHANGED vars)
  /\ stage' = "down" /\ identity' = None /\ queries' = NoQueries
  /\ resetRestartPending' = FALSE
  /\ UNCHANGED <<enrolled, enrolls>>

NamesNext ==
  \/ Start \/ StartRetire \/ EnrollRetire \/ SetMeshIdentity \/ Unprovision
  \/ Stop
  \/ \E d \in Devices : QueryStart(d) \/ QueryAnswer(d)
  \/ \E t \in Tenants : EnrollPersist(t)

NamesSpec == NamesInit /\ [][NamesNext]_allVars

-----------------------------------------------------------------------------
(* Properties.                                                             *)

\* Once an enrolled agent serves names, every VIP its table resolves belongs
\* to the enrolled tenant, whatever a query that was in flight at a reset
\* still pins, wherever the agent dies between persisting an enrolment and
\* retiring the old tenant, and whichever write fails: "stop old VIPs
\* resolving under the new enrollment" (RetireTenant), "Retire every VIP slot
\* outside the new tenant" (main.go).
NoForeignPin ==
  stage \in {"up", "retired"} /\ enrolled # None /\ Usable =>
    \A d \in Devices : entries[d] # None => entries[d].tenant = enrolled

\* The agent's use of the table stays within the table's own specification,
\* so what is proved of the table holds of the agent.
TableSpec == Spec
=============================================================================
