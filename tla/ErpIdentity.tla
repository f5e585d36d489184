---------------------------- MODULE ErpIdentity ----------------------------
(***************************************************************************)
(* Identity resolution: ErpIdentityResolver.by_person_id and its TTL cache *)
(* (core/rbac/erp_identity.py), one resolver per process shared by all     *)
(* threads without a lock (core/rbac/resolution.py), and the access level  *)
(* drawn from the identity (core/rbac/access.py).  The ERP changes at any  *)
(* time, also between the two statements of one fetch.                     *)
(***************************************************************************)
EXTENDS Integers

CONSTANTS
  Threads,      \* threads that resolve contexts
  Persons,      \* person ids with a person row
  Groups,       \* auth_group ids
  HrGroup,      \* HR_GROUP_ID
  MgmtGroup,    \* MANAGEMENT_GROUP_ID
  None,         \* Python's None: no cache entry, no identity
  Ttl,          \* RBAC_CACHE_TTL_SECONDS
  MaxTime,      \* bound of the model: the last instant
  MaxChanges    \* bound of the model: changes of the ERP

ASSUME NumbersAssumption == Ttl \in Nat \ {0} /\ MaxTime \in Nat /\ MaxChanges \in Nat
ASSUME GroupsAssumption == {HrGroup, MgmtGroup} \subseteq Groups

VARIABLES
  clock,          \* time.monotonic()
  active,         \* ERP: person.is_active and auth_user.is_active
  groups,         \* ERP: auth_user_groups
  activatedAt,    \* history: when each person last became active ...
  deactivatedAt,  \* ... stopped being active ...
  revokedAt,      \* ... and stopped being in both privileged groups
  changes,
  cache,          \* ErpIdentityResolver._cache: person_id -> (at, identity)
  phase,          \* where each thread is in by_person_id
  who,            \* the person it resolves
  now,            \* its local `now`
  found,          \* the group ids its fetch read
  result          \* what resolve_context gave it

erpVars == <<active, groups, activatedAt, deactivatedAt, revokedAt, changes>>
threadVars == <<phase, who, now, found, result>>
vars == <<clock, erpVars, cache, threadVars>>

Never == -Ttl   \* before every window
Entry == [at : Nat, groups : SUBSET Groups]
Results == {"none", "unrestricted", "self", "denied", "error"}

ASSUME NoneAssumption == None \notin Entry /\ \A gs \in SUBSET Groups : gs # None

TypeOK ==
  /\ clock \in Nat
  /\ active \in [Persons -> BOOLEAN]
  /\ groups \in [Persons -> SUBSET Groups]
  /\ activatedAt \in [Persons -> Nat \cup {Never}]
  /\ deactivatedAt \in [Persons -> Nat \cup {Never}]
  /\ revokedAt \in [Persons -> Nat \cup {Never}]
  /\ changes \in Nat
  /\ cache \in [Persons -> Entry \cup {None}]
  /\ phase \in [Threads -> {"idle", "stamped", "fetching", "active", "read", "absent"}]
  /\ who \in [Threads -> Persons]
  /\ now \in [Threads -> Nat]
  /\ found \in [Threads -> SUBSET Groups]
  /\ result \in [Threads -> Results]

Privileged(gs) == HrGroup \in gs \/ MgmtGroup \in gs
\* resolve_access_level.
Level(gs) == IF Privileged(gs) THEN "unrestricted" ELSE "self"
\* resolve_context: no identity, no context.
Context(gs) == IF gs = None THEN "denied" ELSE Level(gs)

Init ==
  /\ clock = 0
  /\ active \in [Persons -> BOOLEAN]
  /\ groups \in [Persons -> SUBSET Groups]
  /\ activatedAt = [p \in Persons |-> Never]
  /\ deactivatedAt = [p \in Persons |-> Never]
  /\ revokedAt = [p \in Persons |-> Never]
  /\ changes = 0
  /\ cache = [p \in Persons |-> None]
  /\ phase = [t \in Threads |-> "idle"]
  /\ who \in [Threads -> Persons]
  /\ now = [t \in Threads |-> 0]
  /\ found = [t \in Threads |-> {}]
  /\ result = [t \in Threads |-> "none"]

----------------------------------------------------------------------------
(* Time and the ERP.                                                       *)

Tick ==
  /\ clock < MaxTime
  /\ clock' = clock + 1
  /\ UNCHANGED <<erpVars, cache, threadVars>>

Change == changes < MaxChanges /\ changes' = changes + 1

Activate(p) ==
  /\ Change
  /\ ~active[p]
  /\ active' = [active EXCEPT ![p] = TRUE]
  /\ activatedAt' = [activatedAt EXCEPT ![p] = clock]
  /\ UNCHANGED <<clock, groups, deactivatedAt, revokedAt, cache, threadVars>>

Deactivate(p) ==
  /\ Change
  /\ active[p]
  /\ active' = [active EXCEPT ![p] = FALSE]
  /\ deactivatedAt' = [deactivatedAt EXCEPT ![p] = clock]
  /\ UNCHANGED <<clock, groups, activatedAt, revokedAt, cache, threadVars>>

SetGroups(p, gs) ==
  /\ Change
  /\ gs # groups[p]
  /\ groups' = [groups EXCEPT ![p] = gs]
  /\ revokedAt' = IF Privileged(groups[p]) /\ ~Privileged(gs)
                  THEN [revokedAt EXCEPT ![p] = clock] ELSE revokedAt
  /\ UNCHANGED <<clock, active, activatedAt, deactivatedAt, cache, threadVars>>

----------------------------------------------------------------------------
(* by_person_id.                                                           *)

Enter(t, next) == phase' = [phase EXCEPT ![t] = next]
Return(t, r) == Enter(t, "idle") /\ result' = [result EXCEPT ![t] = r]

\* now = self._clock(), before the cache is looked at.
Begin(t, p) ==
  /\ phase[t] = "idle"
  /\ who' = [who EXCEPT ![t] = p]
  /\ now' = [now EXCEPT ![t] = clock]
  /\ result' = [result EXCEPT ![t] = "none"]
  /\ Enter(t, "stamped")
  /\ UNCHANGED <<clock, erpVars, cache, found>>

ValidInclusive(t) ==
  /\ cache[who[t]] # None
  /\ now[t] - cache[who[t]].at <= Ttl

Valid(t) ==
  /\ cache[who[t]] # None
  /\ now[t] - cache[who[t]].at < Ttl

Hit(t) ==
  /\ phase[t] = "stamped"
  /\ Valid(t)
  /\ Return(t, Context(cache[who[t]].groups))
  /\ UNCHANGED <<clock, erpVars, cache, who, now, found>>

Miss(t) ==
  /\ phase[t] = "stamped"
  /\ ~Valid(t)
  /\ Enter(t, "fetching")
  /\ UNCHANGED <<clock, erpVars, cache, who, now, found, result>>

\* The first statement of _fetch: both rows must be active.
ReadIdentity(t) ==
  /\ phase[t] = "fetching"
  /\ Enter(t, IF active[who[t]] THEN "active" ELSE "absent")
  /\ UNCHANGED <<clock, erpVars, cache, who, now, found, result>>

\* The second statement.
ReadGroups(t) ==
  /\ phase[t] = "active"
  /\ found' = [found EXCEPT ![t] = groups[who[t]]]
  /\ Enter(t, "read")
  /\ UNCHANGED <<clock, erpVars, cache, who, now, result>>

StoreTimeAfterFetch(t) == clock
StoreTimeExpired(t) == now[t] - Ttl
\* The entry is dated from before the fetch.
StoreTime(t) == now[t]

Store(t) ==
  /\ phase[t] = "read"
  /\ cache' = [cache EXCEPT ![who[t]] = [at |-> StoreTime(t), groups |-> found[t]]]
  /\ Return(t, Context(found[t]))
  /\ UNCHANGED <<clock, erpVars, who, now, found>>

\* A negative result drops the entry and is not cached.
DenyAndRemember(t) ==
  /\ phase[t] = "absent"
  /\ cache' = [cache EXCEPT ![who[t]] = [at |-> now[t], groups |-> None]]
  /\ Return(t, Context(None))
  /\ UNCHANGED <<clock, erpVars, who, now, found>>

Deny(t) ==
  /\ phase[t] = "absent"
  /\ cache' = [cache EXCEPT ![who[t]] = None]
  /\ Return(t, Context(None))
  /\ UNCHANGED <<clock, erpVars, who, now, found>>

StaleOnFailure(t) ==
  IF cache[who[t]] = None THEN "error" ELSE Context(cache[who[t]].groups)
\* The exception propagates: the caller denies, whatever the cache holds.
OnFailure(t) == "error"

FetchFails(t) ==
  /\ phase[t] \in {"fetching", "active"}
  /\ Return(t, OnFailure(t))
  /\ UNCHANGED <<clock, erpVars, cache, who, now, found>>

Next ==
  \/ Tick
  \/ \E p \in Persons :
       \/ Activate(p) \/ Deactivate(p)
       \/ \E gs \in SUBSET Groups : SetGroups(p, gs)
  \/ \E t \in Threads :
       \/ \E p \in Persons : Begin(t, p)
       \/ Hit(t) \/ Miss(t) \/ ReadIdentity(t) \/ ReadGroups(t)
       \/ Store(t) \/ Deny(t) \/ FetchFails(t)

Spec == Init /\ [][Next]_vars

----------------------------------------------------------------------------
(* Properties.                                                             *)

\* The TTL "bounds how long a revoked group membership keeps working"
\* (core/rbac/erp_identity.py:5): a lookup that yields unrestricted access
\* began less than the TTL after the person was last in a privileged group,
\* however slow its fetch was and whatever other threads stored meanwhile.
RevocationBound ==
  \A t \in Threads : result[t] = "unrestricted" =>
    \/ Privileged(groups[who[t]])
    \/ now[t] - revokedAt[who[t]] < Ttl

\* The same bound for a deactivated person or account: "a stale cache entry is
\* NEVER served" in place of a failed read (core/rbac/erp_identity.py:11).
DeactivationBound ==
  \A t \in Threads : result[t] \in {"unrestricted", "self"} =>
    \/ active[who[t]]
    \/ now[t] - deactivatedAt[who[t]] < Ttl

\* "provisioning takes effect at once" (core/rbac/erp_identity.py:14): a lookup
\* that begins after a person became active, and stays so, is not denied.
ProvisioningAtOnce ==
  \A t \in Threads : result[t] = "denied" =>
    \/ ~active[who[t]]
    \/ activatedAt[who[t]] >= now[t]

\* The resolver with its cache keeps the promise of one without: every step is a
\* change of the ERP, a request that asks or is told, or none of the caller's business.
Promise == INSTANCE IdentityPromise WITH
  Requests <- Threads,
  privileged <- [p \in Persons |-> Privileged(groups[p])],
  pending <- [t \in Threads |-> phase[t] # "idle"],
  since <- now,
  told <- result
PromiseKept == Promise!PromiseSpec
============================================================================
