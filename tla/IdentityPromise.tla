-------------------------- MODULE IdentityPromise --------------------------
(***************************************************************************)
(* What ErpIdentityResolver promises its callers, without a cache: a       *)
(* request that asks at one instant is later told a level of access which  *)
(* the ERP granted less than a TTL before it asked, or later; it is denied *)
(* only if the ERP had the person inactive since; or it is told nothing    *)
(* (core/rbac/erp_identity.py:5-16, core/rbac/resolution.py:25-33).        *)
(***************************************************************************)
EXTENDS Integers

CONSTANTS
  Requests,   \* who asks
  Persons,
  Ttl         \* RBAC_CACHE_TTL_SECONDS

ASSUME TtlAssumption == Ttl \in Nat \ {0}

VARIABLES
  clock,
  active,         \* ERP: the person row and its account are active
  privileged,     \* ERP: the account is in the HR or the Management group
  activatedAt,    \* history: when each person last became active ...
  deactivatedAt,  \* ... stopped being active ...
  revokedAt,      \* ... and stopped being privileged
  pending,        \* requests that have asked and not been told
  who,            \* the person asked about
  since,          \* when it was asked
  told            \* the answer

erp == <<active, privileged, activatedAt, deactivatedAt, revokedAt>>
asking == <<pending, who, since, told>>
promiseVars == <<clock, erp, asking>>

Never == -Ttl
Levels == {"unrestricted", "self"}
Answers == Levels \cup {"none", "denied", "error"}

PromiseTypeOK ==
  /\ clock \in Nat
  /\ active \in [Persons -> BOOLEAN]
  /\ privileged \in [Persons -> BOOLEAN]
  /\ activatedAt \in [Persons -> Nat \cup {Never}]
  /\ deactivatedAt \in [Persons -> Nat \cup {Never}]
  /\ revokedAt \in [Persons -> Nat \cup {Never}]
  /\ pending \in [Requests -> BOOLEAN]
  /\ who \in [Requests -> Persons]
  /\ since \in [Requests -> Nat]
  /\ told \in [Requests -> Answers]

PromiseInit ==
  /\ clock = 0
  /\ active \in [Persons -> BOOLEAN]
  /\ privileged \in [Persons -> BOOLEAN]
  /\ activatedAt = [p \in Persons |-> Never]
  /\ deactivatedAt = [p \in Persons |-> Never]
  /\ revokedAt = [p \in Persons |-> Never]
  /\ pending = [r \in Requests |-> FALSE]
  /\ who \in [Requests -> Persons]
  /\ since = [r \in Requests |-> 0]
  /\ told = [r \in Requests |-> "none"]

Pass == clock' = clock + 1 /\ UNCHANGED <<erp, asking>>

SetActive(p, b) ==
  /\ active[p] # b
  /\ active' = [active EXCEPT ![p] = b]
  /\ IF b THEN /\ activatedAt' = [activatedAt EXCEPT ![p] = clock]
               /\ UNCHANGED deactivatedAt
          ELSE /\ deactivatedAt' = [deactivatedAt EXCEPT ![p] = clock]
               /\ UNCHANGED activatedAt
  /\ UNCHANGED <<clock, privileged, revokedAt, asking>>

SetPrivileged(p, b) ==
  /\ privileged[p] # b
  /\ privileged' = [privileged EXCEPT ![p] = b]
  /\ revokedAt' = IF b THEN revokedAt ELSE [revokedAt EXCEPT ![p] = clock]
  /\ UNCHANGED <<clock, active, activatedAt, deactivatedAt, asking>>

Ask(r, p) ==
  /\ ~pending[r]
  /\ pending' = [pending EXCEPT ![r] = TRUE]
  /\ who' = [who EXCEPT ![r] = p]
  /\ since' = [since EXCEPT ![r] = clock]
  /\ told' = [told EXCEPT ![r] = "none"]
  /\ UNCHANGED <<clock, erp>>

\* What a request that asked at an instant about p may be told now.
MayBeTold(p, at, answer) ==
  /\ answer = "unrestricted" => privileged[p] \/ at - revokedAt[p] < Ttl
  /\ answer \in Levels => active[p] \/ at - deactivatedAt[p] < Ttl
  /\ answer = "denied" => ~active[p] \/ activatedAt[p] >= at

Tell(r, answer) ==
  /\ pending[r]
  /\ MayBeTold(who[r], since[r], answer)
  /\ pending' = [pending EXCEPT ![r] = FALSE]
  /\ told' = [told EXCEPT ![r] = answer]
  /\ UNCHANGED <<clock, erp, who, since>>

ErpStep == \E p \in Persons, b \in BOOLEAN : SetActive(p, b) \/ SetPrivileged(p, b)

PromiseNext ==
  \/ Pass
  \/ ErpStep
  \/ \E r \in Requests :
       \/ \E p \in Persons : Ask(r, p)
       \/ \E answer \in Answers \ {"none"} : Tell(r, answer)

PromiseSpec == PromiseInit /\ [][PromiseNext]_promiseVars
============================================================================
