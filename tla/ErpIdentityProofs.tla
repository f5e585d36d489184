------------------------- MODULE ErpIdentityProofs -------------------------
(* Proofs about ErpIdentity for every TTL and every number of threads,       *)
(* persons and groups.                                                       *)
EXTENDS ErpIdentity, TLAPS

----------------------------------------------------------------------------
(* The inductive invariant: whatever was read was true in the ERP at or      *)
(* after the instant it is dated from.                                       *)

PrivilegedSince(p, at) == Privileged(groups[p]) \/ at <= revokedAt[p]
ActiveSince(p, at) == active[p] \/ at <= deactivatedAt[p]

CacheInv ==
  \A p \in Persons : cache[p] # None =>
    /\ cache[p].at <= clock
    /\ ActiveSince(p, cache[p].at)
    /\ Privileged(cache[p].groups) => PrivilegedSince(p, cache[p].at)

FetchInv ==
  \A t \in Threads :
    /\ now[t] <= clock
    /\ phase[t] \in {"active", "read"} => ActiveSince(who[t], now[t])
    /\ phase[t] = "read" /\ Privileged(found[t]) => PrivilegedSince(who[t], now[t])
    /\ phase[t] = "absent" => ~active[who[t]] \/ activatedAt[who[t]] >= now[t]
    /\ phase[t] # "idle" => result[t] = "none"

IInv == /\ TypeOK /\ CacheInv /\ FetchInv
        /\ RevocationBound /\ DeactivationBound /\ ProvisioningAtOnce

----------------------------------------------------------------------------
LEMMA ContextOfGroups ==
  ASSUME NEW gs \in SUBSET Groups
  PROVE  /\ Context(gs) \in {"unrestricted", "self"}
         /\ Context(gs) = "unrestricted" <=> Privileged(gs)
BY NoneAssumption DEF Context, Level

LEMMA TypedTimes ==
  ASSUME TypeOK, NEW p \in Persons
  PROVE  /\ activatedAt[p] \in Int /\ deactivatedAt[p] \in Int /\ revokedAt[p] \in Int
         /\ clock \in Nat /\ Ttl \in Nat /\ Ttl > 0
BY NumbersAssumption DEF TypeOK, Never

LEMMA TypedEntry ==
  ASSUME TypeOK, NEW p \in Persons, cache[p] # None
  PROVE  cache[p].at \in Nat /\ cache[p].groups \in SUBSET Groups
BY DEF TypeOK, Entry

LEMMA InitIInv == Init => IInv
BY NumbersAssumption, NoneAssumption
   DEF Init, IInv, TypeOK, CacheInv, FetchInv, RevocationBound, DeactivationBound,
       ProvisioningAtOnce, Results

LEMMA TypeStep == TypeOK /\ [Next]_vars => TypeOK'
<1> SUFFICES ASSUME TypeOK, [Next]_vars PROVE TypeOK'
  OBVIOUS
<1> USE DEF TypeOK, Enter, Return, Change, erpVars, threadVars, Results
<1>1. CASE Tick
  BY <1>1 DEF Tick
<1>2. ASSUME NEW p \in Persons, Activate(p) PROVE TypeOK'
  BY <1>2 DEF Activate
<1>3. ASSUME NEW p \in Persons, Deactivate(p) PROVE TypeOK'
  BY <1>3 DEF Deactivate
<1>4. ASSUME NEW p \in Persons, NEW gs \in SUBSET Groups, SetGroups(p, gs) PROVE TypeOK'
  BY <1>4 DEF SetGroups
<1>5. ASSUME NEW t \in Threads, NEW p \in Persons, Begin(t, p) PROVE TypeOK'
  BY <1>5 DEF Begin
<1>6. ASSUME NEW t \in Threads, Hit(t) PROVE TypeOK'
  <2>1. Context(cache[who[t]].groups) \in Results
    BY <1>6, TypedEntry, ContextOfGroups DEF Hit, Valid
  <2> QED
    BY <1>6, <2>1 DEF Hit
<1>7. ASSUME NEW t \in Threads, Miss(t) \/ ReadIdentity(t) PROVE TypeOK'
  BY <1>7 DEF Miss, ReadIdentity
<1>8. ASSUME NEW t \in Threads, ReadGroups(t) PROVE TypeOK'
  BY <1>8 DEF ReadGroups
<1>9. ASSUME NEW t \in Threads, Store(t) PROVE TypeOK'
  <2>1. Context(found[t]) \in Results
    BY ContextOfGroups
  <2>2. [at |-> StoreTime(t), groups |-> found[t]] \in Entry
    BY DEF StoreTime, Entry
  <2> QED
    BY <1>9, <2>1, <2>2 DEF Store
<1>10. ASSUME NEW t \in Threads, Deny(t) PROVE TypeOK'
  BY <1>10 DEF Deny, Context
<1>11. ASSUME NEW t \in Threads, FetchFails(t) PROVE TypeOK'
  BY <1>11 DEF FetchFails, OnFailure
<1>12. CASE UNCHANGED vars
  BY <1>12 DEF vars
<1> QED
  BY <1>1, <1>2, <1>3, <1>4, <1>5, <1>6, <1>7, <1>8, <1>9, <1>10, <1>11, <1>12 DEF Next

----------------------------------------------------------------------------
(* Time and the ERP preserve what is known since an instant that has passed. *)

LEMMA SinceStep ==
  ASSUME TypeOK, [Next]_vars, NEW p \in Persons, NEW at \in Int, at <= clock
  PROVE  /\ clock <= clock'
         /\ PrivilegedSince(p, at) => PrivilegedSince(p, at)'
         /\ ActiveSince(p, at) => ActiveSince(p, at)'
         /\ ~active[p] \/ activatedAt[p] >= at => (~active[p] \/ activatedAt[p] >= at)'
<1> USE DEF PrivilegedSince, ActiveSince
<1>1. CASE UNCHANGED <<clock, erpVars>>
  BY <1>1, TypedTimes DEF erpVars, Privileged
<1>2. CASE Tick
  BY <1>2, TypedTimes DEF Tick, erpVars, Privileged
<1>3. ASSUME NEW q \in Persons, Activate(q)
      PROVE  /\ clock' = clock /\ groups' = groups /\ revokedAt' = revokedAt
             /\ active[p] => active'[p]
             /\ active'[p] /\ ~active[p] => activatedAt'[p] = clock
             /\ active[p] => activatedAt'[p] = activatedAt[p]
             /\ deactivatedAt' = deactivatedAt
  BY <1>3 DEF Activate, TypeOK
<1>4. ASSUME NEW q \in Persons, Deactivate(q)
      PROVE  /\ clock' = clock /\ groups' = groups /\ revokedAt' = revokedAt
             /\ active'[p] => active[p]
             /\ active[p] /\ ~active'[p] => deactivatedAt'[p] = clock
             /\ ~active[p] => deactivatedAt'[p] = deactivatedAt[p]
             /\ activatedAt' = activatedAt
  BY <1>4 DEF Deactivate, TypeOK
<1>5. ASSUME NEW q \in Persons, NEW gs \in SUBSET Groups, SetGroups(q, gs)
      PROVE  /\ clock' = clock /\ active' = active
             /\ activatedAt' = activatedAt /\ deactivatedAt' = deactivatedAt
             /\ ~Privileged(groups[p]) => revokedAt'[p] = revokedAt[p]
             /\ Privileged(groups[p]) => \/ Privileged(groups'[p])
                                         \/ revokedAt'[p] = clock
  <2>1. CASE q = p
    BY <1>5, <2>1 DEF SetGroups, TypeOK
  <2>2. CASE q # p
    BY <1>5, <2>2 DEF SetGroups, TypeOK
  <2> QED
    BY <2>1, <2>2
<1>6. ASSUME NEW t \in Threads,
             \/ \E q \in Persons : Begin(t, q)
             \/ Hit(t) \/ Miss(t) \/ ReadIdentity(t) \/ ReadGroups(t)
             \/ Store(t) \/ Deny(t) \/ FetchFails(t)
      PROVE  UNCHANGED <<clock, erpVars>>
  BY <1>6 DEF Begin, Hit, Miss, ReadIdentity, ReadGroups, Store, Deny, FetchFails
<1>7. CASE UNCHANGED vars
  BY <1>1, <1>7 DEF vars
<1>8. ASSUME NEW q \in Persons, Activate(q)
      PROVE  /\ clock <= clock'
             /\ PrivilegedSince(p, at) => PrivilegedSince(p, at)'
             /\ ActiveSince(p, at) => ActiveSince(p, at)'
             /\ ~active[p] \/ activatedAt[p] >= at => (~active[p] \/ activatedAt[p] >= at)'
  BY <1>3, <1>8, TypedTimes DEF Privileged
<1>9. ASSUME NEW q \in Persons, Deactivate(q)
      PROVE  /\ clock <= clock'
             /\ PrivilegedSince(p, at) => PrivilegedSince(p, at)'
             /\ ActiveSince(p, at) => ActiveSince(p, at)'
             /\ ~active[p] \/ activatedAt[p] >= at => (~active[p] \/ activatedAt[p] >= at)'
  BY <1>4, <1>9, TypedTimes DEF Privileged
<1>10. ASSUME NEW q \in Persons, NEW gs \in SUBSET Groups, SetGroups(q, gs)
      PROVE  /\ clock <= clock'
             /\ PrivilegedSince(p, at) => PrivilegedSince(p, at)'
             /\ ActiveSince(p, at) => ActiveSince(p, at)'
             /\ ~active[p] \/ activatedAt[p] >= at => (~active[p] \/ activatedAt[p] >= at)'
  BY <1>5, <1>10, TypedTimes DEF Privileged
<1> QED
  BY <1>1, <1>2, <1>6, <1>7, <1>8, <1>9, <1>10 DEF Next

----------------------------------------------------------------------------
(* A step changes one thread's lookup at most, and Store and Deny the cache. *)

Step(t) ==
  \/ \E p \in Persons : Begin(t, p)
  \/ Hit(t) \/ Miss(t) \/ ReadIdentity(t) \/ ReadGroups(t)
  \/ Store(t) \/ Deny(t) \/ FetchFails(t)

LEMMA OthersRest ==
  ASSUME TypeOK, [Next]_vars, NEW u \in Threads, ~Step(u)
  PROVE  /\ phase'[u] = phase[u] /\ who'[u] = who[u] /\ now'[u] = now[u]
         /\ found'[u] = found[u] /\ result'[u] = result[u]
<1>1. CASE UNCHANGED threadVars
  BY <1>1 DEF threadVars
<1>2. ASSUME NEW t \in Threads, Step(t)
      PROVE  /\ phase'[u] = phase[u] /\ who'[u] = who[u] /\ now'[u] = now[u]
             /\ found'[u] = found[u] /\ result'[u] = result[u]
  <2>1. t # u
    BY <1>2
  <2> QED
    BY <1>2, <2>1 DEF Step, Begin, Hit, Miss, ReadIdentity, ReadGroups, Store, Deny,
       FetchFails, Enter, Return, TypeOK
<1>3. ASSUME Tick \/ \E p \in Persons : \/ Activate(p) \/ Deactivate(p)
                                       \/ \E gs \in SUBSET Groups : SetGroups(p, gs)
      PROVE UNCHANGED threadVars
  BY <1>3 DEF Tick, Activate, Deactivate, SetGroups
<1> QED
  BY <1>1, <1>2, <1>3 DEF Next, vars, Step

LEMMA CacheRests ==
  ASSUME [Next]_vars, \A t \in Threads : ~Store(t) /\ ~Deny(t)
  PROVE  cache' = cache
BY DEF Next, vars, Tick, Activate, Deactivate, SetGroups, Begin, Hit, Miss, ReadIdentity,
       ReadGroups, FetchFails

LEMMA CacheStep == IInv /\ [Next]_vars => CacheInv'
<1> SUFFICES ASSUME IInv, [Next]_vars, NEW p \in Persons, cache'[p] # None
             PROVE  /\ cache'[p].at <= clock'
                    /\ ActiveSince(p, cache[p].at)'
                    /\ Privileged(cache'[p].groups) => PrivilegedSince(p, cache[p].at)'
  BY DEF CacheInv
<1>1. CASE cache'[p] = cache[p]
  <2>1. /\ cache[p].at \in Int /\ cache[p].at <= clock /\ ActiveSince(p, cache[p].at)
        /\ Privileged(cache[p].groups) => PrivilegedSince(p, cache[p].at)
    BY <1>1, TypedEntry DEF IInv, CacheInv
  <2>2. clock' \in Int /\ clock \in Int
    BY TypeStep DEF IInv, TypeOK
  <2>3. /\ clock <= clock'
        /\ \A a \in Int : a <= clock =>
             /\ PrivilegedSince(p, a) => PrivilegedSince(p, a)'
             /\ ActiveSince(p, a) => ActiveSince(p, a)'
    BY <2>1, SinceStep DEF IInv
  <2>4. /\ cache'[p].at = cache[p].at /\ cache'[p].groups = cache[p].groups
    BY <1>1
  <2>5. cache'[p].at <= clock'
    BY <2>1, <2>2, <2>3, <2>4
  <2> QED
    BY <2>1, <2>3, <2>4, <2>5 DEF PrivilegedSince, ActiveSince, Privileged
<1>2. ASSUME NEW t \in Threads, Store(t), who[t] = p
      PROVE  /\ cache'[p].at <= clock'
             /\ ActiveSince(p, cache[p].at)'
             /\ Privileged(cache'[p].groups) => PrivilegedSince(p, cache[p].at)'
  <2>1. cache'[p] = [at |-> now[t], groups |-> found[t]]
    BY <1>2 DEF Store, StoreTime, IInv, TypeOK
  <2>2. phase[t] = "read" /\ UNCHANGED <<clock, active, groups, deactivatedAt, revokedAt>>
    BY <1>2 DEF Store, erpVars
  <2> QED
    BY <1>2, <2>1, <2>2 DEF IInv, FetchInv, ActiveSince, PrivilegedSince, Privileged
<1>3. ASSUME NEW t \in Threads, Store(t) \/ Deny(t), who[t] # p PROVE cache'[p] = cache[p]
  BY <1>3 DEF Store, Deny, IInv, TypeOK
<1>4. ASSUME NEW t \in Threads, Deny(t), who[t] = p PROVE FALSE
  BY <1>4 DEF Deny, IInv, TypeOK
<1> QED
  BY <1>1, <1>2, <1>3, <1>4, CacheRests

----------------------------------------------------------------------------
(* What is known of one thread's lookup.                                     *)

Lookup(t) ==
  /\ now[t] <= clock
  /\ phase[t] \in {"active", "read"} => ActiveSince(who[t], now[t])
  /\ phase[t] = "read" /\ Privileged(found[t]) => PrivilegedSince(who[t], now[t])
  /\ phase[t] = "absent" => ~active[who[t]] \/ activatedAt[who[t]] >= now[t]
  /\ phase[t] # "idle" => result[t] = "none"

Answered(t) ==
  /\ result[t] = "unrestricted" => PrivilegedSince(who[t], now[t] - Ttl + 1)
  /\ result[t] \in {"unrestricted", "self"} => ActiveSince(who[t], now[t] - Ttl + 1)
  /\ result[t] = "denied" => ~active[who[t]] \/ activatedAt[who[t]] >= now[t]

LEMMA PerThread ==
  ASSUME TypeOK
  PROVE  /\ FetchInv <=> \A t \in Threads : Lookup(t)
         /\ RevocationBound /\ DeactivationBound /\ ProvisioningAtOnce
              <=> \A t \in Threads : Answered(t)
<1>1. FetchInv <=> \A t \in Threads : Lookup(t)
  BY DEF FetchInv, Lookup
<1>3. ASSUME NEW t \in Threads
      PROVE  /\ now[t] - revokedAt[who[t]] < Ttl
                  <=> now[t] - Ttl + 1 <= revokedAt[who[t]]
             /\ now[t] - deactivatedAt[who[t]] < Ttl
                  <=> now[t] - Ttl + 1 <= deactivatedAt[who[t]]
  <2>1. who[t] \in Persons /\ now[t] \in Int
    BY DEF TypeOK
  <2>2. revokedAt[who[t]] \in Int /\ deactivatedAt[who[t]] \in Int /\ Ttl \in Int
    BY <2>1, TypedTimes
  <2> QED
    BY <2>1, <2>2
<1>4. /\ RevocationBound <=> \A t \in Threads :
           result[t] = "unrestricted" => PrivilegedSince(who[t], now[t] - Ttl + 1)
      /\ DeactivationBound <=> \A t \in Threads :
           result[t] \in {"unrestricted", "self"} => ActiveSince(who[t], now[t] - Ttl + 1)
  BY <1>3 DEF RevocationBound, DeactivationBound, PrivilegedSince, ActiveSince
<1> QED
  BY <1>1, <1>4 DEF ProvisioningAtOnce, Answered

LEMMA RestingThread ==
  ASSUME TypeOK, [Next]_vars, NEW t \in Threads, ~Step(t), Lookup(t), Answered(t)
  PROVE  Lookup(t)' /\ Answered(t)'
<1>1. /\ phase'[t] = phase[t] /\ who'[t] = who[t] /\ now'[t] = now[t]
      /\ found'[t] = found[t] /\ result'[t] = result[t]
  BY OthersRest
<1>2. /\ who[t] \in Persons /\ now[t] \in Int /\ now[t] - Ttl + 1 \in Int
      /\ now[t] - Ttl + 1 <= now[t] /\ now[t] <= clock /\ clock \in Int /\ clock' \in Int
  BY NumbersAssumption, TypeStep DEF TypeOK, Lookup
<1>3. now[t] - Ttl + 1 <= clock
  BY <1>2, NumbersAssumption
<1>4. clock <= clock'
  BY <1>2, SinceStep
<1>5. /\ PrivilegedSince(who[t], now[t]) => PrivilegedSince(who[t], now[t])'
      /\ ActiveSince(who[t], now[t]) => ActiveSince(who[t], now[t])'
      /\ ~active[who[t]] \/ activatedAt[who[t]] >= now[t] =>
           (~active[who[t]] \/ activatedAt[who[t]] >= now[t])'
  <2> DEFINE at == now[t]
  <2>1. \A p \in Persons, a \in Int : a <= clock =>
          /\ PrivilegedSince(p, a) => PrivilegedSince(p, a)'
          /\ ActiveSince(p, a) => ActiveSince(p, a)'
          /\ ~active[p] \/ activatedAt[p] >= a => (~active[p] \/ activatedAt[p] >= a)'
    BY SinceStep
  <2> QED
    BY <1>1, <1>2, <2>1 DEF PrivilegedSince, ActiveSince
<1>6. /\ PrivilegedSince(who[t], now[t] - Ttl + 1) => PrivilegedSince(who[t], now[t] - Ttl + 1)'
      /\ ActiveSince(who[t], now[t] - Ttl + 1) => ActiveSince(who[t], now[t] - Ttl + 1)'
  <2>1. \A p \in Persons, a \in Int : a <= clock =>
          /\ PrivilegedSince(p, a) => PrivilegedSince(p, a)'
          /\ ActiveSince(p, a) => ActiveSince(p, a)'
    BY SinceStep
  <2> QED
    BY <1>1, <1>2, <1>3, <2>1 DEF PrivilegedSince, ActiveSince
<1>7. Lookup(t)'
  BY <1>1, <1>2, <1>4, <1>5 DEF Lookup
<1>8. Answered(t)'
  BY <1>1, <1>5, <1>6 DEF Answered
<1> QED
  BY <1>7, <1>8

LEMMA SteppingThread ==
  ASSUME IInv, NEW t \in Threads, Step(t)
  PROVE  Lookup(t)' /\ Answered(t)'
<1>1. Lookup(t) /\ Answered(t) /\ TypeOK /\ CacheInv
  BY PerThread DEF IInv
<1>2. who[t] \in Persons /\ now[t] \in Nat /\ clock \in Nat /\ Ttl \in Nat /\ Ttl > 0
  BY <1>1, NumbersAssumption DEF TypeOK
<1>3. \A at \in Int :
        /\ at >= now[t] /\ ActiveSince(who[t], at) => ActiveSince(who[t], now[t])
        /\ at >= now[t] - Ttl + 1 /\ ActiveSince(who[t], at)
             => ActiveSince(who[t], now[t] - Ttl + 1)
        /\ at >= now[t] - Ttl + 1 /\ PrivilegedSince(who[t], at)
             => PrivilegedSince(who[t], now[t] - Ttl + 1)
  BY <1>1, <1>2, TypedTimes DEF ActiveSince, PrivilegedSince
<1>4. ASSUME NEW p \in Persons, Begin(t, p) PROVE Lookup(t)' /\ Answered(t)'
  <2>1. /\ now'[t] = clock /\ clock' = clock /\ result'[t] = "none"
        /\ phase'[t] = "stamped"
    BY <1>1, <1>4 DEF Begin, Enter, TypeOK
  <2> QED
    BY <1>2, <2>1 DEF Lookup, Answered
<1>5. ASSUME Hit(t) PROVE Lookup(t)' /\ Answered(t)'
  <2> DEFINE e == cache[who[t]]
  <2>1. /\ e.at \in Nat /\ e.groups \in SUBSET Groups /\ now[t] - e.at < Ttl
        /\ ActiveSince(who[t], e.at)
        /\ Privileged(e.groups) => PrivilegedSince(who[t], e.at)
    BY <1>1, <1>2, <1>5, TypedEntry DEF Hit, Valid, CacheInv
  <2>2. e.at >= now[t] - Ttl + 1
    BY <1>2, <2>1
  <2>3. /\ ActiveSince(who[t], now[t] - Ttl + 1)
        /\ Privileged(e.groups) => PrivilegedSince(who[t], now[t] - Ttl + 1)
    BY <1>3, <2>1, <2>2
  <2>4. /\ result'[t] = Context(e.groups) /\ phase'[t] = "idle"
        /\ UNCHANGED <<clock, active, groups, activatedAt, deactivatedAt, revokedAt, who, now>>
    BY <1>1, <1>5 DEF Hit, Return, Enter, erpVars, TypeOK
  <2>5. /\ result'[t] \in {"unrestricted", "self"}
        /\ result'[t] = "unrestricted" <=> Privileged(e.groups)
    BY <2>1, <2>4, ContextOfGroups
  <2> QED
    BY <1>1, <2>3, <2>4, <2>5 DEF Lookup, Answered, ActiveSince, PrivilegedSince
<1>6. ASSUME Miss(t) PROVE Lookup(t)' /\ Answered(t)'
  <2>1. /\ phase'[t] = "fetching" /\ phase[t] # "idle"
        /\ UNCHANGED <<clock, who, now, result>>
    BY <1>1, <1>6 DEF Miss, Enter, TypeOK
  <2> QED
    BY <1>1, <2>1 DEF Lookup, Answered
<1>7. ASSUME ReadIdentity(t) PROVE Lookup(t)' /\ Answered(t)'
  <2>1. /\ phase'[t] = IF active[who[t]] THEN "active" ELSE "absent"
        /\ phase[t] # "idle"
        /\ UNCHANGED <<clock, active, activatedAt, deactivatedAt, who, now, result>>
    BY <1>1, <1>7 DEF ReadIdentity, Enter, erpVars, TypeOK
  <2> QED
    BY <1>1, <2>1 DEF Lookup, Answered, ActiveSince
<1>8. ASSUME ReadGroups(t) PROVE Lookup(t)' /\ Answered(t)'
  <2>1. /\ phase'[t] = "read" /\ phase[t] = "active" /\ found'[t] = groups[who[t]]
        /\ UNCHANGED <<clock, active, groups, deactivatedAt, revokedAt, who, now, result>>
    BY <1>1, <1>8 DEF ReadGroups, Enter, erpVars, TypeOK
  <2> QED
    BY <1>1, <2>1 DEF Lookup, Answered, ActiveSince, PrivilegedSince
<1>9. ASSUME Store(t) PROVE Lookup(t)' /\ Answered(t)'
  <2>1. /\ result'[t] = Context(found[t]) /\ phase'[t] = "idle" /\ phase[t] = "read"
        /\ UNCHANGED <<clock, active, groups, activatedAt, deactivatedAt, revokedAt, who, now>>
    BY <1>1, <1>9 DEF Store, Return, Enter, erpVars, TypeOK
  <2>2. /\ result'[t] \in {"unrestricted", "self"}
        /\ result'[t] = "unrestricted" <=> Privileged(found[t])
    BY <1>1, <2>1, ContextOfGroups DEF TypeOK
  <2>3. /\ ActiveSince(who[t], now[t])
        /\ Privileged(found[t]) => PrivilegedSince(who[t], now[t])
    BY <1>1, <2>1 DEF Lookup
  <2>4. /\ ActiveSince(who[t], now[t] - Ttl + 1)
        /\ Privileged(found[t]) => PrivilegedSince(who[t], now[t] - Ttl + 1)
    BY <1>2, <1>3, <2>3
  <2> QED
    BY <1>1, <2>1, <2>2, <2>4 DEF Lookup, Answered, ActiveSince, PrivilegedSince
<1>10. ASSUME Deny(t) PROVE Lookup(t)' /\ Answered(t)'
  <2>1. /\ result'[t] = "denied" /\ phase'[t] = "idle" /\ phase[t] = "absent"
        /\ UNCHANGED <<clock, active, activatedAt, who, now>>
    BY <1>1, <1>10 DEF Deny, Context, Return, Enter, erpVars, TypeOK
  <2> QED
    BY <1>1, <2>1 DEF Lookup, Answered
<1>11. ASSUME FetchFails(t) PROVE Lookup(t)' /\ Answered(t)'
  <2>1. result'[t] = "error" /\ phase'[t] = "idle" /\ UNCHANGED <<clock, now>>
    BY <1>1, <1>11 DEF FetchFails, OnFailure, Return, Enter, TypeOK
  <2> QED
    BY <1>1, <2>1 DEF Lookup, Answered
<1> QED
  BY <1>4, <1>5, <1>6, <1>7, <1>8, <1>9, <1>10, <1>11 DEF Step

LEMMA NextIInv == IInv /\ [Next]_vars => IInv'
<1> SUFFICES ASSUME IInv, [Next]_vars PROVE IInv'
  OBVIOUS
<1>1. TypeOK /\ TypeOK' /\ CacheInv'
  BY TypeStep, CacheStep DEF IInv
<1>2. ASSUME NEW t \in Threads PROVE Lookup(t)' /\ Answered(t)'
  <2>1. Lookup(t) /\ Answered(t)
    BY <1>1, PerThread DEF IInv
  <2> QED
    BY <1>1, <2>1, RestingThread, SteppingThread
<1>3. (FetchInv /\ RevocationBound /\ DeactivationBound /\ ProvisioningAtOnce)'
  <2>1. /\ \A t \in Threads : Lookup(t)'
        /\ \A t \in Threads : Answered(t)'
    BY <1>2
  <2>2. TypeOK' => /\ (\A t \in Threads : Lookup(t))' => FetchInv'
                   /\ (\A t \in Threads : Answered(t))'
                        => (RevocationBound /\ DeactivationBound /\ ProvisioningAtOnce)'
    BY PerThread, PTL
  <2> QED
    BY <1>1, <2>1, <2>2
<1> QED
  BY <1>1, <1>3 DEF IInv

----------------------------------------------------------------------------
(* Whatever the threads do, the invariant holds in every reachable state.    *)
THEOREM Invariance == Spec => []IInv
<1>1. Init => IInv
  BY InitIInv
<1>2. IInv /\ [Next]_vars => IInv'
  BY NextIInv
<1> QED
  BY <1>1, <1>2, PTL DEF Spec

\* The variables keep their types.
THEOREM TypeCorrect == Spec => []TypeOK
<1>1. IInv => TypeOK
  BY DEF IInv
<1> QED
  BY <1>1, Invariance, PTL

\* A revoked group membership opens no lookup that begins a TTL later.
THEOREM RevocationIsBounded == Spec => []RevocationBound
<1>1. IInv => RevocationBound
  BY DEF IInv
<1> QED
  BY <1>1, Invariance, PTL

\* A deactivated person is given no context by a lookup that begins a TTL later.
THEOREM DeactivationIsBounded == Spec => []DeactivationBound
<1>1. IInv => DeactivationBound
  BY DEF IInv
<1> QED
  BY <1>1, Invariance, PTL

\* No lookup is denied because of a person's earlier absence.
THEOREM ProvisioningTakesEffect == Spec => []ProvisioningAtOnce
<1>1. IInv => ProvisioningAtOnce
  BY DEF IInv
<1> QED
  BY <1>1, Invariance, PTL

----------------------------------------------------------------------------
(* The cached resolver implements the promise of one without a cache.        *)

LEMMA PromisedTimes == Promise!Never = Never
BY DEF Promise!Never, Never

LEMMA InitPromise == Init => Promise!PromiseInit
<1> SUFFICES ASSUME Init PROVE Promise!PromiseInit
  OBVIOUS
<1>1. [p \in Persons |-> Privileged(groups[p])] \in [Persons -> BOOLEAN]
  BY DEF Privileged
<1>2. [t \in Threads |-> phase[t] # "idle"] = [t \in Threads |-> FALSE]
  BY DEF Init
<1> QED
  BY <1>1, <1>2, PromisedTimes DEF Init, Promise!PromiseInit

\* The threads' steps that end a lookup: the answer is one that may be told.
LEMMA TellStep ==
  ASSUME IInv, IInv', NEW t \in Threads, phase[t] # "idle",
         NEW r \in Promise!Answers \ {"none"}, Return(t, r),
         UNCHANGED <<clock, erpVars, who, now>>
  PROVE  Promise!Tell(t, r)
<1>1. result'[t] = r
  BY DEF Return, IInv, TypeOK
<1>2. who'[t] = who[t] /\ now'[t] = now[t]
  OBVIOUS
<1>3. UNCHANGED <<active, groups, activatedAt, deactivatedAt, revokedAt>>
  BY DEF erpVars
<1>4. Promise!MayBeTold(who[t], now[t], r)
  <2>1. (RevocationBound /\ DeactivationBound /\ ProvisioningAtOnce)'
    BY DEF IInv
  <2>2. /\ r = "unrestricted" => \/ Privileged(groups[who[t]])
                                 \/ now[t] - revokedAt[who[t]] < Ttl
        /\ r \in {"unrestricted", "self"} => \/ active[who[t]]
                                             \/ now[t] - deactivatedAt[who[t]] < Ttl
        /\ r = "denied" => ~active[who[t]] \/ activatedAt[who[t]] >= now[t]
    BY <1>1, <1>2, <1>3, <2>1
       DEF RevocationBound, DeactivationBound, ProvisioningAtOnce, Privileged
  <2>3. who[t] \in Persons
    BY DEF IInv, TypeOK
  <2> QED
    BY <2>2, <2>3 DEF Promise!MayBeTold, Promise!Levels
<1>5. [u \in Threads |-> phase'[u] # "idle"] =
        [[u \in Threads |-> phase[u] # "idle"] EXCEPT ![t] = FALSE]
  BY DEF Return, Enter, IInv, TypeOK
<1>6. result' = [result EXCEPT ![t] = r] /\ UNCHANGED <<clock, who, now>>
  BY DEF Return
<1>7. UNCHANGED <<active, [p \in Persons |-> Privileged(groups[p])],
                  activatedAt, deactivatedAt, revokedAt>>
  BY <1>3 DEF Privileged
<1> QED
  BY <1>4, <1>5, <1>6, <1>7 DEF Promise!Tell, Promise!erp

LEMMA NextPromise ==
  ASSUME IInv, IInv', [Next]_vars
  PROVE  [Promise!PromiseNext]_(Promise!promiseVars)
<1> DEFINE priv == [p \in Persons |-> Privileged(groups[p])]
           pend == [u \in Threads |-> phase[u] # "idle"]
<1>1. ASSUME UNCHANGED <<clock, active, groups, activatedAt, deactivatedAt, revokedAt>>,
             UNCHANGED <<who, now, result>>, pend' = pend
      PROVE  UNCHANGED Promise!promiseVars
  BY <1>1 DEF Promise!promiseVars, Promise!erp, Promise!asking, Privileged
<1>2. CASE UNCHANGED vars
  BY <1>1, <1>2 DEF vars, erpVars, threadVars
<1>3. CASE Tick
  <2>1. clock' = clock + 1 /\ UNCHANGED <<erpVars, threadVars>>
    BY <1>3 DEF Tick
  <2> QED
    BY <2>1 DEF Promise!PromiseNext, Promise!Pass, Promise!erp, Promise!asking,
       erpVars, threadVars, Privileged
<1>4. ASSUME NEW p \in Persons, Activate(p) PROVE Promise!SetActive(p, TRUE)
  BY <1>4 DEF Activate, threadVars, Promise!SetActive, Promise!asking, Privileged
<1>5. ASSUME NEW p \in Persons, Deactivate(p) PROVE Promise!SetActive(p, FALSE)
  BY <1>5 DEF Deactivate, threadVars, Promise!SetActive, Promise!asking, Privileged, IInv, TypeOK
<1>6. ASSUME NEW p \in Persons, NEW gs \in SUBSET Groups, SetGroups(p, gs)
      PROVE  \/ UNCHANGED Promise!promiseVars
             \/ \E b \in BOOLEAN : Promise!SetPrivileged(p, b)
  <2>1. /\ groups' = [groups EXCEPT ![p] = gs]
        /\ UNCHANGED <<clock, active, activatedAt, deactivatedAt, who, now, result, phase>>
    BY <1>6 DEF SetGroups, threadVars
  <2>2. priv' = [priv EXCEPT ![p] = Privileged(gs)]
    BY <2>1 DEF Privileged, IInv, TypeOK
  <2>3. Privileged(gs) \in BOOLEAN /\ Privileged(groups[p]) \in BOOLEAN
    BY DEF Privileged
  <2>4. CASE Privileged(gs) <=> Privileged(groups[p])
    <3>1. priv' = priv
      BY <2>1, <2>4 DEF Privileged, IInv, TypeOK
    <3>2. revokedAt' = revokedAt
      BY <1>6, <2>4 DEF SetGroups
    <3> QED
      BY <2>1, <3>1, <3>2 DEF Promise!promiseVars, Promise!erp, Promise!asking
  <2>5. CASE ~(Privileged(gs) <=> Privileged(groups[p]))
    <3>1. priv[p] # Privileged(gs)
      BY <2>3, <2>5
    <3>2. revokedAt' = IF Privileged(gs) THEN revokedAt ELSE [revokedAt EXCEPT ![p] = clock]
      BY <1>6, <2>5 DEF SetGroups
    <3>3. Promise!SetPrivileged(p, Privileged(gs))
      BY <2>1, <2>2, <3>1, <3>2 DEF Promise!SetPrivileged, Promise!asking
    <3> QED
      BY <2>3, <3>3
  <2> QED
    BY <2>4, <2>5
<1>7. ASSUME NEW t \in Threads, NEW p \in Persons, Begin(t, p) PROVE Promise!Ask(t, p)
  <2>1. pend' = [pend EXCEPT ![t] = TRUE]
    BY <1>7 DEF Begin, Enter, IInv, TypeOK
  <2> QED
    BY <1>7, <2>1 DEF Begin, erpVars, Promise!Ask, Promise!erp, Privileged
<1>8. ASSUME NEW t \in Threads, Miss(t) \/ ReadIdentity(t) \/ ReadGroups(t)
      PROVE  UNCHANGED Promise!promiseVars
  <2>1. pend' = pend
    BY <1>8 DEF Miss, ReadIdentity, ReadGroups, Enter, IInv, TypeOK
  <2> QED
    BY <1>1, <1>8, <2>1 DEF Miss, ReadIdentity, ReadGroups, erpVars
<1>9. ASSUME NEW t \in Threads, Hit(t) \/ Store(t) \/ Deny(t) \/ FetchFails(t)
      PROVE  \E r \in Promise!Answers \ {"none"} : Promise!Tell(t, r)
  <2>1. PICK r : Return(t, r)
    BY <1>9 DEF Hit, Store, Deny, FetchFails
  <2>2. phase[t] # "idle" /\ UNCHANGED <<clock, erpVars, who, now>>
    BY <1>9 DEF Hit, Store, Deny, FetchFails
  <2>3. Hit(t) \/ Store(t) => \E gs \in SUBSET Groups : Return(t, Context(gs))
    <3>1. Hit(t) => cache[who[t]].groups \in SUBSET Groups
      BY TypedEntry DEF Hit, Valid, IInv, TypeOK
    <3> QED
      BY <3>1 DEF Hit, Store, IInv, TypeOK
  <2>4. Deny(t) => Return(t, "denied")
    BY DEF Deny, Context
  <2>5. FetchFails(t) => Return(t, "error")
    BY DEF FetchFails, OnFailure
  <2>6. \E r2 \in {"unrestricted", "self", "denied", "error"} : Return(t, r2)
    BY <1>9, <2>3, <2>4, <2>5, ContextOfGroups
  <2> QED
    BY <2>2, <2>6, TellStep DEF Promise!Answers, Promise!Levels
<1> QED
  BY <1>2, <1>3, <1>4, <1>5, <1>6, <1>7, <1>8, <1>9
     DEF Next, Promise!PromiseNext, Promise!ErpStep

\* A resolver with a cache, whatever its threads and the ERP do, is one without.
THEOREM CacheIsTransparent == Spec => PromiseKept
<1>1. Init => Promise!PromiseInit
  BY InitPromise
<1>2. IInv /\ IInv' /\ [Next]_vars => [Promise!PromiseNext]_(Promise!promiseVars)
  BY NextPromise
<1> QED
  BY <1>1, <1>2, Invariance, PTL DEF Spec, PromiseKept, Promise!PromiseSpec
============================================================================
