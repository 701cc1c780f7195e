------------------------------ MODULE Security ------------------------------
(***************************************************************************)
(* Users, roles, tokens and the audit log of core/infrastructure/security, *)
(* and the routes of interfaces/api/v1/security_router.py over them.       *)
(*                                                                         *)
(* The managers have no lock and no route suspends, so that every route is *)
(* one step; the managers' other operations are called by code that the    *)
(* repository leaves to its users. A tick of the clock is half a second,   *)
(* since a token's `iat` and `exp` are cut off to whole seconds. Nothing   *)
(* in the repository clears User.is_active: every user is active.          *)
(***************************************************************************)
EXTENDS Integers, SequencesExt, FiniteSets, Functions

CONSTANTS
  Users, SystemRoles, CustomRoles, Perms,
  Admin,           \* Permission.ADMIN
  AccessLife,      \* access_token_expire_minutes, in ticks
  RefreshLife,     \* refresh_token_expire_days, in ticks
  MaxHistory,      \* AuditLogger.max_history
  Retention,       \* the age that clear_old_events keeps, in ticks
  East, West,      \* how far ahead of UTC, and how far behind it, the server's
                   \* local time may be, in ticks
  MaxTokens, MaxEvents, MaxChanges, LastTick   \* bounds

ASSUME SecurityAssumption ==
  /\ Admin \in Perms /\ SystemRoles \cap CustomRoles = {}
  /\ {AccessLife, RefreshLife, Retention, MaxTokens, MaxEvents, MaxChanges, LastTick} \subseteq Nat
  /\ MaxHistory \in Nat \ {0} /\ East \cup West \subseteq Nat

VARIABLES
  zone,        \* how far local time is behind UTC: negative east of it
  rbacRoles,   \* RBACManager.roles: the permissions of each role there is
  rbacUsers,   \* RBACManager.users: the role ids of each user there is
  registry,    \* JWTTokenHandler.issued_tokens, by token
  trail,       \* AuditLogger.events: number and time of each
  tick,        \* datetime.utcnow()
  issued,      \* history: what each token says, and when it was to expire, in
               \* order of issue
  revoked,     \* history: the tokens ever revoked
  logged,      \* history: events logged so far
  changes      \* history: changes of users and roles

tokenVars    == <<registry, issued, revoked>>
securityVars == <<zone, rbacRoles, rbacUsers, tokenVars, trail, tick, logged, changes>>

Tokens == 1..Len(issued)

(* _initialize_default_roles: one role with every permission, the others   *)
(* without Permission.ADMIN.                                               *)
DefaultRoles == [r \in SystemRoles |-> IF r = "role_admin" THEN Perms ELSE Perms \ {Admin}]

SecurityInit ==
  /\ zone \in West \cup {-e : e \in East}
  /\ rbacRoles = DefaultRoles
  /\ rbacUsers = <<>>
  /\ registry = <<>>
  /\ trail = <<>>
  /\ tick = 0
  /\ issued = <<>> /\ revoked = {} /\ logged = 0 /\ changes = 0

-----------------------------------------------------------------------------
(* f without the keys in S, and with k set to v.                           *)
Without(f, S) == [k \in DOMAIN f \ S |-> f[k]]
With(f, k, v) == [x \in DOMAIN f \cup {k} |-> IF x = k THEN v ELSE f[x]]

LastEvents(s, n) == IF Len(s) > n THEN SubSeq(s, Len(s) - n + 1, Len(s)) ELSE s

(* log_event: appended, then the last max_history are kept.                *)
LogEvent ==
  /\ logged < MaxEvents
  /\ logged' = logged + 1
  /\ trail' = LastEvents(Append(trail, [n |-> logged', at |-> tick]), MaxHistory)

(* The permissions of the roles of u that there are.                       *)
PermissionsOf(u) == UNION {rbacRoles[r] : r \in rbacUsers[u] \cap DOMAIN rbacRoles}

(* check_permission: any, for a role that holds Permission.ADMIN.          *)
CheckPermission(u, p) ==
  /\ u \in DOMAIN rbacUsers
  /\ Admin \in PermissionsOf(u) \/ p \in PermissionsOf(u)

Registered(u, expires) == [user |-> u, expires |-> expires, revoked |-> FALSE]

(* int(dt.timestamp()) of a naive UTC time: taken for local time, and cut  *)
(* off to whole seconds.                                                   *)
Timestamp(t) == ((t + zone) \div 2) * 2

Claimed(u, roles, perms, life) ==
  [user |-> u, roles |-> roles, perms |-> perms, iat |-> Timestamp(tick),
   exp |-> Timestamp(tick + life), expires |-> tick + life]

(* login: the event, then an access token that states the roles and        *)
(* permissions of the moment, and a refresh token that states neither.     *)
Login(u) ==
  /\ u \in DOMAIN rbacUsers
  /\ Len(issued) + 2 <= MaxTokens
  /\ LogEvent
  /\ issued' = issued \o
       <<Claimed(u, rbacUsers[u], PermissionsOf(u), AccessLife), Claimed(u, {}, {}, RefreshLife)>>
  /\ registry' = With(With(registry, Len(issued) + 1, Registered(u, tick + AccessLife)),
                      Len(issued) + 2, Registered(u, tick + RefreshLife))
  /\ UNCHANGED <<zone, rbacRoles, rbacUsers, revoked, tick, changes>>

(* login of a name nobody has: only the event.                             *)
LoginFails(u) ==
  /\ u \notin DOMAIN rbacUsers
  /\ LogEvent
  /\ UNCHANGED <<zone, rbacRoles, rbacUsers, tokenVars, tick, changes>>

(* jwt.decode refuses a token from its exp on, and one whose iat lies in   *)
(* the future, by the time in UTC.                                         *)
Expired(t)  == issued[t].exp <= tick
Immature(t) == tick < issued[t].iat

(* verify_token: decoded, and not known to be revoked.                     *)
Verifies(t) == ~Expired(t) /\ ~Immature(t) /\ ~(t \in DOMAIN registry /\ registry[t].revoked)

Revoked(t) == [registry EXCEPT ![t].revoked = TRUE]

(* logout: revoke_token, where the registry has the token, and the event.  *)
Logout(t) ==
  /\ Verifies(t)
  /\ registry' = IF t \in DOMAIN registry THEN Revoked(t) ELSE registry
  /\ revoked' = revoked \cup ({t} \cap DOMAIN registry)
  /\ LogEvent
  /\ UNCHANGED <<zone, rbacRoles, rbacUsers, tick, issued, changes>>

RevokeUserTokens(u) ==
  /\ registry' = [t \in DOMAIN registry |->
                    IF registry[t].user = u THEN [registry[t] EXCEPT !.revoked = TRUE] ELSE registry[t]]
  /\ revoked' = revoked \cup {t \in DOMAIN registry : registry[t].user = u}
  /\ UNCHANGED <<zone, rbacRoles, rbacUsers, trail, tick, issued, logged, changes>>

(* Mutated form: revoked entries are taken for expired ones.               *)
CleanupRevokedTokens ==
  /\ registry' = Without(registry, {t \in DOMAIN registry : registry[t].revoked \/ registry[t].expires < tick})
  /\ UNCHANGED <<zone, rbacRoles, rbacUsers, trail, tick, issued, revoked, logged, changes>>

CleanupExpiredTokens ==
  /\ registry' = Without(registry, {t \in DOMAIN registry : registry[t].expires < tick})
  /\ UNCHANGED <<zone, rbacRoles, rbacUsers, trail, tick, issued, revoked, logged, changes>>

-----------------------------------------------------------------------------
(* create_role: the route logs it. An id that is taken changes nothing.    *)
CreateRole(r, ps) ==
  /\ changes < MaxChanges /\ changes' = changes + 1
  /\ r \notin DOMAIN rbacRoles
  /\ rbacRoles' = With(rbacRoles, r, ps)
  /\ LogEvent
  /\ UNCHANGED <<zone, rbacUsers, tokenVars, tick>>

(* Mutated form: the role is left with its users.                          *)
DeleteRoleOnly(r) ==
  /\ changes < MaxChanges /\ changes' = changes + 1
  /\ r \in DOMAIN rbacRoles \ SystemRoles
  /\ rbacRoles' = Without(rbacRoles, {r})
  /\ UNCHANGED <<zone, rbacUsers, tokenVars, trail, tick, logged>>

(* delete_role: taken from every user first; system roles stay.            *)
DeleteRole(r) ==
  /\ changes < MaxChanges /\ changes' = changes + 1
  /\ r \in DOMAIN rbacRoles \ SystemRoles
  /\ rbacUsers' = [u \in DOMAIN rbacUsers |-> rbacUsers[u] \ {r}]
  /\ rbacRoles' = Without(rbacRoles, {r})
  /\ UNCHANGED <<zone, tokenVars, trail, tick, logged>>

(* create_user: with those of the roles asked for that there are.          *)
CreateUser(u, rs) ==
  /\ changes < MaxChanges /\ changes' = changes + 1
  /\ u \notin DOMAIN rbacUsers
  /\ rbacUsers' = With(rbacUsers, u, rs \cap DOMAIN rbacRoles)
  /\ LogEvent
  /\ UNCHANGED <<zone, rbacRoles, tokenVars, tick>>

(* delete_user: the tokens of the user stay as they are.                   *)
DeleteUser(u) ==
  /\ changes < MaxChanges /\ changes' = changes + 1
  /\ u \in DOMAIN rbacUsers
  /\ rbacUsers' = Without(rbacUsers, {u})
  /\ UNCHANGED <<zone, rbacRoles, tokenVars, trail, tick, logged>>

(* assign_role_to_user and remove_role_from_user.                          *)
AssignRole(u, r) ==
  /\ changes < MaxChanges /\ changes' = changes + 1
  /\ u \in DOMAIN rbacUsers /\ r \in DOMAIN rbacRoles
  /\ rbacUsers' = [rbacUsers EXCEPT ![u] = @ \cup {r}]
  /\ UNCHANGED <<zone, rbacRoles, tokenVars, trail, tick, logged>>

RemoveRole(u, r) ==
  /\ changes < MaxChanges /\ changes' = changes + 1
  /\ u \in DOMAIN rbacUsers
  /\ rbacUsers' = [rbacUsers EXCEPT ![u] = @ \ {r}]
  /\ UNCHANGED <<zone, rbacRoles, tokenVars, trail, tick, logged>>

(* Role.grant_permission and revoke_permission.                            *)
GrantPermission(r, p) ==
  /\ changes < MaxChanges /\ changes' = changes + 1
  /\ r \in DOMAIN rbacRoles
  /\ \E ps \in {rbacRoles[r] \cup {p}, rbacRoles[r] \ {p}} : rbacRoles' = [rbacRoles EXCEPT ![r] = ps]
  /\ UNCHANGED <<zone, rbacUsers, tokenVars, trail, tick, logged>>

(* The events that are not too old, in their order.                        *)
Kept ==
  LET kept[i \in 0..Len(trail)] ==
        IF i = 0 THEN <<>>
        ELSE IF trail[i].at + Retention >= tick THEN Append(kept[i - 1], trail[i]) ELSE kept[i - 1]
  IN  kept[Len(trail)]

ClearOldEvents ==
  /\ trail' = Kept
  /\ UNCHANGED <<zone, rbacRoles, rbacUsers, tokenVars, tick, logged, changes>>

ClockTicks ==
  /\ tick < LastTick
  /\ tick' = tick + 1
  /\ UNCHANGED <<zone, rbacRoles, rbacUsers, tokenVars, trail, logged, changes>>

SecurityNext ==
  \/ \E u \in Users :
       \/ Login(u) \/ LoginFails(u) \/ RevokeUserTokens(u) \/ DeleteUser(u)
       \/ \E rs \in SUBSET (SystemRoles \cup CustomRoles) : CreateUser(u, rs)
       \/ \E r \in SystemRoles \cup CustomRoles : AssignRole(u, r) \/ RemoveRole(u, r)
  \/ \E t \in Tokens : Logout(t)
  \/ \E r \in CustomRoles : DeleteRole(r) \/ \E ps \in SUBSET Perms : CreateRole(r, ps)
  \/ \E r \in SystemRoles \cup CustomRoles, p \in Perms : GrantPermission(r, p)
  \/ CleanupExpiredTokens \/ ClearOldEvents \/ ClockTicks

-----------------------------------------------------------------------------
SecurityTypeOK ==
  /\ \A r \in DOMAIN rbacRoles : r \in SystemRoles \cup CustomRoles /\ rbacRoles[r] \subseteq Perms
  /\ DOMAIN rbacUsers \subseteq Users
  /\ DOMAIN registry \subseteq Tokens
  /\ Len(trail) <= MaxHistory /\ Len(trail) <= logged

(* Nobody holds a role that is not there, so that a role created under a   *)
(* deleted one's id starts with nobody; a user who may do something is one *)
(* that holds a role with that permission now.                             *)
RolesExist ==
  \A u \in DOMAIN rbacUsers :
    /\ rbacUsers[u] \subseteq DOMAIN rbacRoles
    /\ \A p \in Perms : CheckPermission(u, p) =>
         \E r \in rbacUsers[u] : {p, Admin} \cap rbacRoles[r] # {}

(* The log is the unbroken end of everything logged, however trimming by   *)
(* number and clearing by age take turns.                                  *)
TrailUnbroken ==
  \A i \in 1..Len(trail) : trail[i].n = logged - Len(trail) + i

(* A revocation holds, through logouts, revocations of all of a user's     *)
(* tokens and cleanups, as long as the token was to live; and, where local *)
(* time is not behind UTC, for good, since the token has expired when the  *)
(* cleanup forgets that it was revoked.                                    *)
RevocationsHold ==
  \A t \in revoked : tick <= issued[t].expires \/ zone <= 0 => ~Verifies(t)

(* A token that is refused passes later in two cases only, both of them    *)
(* west of UTC: at first its iat lies in the future, and later the cleanup *)
(* forgets that it was revoked.                                            *)
RefusedForGood ==
  \A t \in Tokens : ~Verifies(t) /\ Verifies(t)' =>
    zone > 0 /\ (Immature(t) \/ (t \in revoked /\ issued[t].expires < tick))

(* Every step keeps these together: the events are in the order of their   *)
(* times, and the registry has a token's expiry as the token states it.    *)
Claims  == [user : Users, roles : SUBSET (SystemRoles \cup CustomRoles), perms : SUBSET Perms,
            iat : Int, exp : Int, expires : Nat]
Entries == [user : Users, expires : Nat, revoked : BOOLEAN]
Events  == [n : Nat, at : Nat]

RolesInv ==
  /\ \A r \in DOMAIN rbacRoles : r \in SystemRoles \cup CustomRoles /\ rbacRoles[r] \subseteq Perms
  /\ DOMAIN rbacUsers \subseteq Users
  /\ \A u \in DOMAIN rbacUsers : rbacUsers[u] \subseteq DOMAIN rbacRoles

TokensInv ==
  /\ issued \in Seq(Claims) /\ tick \in Nat /\ zone \in Int
  /\ DOMAIN registry \subseteq Tokens /\ revoked \subseteq Tokens
  /\ \A t \in Tokens : issued[t].exp <= issued[t].expires + zone /\ issued[t].iat <= tick + zone
  /\ \A t \in Tokens : t \in DOMAIN registry \/ issued[t].expires < tick
  /\ \A t \in DOMAIN registry : registry[t].revoked <=> t \in revoked
  /\ \A t \in DOMAIN registry : registry[t] \in Entries /\ registry[t].expires = issued[t].expires

InOrder(s, last, time) ==
  /\ s \in Seq(Events) /\ Len(s) <= last
  /\ \A i \in 1..Len(s) : s[i].n = last - Len(s) + i /\ s[i].at <= time
  /\ \A i, j \in 1..Len(s) : i <= j => s[i].at <= s[j].at

TrailInv == logged \in Nat /\ Len(trail) <= MaxHistory /\ InOrder(trail, logged, tick)

SecurityInv == RolesInv /\ TokensInv /\ TrailInv

(***************************************************************************)
(* The ComplianceManager of core/infrastructure/security/compliance.py     *)
(* (consents; requirements and the overall percentage) and the             *)
(* SecureConfigManager over its SecretsVault (encryption.py). The three    *)
(* share nothing. Nothing suspends: every operation is one step.           *)
(***************************************************************************)
CONSTANTS
  ConsentIds, ConsentTypes,     \* one user's consents
  Requirements, GdprChecks,     \* how many checks get_compliance_percentage counts
  ConfigKeys, ConfigValues,
  LastDay, MaxRecorded, MaxSettings   \* bounds

ASSUME ComplianceAssumption ==
  /\ {LastDay, MaxRecorded, MaxSettings} \subseteq Nat /\ GdprChecks \in Nat \ {0}
  /\ IsFiniteSet(ConsentIds) /\ IsFiniteSet(Requirements)

VARIABLES
  consents,      \* user_consents, in the dict's order
  today,         \* datetime.utcnow()
  recorded,      \* history: consents recorded
  verified,      \* the requirements whose status is "verified"
  registered,    \* the requirements there are
  gdpr,          \* checks of gdpr_data that are met, or -1 without gdpr_data
  config,        \* SecureConfigManager.config
  secrets,       \* SecretsVault.secrets, decrypted
  settings       \* history: what was set under each key, in order, and
                 \* whether it is plain, secret or a secret since deleted

consentVars == <<consents, today, recorded>>
statusVars  == <<verified, registered, gdpr>>
configVars  == <<config, secrets, settings>>

ComplianceInit ==
  /\ consents = <<>> /\ today = 0 /\ recorded = 0
  /\ verified = {} /\ registered = {} /\ gdpr = -1
  /\ config = <<>> /\ secrets = <<>> /\ settings = <<>>

-----------------------------------------------------------------------------
(* Consents.                                                               *)

Place(id) == {i \in 1..Len(consents) : consents[i].id = id}

(* A dict keeps the place of a key that is set again.                      *)
Stored(c) == IF Place(c.id) = {} THEN Append(consents, c)
             ELSE [i \in 1..Len(consents) |-> IF i \in Place(c.id) THEN c ELSE consents[i]]

(* record_consent; one that expired before it was given is not stored. An  *)
(* expiry after LastDay stands for none.                                   *)
RecordConsent(id, type, given, expires) ==
  /\ recorded < MaxRecorded
  /\ recorded' = recorded + 1
  /\ consents' =
       IF expires < today THEN consents
       ELSE Stored([id |-> id, type |-> type, given |-> given, expires |-> expires, withdrawn |-> FALSE])
  /\ UNCHANGED today

Withdraw(id) ==
  /\ Place(id) # {}
  /\ consents' = [i \in 1..Len(consents) |->
                    IF i \in Place(id) THEN [consents[i] EXCEPT !.withdrawn = TRUE] ELSE consents[i]]
  /\ UNCHANGED <<today, recorded>>

IsValid(c) == c.given /\ ~c.withdrawn /\ today < c.expires

(* get_user_consents: the last in the dict of each type.                   *)
Found(type) == {i \in 1..Len(consents) :
                  /\ consents[i].type = type
                  /\ \A j \in 1..Len(consents) : consents[j].type = type => j <= i}

CheckUserConsent(type) == \E i \in Found(type) : IsValid(consents[i])

DayPasses == today < LastDay /\ today' = today + 1 /\ UNCHANGED <<consents, recorded>>

ConsentNext ==
  \/ \E id \in ConsentIds :
       \/ Withdraw(id)
       \/ \E type \in ConsentTypes, given \in BOOLEAN, expires \in 0..LastDay + 1 :
            RecordConsent(id, type, given, expires)
  \/ DayPasses

-----------------------------------------------------------------------------
(* Requirements and the percentages of get_compliance_status.              *)

(* add_requirement: one of the same id is replaced, as not verified.       *)
AddRequirement(r) ==
  /\ registered' = registered \cup {r}
  /\ verified' = verified \ {r}
  /\ UNCHANGED gdpr

UpdateRequirementStatus(r) ==
  /\ r \in registered
  /\ verified' \in {verified \cup {r}, verified \ {r}}
  /\ UNCHANGED <<registered, gdpr>>

RegisterGdprCompliance(n) == gdpr' = n /\ UNCHANGED <<verified, registered>>

(* Percentages as pairs, a numerator over a denominator.                   *)
RequirementShare == <<100 * Cardinality(verified), Cardinality(registered)>>
GdprShare        == <<100 * gdpr, GdprChecks>>

(* The mean of the shares there are; a share of requirements that is zero  *)
(* is left out of it.                                                      *)
Overall ==
  LET r == RequirementShare
      g == GdprShare
  IN CASE verified = {} /\ gdpr = -1 -> <<0, 1>>
       [] verified = {} -> g
       [] gdpr = -1     -> r
       [] OTHER         -> <<g[1] * r[2] + r[1] * g[2], 2 * g[2] * r[2]>>

StatusNext ==
  \/ \E r \in Requirements : AddRequirement(r) \/ UpdateRequirementStatus(r)
  \/ \E n \in 0..GdprChecks : RegisterGdprCompliance(n)

-----------------------------------------------------------------------------
(* Configuration.                                                          *)

Put(f, k, v) == [x \in DOMAIN f \cup {k} |-> IF x = k THEN v ELSE f[x]]

(* set_config, for a string: one stored encrypted and one stored plain     *)
(* live side by side.                                                      *)
SetConfig(k, v, encrypt) ==
  /\ Len(settings) < MaxSettings
  /\ settings' =
       Append(settings, [key |-> k, value |-> v, kind |-> IF encrypt THEN "secret" ELSE "plain"])
  /\ secrets' = IF encrypt THEN Put(secrets, k, v) ELSE secrets
  /\ config'  = IF encrypt THEN config ELSE Put(config, k, v)

(* delete_secret and clear_all.                                            *)
DeleteSecrets(ks) ==
  /\ ks # {} /\ ks \subseteq DOMAIN secrets
  /\ secrets' = Restrict(secrets, DOMAIN secrets \ ks)
  /\ settings' = [i \in 1..Len(settings) |->
                    IF settings[i].key \in ks /\ settings[i].kind = "secret"
                    THEN [settings[i] EXCEPT !.kind = "deleted"] ELSE settings[i]]
  /\ UNCHANGED config

(* get_config: the vault first; nothing when there is neither.             *)
GetConfig(k) ==
  IF k \in DOMAIN secrets THEN {secrets[k]} ELSE IF k \in DOMAIN config THEN {config[k]} ELSE {}

ConfigNext ==
  \/ \E k \in ConfigKeys, v \in ConfigValues, encrypt \in BOOLEAN : SetConfig(k, v, encrypt)
  \/ \E ks \in SUBSET ConfigKeys : DeleteSecrets(ks)

-----------------------------------------------------------------------------
ComplianceTypeOK ==
  /\ Len(consents) <= Cardinality(ConsentIds)
  /\ verified \subseteq registered
  /\ gdpr \in -1..GdprChecks
  /\ DOMAIN config \cup DOMAIN secrets \subseteq ConfigKeys

(* What was set last under k in that kind, if anything was.                *)
LatestOf(k, kind) ==
  {settings[i].value : i \in
     {i \in 1..Len(settings) :
        /\ settings[i].key = k /\ settings[i].kind = kind
        /\ \A j \in 1..Len(settings) : settings[j].key = k /\ settings[j].kind = kind => j <= i}}

(* What is stored under a key as a secret hides every plain value set      *)
(* under it, later ones too: a reader finds the last secret, or where no   *)
(* secret is left the last plain value.                                    *)
SecretsShadow ==
  \A k \in ConfigKeys :
    GetConfig(k) = IF LatestOf(k, "secret") # {} THEN LatestOf(k, "secret") ELSE LatestOf(k, "plain")

(* A consent that no longer holds, because it was withdrawn, replaced or   *)
(* has expired, holds again only through another that is recorded: none    *)
(* behind it comes back.                                                   *)
ConsentNotRevived ==
  \A type \in ConsentTypes :
    ~CheckUserConsent(type) /\ CheckUserConsent(type)' => recorded' = recorded + 1

(* The overall percentage lies within 0..100, and verifying a requirement  *)
(* lowers it only when it is the first, whose share then starts to count.  *)
OverallGrows ==
  /\ Overall[1] <= 100 * Overall[2]
  /\ verified # {} /\ verified \subseteq verified' /\ registered' = registered /\ gdpr' = gdpr =>
       Overall[1] * Overall'[2] <= Overall'[1] * Overall[2]

(* Every step keeps these together: an id is in the dict once, and each    *)
(* store has what was last set in its kind.                                *)
Consents == [id : ConsentIds, type : ConsentTypes, given : BOOLEAN, expires : Nat, withdrawn : BOOLEAN]
Settings == [key : ConfigKeys, value : ConfigValues, kind : {"plain", "secret", "deleted"}]

ConsentInv ==
  /\ consents \in Seq(Consents) /\ today \in Nat /\ recorded \in Nat
  /\ \A i, j \in 1..Len(consents) : consents[i].id = consents[j].id => i = j

StatusInv == registered \subseteq Requirements /\ Overall[1] <= 100 * Overall[2]

At(f, k) == IF k \in DOMAIN f THEN {f[k]} ELSE {}

ConfigInv ==
  /\ settings \in Seq(Settings) /\ SecretsShadow
  /\ \A k \in ConfigKeys : LatestOf(k, "secret") = At(secrets, k) /\ LatestOf(k, "plain") = At(config, k)

ComplianceInv == ComplianceTypeOK /\ ConsentInv /\ StatusInv /\ ConfigInv
=============================================================================
