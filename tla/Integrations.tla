---------------------------- MODULE Integrations ----------------------------
(***************************************************************************)
(* core/infrastructure/integrations: the IntegrationRegistry and the       *)
(* Slack, Jira and ServiceNow adapters.                                    *)
(*                                                                         *)
(* Nothing has a lock. Every call to the other side, and the closing of a  *)
(* session, suspends; what other calls do in between is seen after it. A   *)
(* call on a session closed meanwhile raises. An adapter asks its config   *)
(* for secrets with get_secret, which IntegrationConfig itself lacks: one  *)
(* without it fails every authenticate with the AttributeError. What the   *)
(* adapters fetch and keep (channels, projects, tables) is left out: where *)
(* it decides whether a request is made, either may happen.                *)
(***************************************************************************)
EXTENDS Naturals, FiniteSetsExt, Functions

CONSTANTS
  Adapters,      \* adapter objects, each made by one create_integration
  KindOf,        \* "slack", "jira" or "servicenow", of each adapter
  IntegrationOf, \* config.integration_id, of each adapter
  WithSecrets,   \* adapters whose config has get_secret
  MaxCalls,      \* bound: calls under way at a time
  MaxStarted     \* bound: calls there have been

ASSUME IntegrationsAssumption ==
  /\ KindOf \in [Adapters -> {"slack", "jira", "servicenow"}]
  /\ DOMAIN IntegrationOf = Adapters /\ WithSecrets \subseteq Adapters
  /\ {MaxCalls, MaxStarted} \subseteq Nat

VARIABLES
  held,      \* registry.adapters: the adapter of each id
  session,   \* adapter.session: 0 for None, else which of its sessions
  openOnes,  \* the sessions that are open, as adapter and session
  status,    \* adapter.status
  counted,   \* adapter.success_count and error_count
  isActive,  \* adapter.config.is_active
  calls,     \* calls under way: number, what, adapter, session, where, adapters to follow
  started,   \* history: calls there have been
  overtaken  \* history: adapters whose latest session was closed while an activation
             \* waited for the answer on an earlier one

integrationVars == <<held, session, openOnes, status, counted, isActive, calls, started, overtaken>>

IntegrationsInit ==
  /\ held = <<>>
  /\ session = [a \in Adapters |-> 0] /\ openOnes = {}
  /\ status = [a \in Adapters |-> "inactive"]
  /\ counted = [a \in Adapters |-> [ok |-> 0, bad |-> 0]]
  /\ isActive = [a \in Adapters |-> TRUE]
  /\ calls = {} /\ started = 0 /\ overtaken = {}

-----------------------------------------------------------------------------
Registered(a) == IntegrationOf[a] \in DOMAIN held
Holding(a) == Registered(a) /\ held[IntegrationOf[a]] = a

Begin(what, a, where, s, rest) ==
  /\ Cardinality(calls) < MaxCalls /\ started < MaxStarted
  /\ started' = started + 1
  /\ calls' = calls \cup {[n |-> started', what |-> what, a |-> a, s |-> s, at |-> where, rest |-> rest]}

(* The next request of a call is made on the session there is by then.     *)
Goes(c, where) ==
  /\ calls' = (calls \ {c}) \cup {[c EXCEPT !.at = where, !.s = session[c.a]]}
  /\ UNCHANGED started
Ends(c) == calls' = calls \ {c} /\ UNCHANGED started

(* A session made for adapter a; connect drops the one it had unclosed.    *)
Opens(a) ==
  /\ session' = [session EXCEPT ![a] = @ + 1]
  /\ openOnes' = openOnes \cup {<<a, session[a] + 1>>}

Sets(a, value) == status' = [status EXCEPT ![a] = value]
Count(a, ok) ==
  counted' = [counted EXCEPT ![a] = IF ok THEN [ok |-> @.ok + 1, bad |-> @.bad]
                                    ELSE [ok |-> @.ok, bad |-> @.bad + 1]]

(* What a request made by c may have come to: ok only on an open session.  *)
Answers(c) == IF c.a \in WithSecrets /\ <<c.a, c.s>> \in openOnes THEN BOOLEAN ELSE {FALSE}

(* create_integration: test_connection of a new adapter.                   *)
Create(a) ==
  /\ session[a] = 0
  /\ Opens(a) /\ Begin("create", a, "testing", 1, {})
  /\ UNCHANGED <<held, status, counted, isActive, overtaken>>

(* Only an adapter that answered is kept, in place of one with the same id.*)
Created(c) ==
  /\ c.at = "testing" /\ Ends(c)
  /\ \E ok \in Answers(c) :
       held' = IF ~ok THEN held
               ELSE [i \in DOMAIN held \cup {IntegrationOf[c.a]} |->
                       IF i = IntegrationOf[c.a] THEN c.a ELSE held[i]]
  /\ UNCHANGED <<session, openOnes, status, counted, isActive, overtaken>>

-----------------------------------------------------------------------------
(* activate_integration: connect, with a session of its own.               *)
Activate(a) ==
  /\ Holding(a)
  /\ Opens(a) /\ Begin("activate", a, "connecting", session[a] + 1, {})
  /\ overtaken' = overtaken \ {a}
  /\ UNCHANGED <<held, status, counted, isActive>>

(* authenticate of connect; where it fails nothing is counted.             *)
Connecting(c) ==
  /\ c.at = "connecting"
  /\ \E ok \in Answers(c) :
       IF ok THEN Goes(c, "fetching") /\ UNCHANGED status
             ELSE Ends(c) /\ Sets(c.a, "error")
  /\ UNCHANGED <<held, session, openOnes, counted, isActive, overtaken>>

(* _get_workspace_info, _sync_metadata or _sync_tables: their errors are   *)
(* swallowed, and connect has succeeded whatever they came to.             *)
Fetched(c) ==
  /\ c.at = "fetching"
  /\ Sets(c.a, "active") /\ Count(c.a, TRUE)
  /\ Goes(c, "confirming")
  /\ UNCHANGED <<held, session, openOnes, isActive, overtaken>>

(* The second authenticate; the config may be gone from the registry.      *)
Confirmed(c) ==
  /\ c.at = "confirming" /\ Ends(c)
  /\ \E ok \in Answers(c) :
       /\ Sets(c.a, IF ok /\ Registered(c.a) THEN "active" ELSE "error")
       /\ isActive' = IF ok /\ Registered(c.a)
                      THEN [isActive EXCEPT ![held[IntegrationOf[c.a]]] = TRUE] ELSE isActive
  /\ UNCHANGED <<held, session, openOnes, counted, overtaken>>

-----------------------------------------------------------------------------
(* deactivate_integration and remove_integration: close the session there  *)
(* is, which need not be the one an activation has its request on.         *)
Disconnect(a, what) ==
  /\ Holding(a)
  /\ openOnes' = openOnes \ {<<a, session[a]>>}
  /\ Begin(what, a, "closing", session[a], {})
  /\ overtaken' = IF \E c \in calls : c.a = a /\ c.at = "confirming" /\ c.s # session[a]
                  THEN overtaken \cup {a} ELSE overtaken
  /\ UNCHANGED <<held, session, status, counted, isActive>>

Deactivated(c) ==
  /\ c.what = "deactivate" /\ c.at = "closing" /\ Ends(c)
  /\ Sets(c.a, "inactive")
  /\ isActive' = IF Registered(c.a) THEN [isActive EXCEPT ![held[IntegrationOf[c.a]]] = FALSE] ELSE isActive
  /\ UNCHANGED <<held, session, openOnes, counted, overtaken>>

Removed(c) ==
  /\ c.what = "remove" /\ c.at = "closing" /\ Ends(c)
  /\ Sets(c.a, "disconnected")
  /\ held' = [i \in DOMAIN held \ {IntegrationOf[c.a]} |-> held[i]]
  /\ UNCHANGED <<session, openOnes, counted, isActive, overtaken>>

-----------------------------------------------------------------------------
(* sync_all takes the list of the active adapters, and syncs one after the *)
(* other, whatever has become of the later ones by then.                   *)
SyncAll ==
  /\ LET active == {a \in Adapters : Holding(a) /\ status[a] = "active"}
     IN  \E a \in active : Begin("sync", a, "syncing", session[a], active \ {a})
  /\ UNCHANGED <<held, session, openOnes, status, counted, isActive, overtaken>>

SyncsNext(c) ==
  IF c.rest = {} THEN Ends(c)
  ELSE /\ \E a \in c.rest :
            calls' = (calls \ {c}) \cup {[c EXCEPT !.a = a, !.s = session[a], !.rest = c.rest \ {a}]}
       /\ UNCHANGED started

(* Slack: an answer, also one that is not ok, is a success; a request that *)
(* raises, on a closed session or for the network, counts as an error.     *)
SlackSynced(c) ==
  /\ KindOf[c.a] = "slack"
  /\ \E answered \in Answers(c) : Count(c.a, answered)

(* Jira: _sync_metadata swallows every error, and sync is a success.       *)
JiraSynced(c) == KindOf[c.a] = "jira" /\ Count(c.a, TRUE)

(* ServiceNow: the same with _sync_tables.                                 *)
ServiceNowSynced(c) == KindOf[c.a] = "servicenow" /\ Count(c.a, TRUE)

Synced(c) ==
  /\ c.at = "syncing" /\ SyncsNext(c)
  /\ SlackSynced(c) \/ JiraSynced(c) \/ ServiceNowSynced(c)
  /\ UNCHANGED <<held, session, openOnes, status, isActive, overtaken>>

(* send_data, when it makes a request: without its fields, or of a project *)
(* that Jira does not know, it returns at once. Slack may have to look the *)
(* channel up first.                                                       *)
Send(a) ==
  /\ Holding(a)
  /\ \E at \in {"resolving", "sending"} :
       /\ at = "resolving" => KindOf[a] = "slack"
       /\ Begin("send", a, at, session[a], {})
  /\ UNCHANGED <<held, session, openOnes, status, counted, isActive, overtaken>>

(* _get_channel_id; a channel that is not found is not counted.            *)
LookedUp(c) ==
  /\ c.at = "resolving"
  /\ \E ok \in Answers(c) : IF ok THEN Goes(c, "sending") ELSE Ends(c)
  /\ UNCHANGED <<held, session, openOnes, status, counted, isActive, overtaken>>

(* The post to Slack, or _create_issue, _update_issue, _create_record,     *)
(* _update_record: any answer but the expected one counts as an error.     *)
Sent(c) ==
  /\ c.at = "sending" /\ Ends(c)
  /\ \E ok \in Answers(c) : Count(c.a, ok)
  /\ UNCHANGED <<held, session, openOnes, status, isActive, overtaken>>

IntegrationsNext ==
  \/ \E a \in Adapters :
       \/ Create(a) \/ Activate(a) \/ Send(a)
       \/ Disconnect(a, "deactivate") \/ Disconnect(a, "remove")
  \/ SyncAll
  \/ \E c \in calls :
       \/ Created(c) \/ Connecting(c) \/ Fetched(c) \/ Confirmed(c)
       \/ Deactivated(c) \/ Removed(c) \/ Synced(c) \/ LookedUp(c) \/ Sent(c)

-----------------------------------------------------------------------------
Idle(a) == \A c \in calls : c.a # a

IntegrationsTypeOK ==
  /\ \A i \in DOMAIN held : held[i] \in Adapters /\ IntegrationOf[held[i]] = i
  /\ \A s \in openOnes : s[2] \in 1..session[s[1]]
  /\ counted \in [Adapters -> [ok : Nat, bad : Nat]]

(* Once its calls are over, an adapter that the registry gives out as      *)
(* active has an open session, whatever was interleaved, with one          *)
(* exception: of two activations at a time the second may have left its    *)
(* session to be closed while the first still waited for an answer on the  *)
(* session before it.                                                      *)
ActiveIsConnected ==
  \A a \in Adapters \ overtaken :
    Holding(a) /\ Idle(a) /\ status[a] = "active" => <<a, session[a]>> \in openOnes

(* An adapter whose config has no get_secret is never kept and never       *)
(* counts a success.                                                       *)
SecretsNeeded ==
  \A a \in Adapters \ WithSecrets : ~Holding(a) /\ counted[a].ok = 0
=============================================================================
