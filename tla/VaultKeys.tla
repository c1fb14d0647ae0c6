------------------------------ MODULE VaultKeys ------------------------------
(***************************************************************************)
(* The assistant's credentials: the TRUST vault (a service of its own, seen *)
(* through shared/vault.js), the resolver that caches what it answers       *)
(* (shared/secrets.js) for the integrations, the speech providers and the   *)
(* connectors, the API keys of the reasoning engines (shared/engines.js),   *)
(* and the command that registers the assistant with the vault              *)
(* (`asmltr vault init`).  The vault keeps its passphrase in memory only:   *)
(* it is sealed after every restart until somebody unseals it.              *)
(***************************************************************************)
EXTENDS Integers, FiniteSets

CONSTANTS
  Users,     \* the core's tasks that look a credential up, each once per start
  Values,    \* what a credential may hold; 0 is "none"
  MaxActs,   \* bound: what people do to credentials
  MaxFaults  \* bound: restarts and seals of the vault, crashes, failed calls

VARIABLES
  sealed,    \* the vault holds no passphrase
  held,      \* the vault's value of a credential some *_ref names
  engineKey, \* the vault's value of engine_<id>_api_key
  cache,     \* the resolver's cache of it, or Unset
  lookups,   \* per user: its lookup and what it got from the vault
  config,    \* engines.json of one engine: authMode, apiKeyStored, and (history) whether the page
             \* stated the flag itself
  changes,   \* PUT and DELETE of the engine's key on their way
  launched,  \* what the last launch in api_key mode was given
  agent,     \* the assistant's agent at the vault: none, NOVICE or SACRED
  init,      \* the step of `asmltr vault init`
  envKey,    \* ASMLTR_VAULT_AGENT_KEY is in .env
  accepted,  \* history: the vault accepted a key for the engine
  acts,
  faults

vars == <<sealed, held, engineKey, cache, lookups, config, changes, launched, agent,
          init, envKey, accepted, acts, faults>>

Unset == -1
Idle == [step |-> "idle", got |-> 0, fresh |-> TRUE]
NoKey == [mode |-> "subscription", stored |-> FALSE, patched |-> FALSE]
Change == [op : {"set", "clear"}, value : Values \cup {0}, step : {"vault", "config"}]

TypeOK ==
  /\ sealed \in BOOLEAN /\ accepted \in BOOLEAN /\ envKey \in BOOLEAN
  /\ held \in Values \cup {0} /\ engineKey \in Values \cup {0}
  /\ cache \in Values \cup {0, Unset}
  /\ \A u \in Users : /\ lookups[u].step \in {"idle", "asking", "answered", "done"}
                      /\ lookups[u].got \in Values \cup {0}
  /\ config.mode \in {"subscription", "api_key"} /\ config.stored \in BOOLEAN /\ config.patched \in BOOLEAN
  /\ changes \subseteq Change
  /\ launched \in Values \cup {0, Unset}
  /\ agent \in {"none", "NOVICE", "SACRED"}
  /\ init \in {"none", "list", "register", "promote", "persist"}

Init ==
  /\ sealed \in BOOLEAN /\ held \in Values \cup {0} /\ engineKey = 0
  /\ cache = Unset /\ lookups = [u \in Users |-> Idle]
  /\ config = NoKey /\ changes = {}
  /\ launched = Unset
  /\ agent = "none" /\ init = "none" /\ envKey = FALSE
  /\ accepted = FALSE /\ acts = 0 /\ faults = 0

Act == acts < MaxActs /\ acts' = acts + 1
Fault == faults < MaxFaults /\ faults' = faults + 1
Vault == <<sealed, held, engineKey>>
Resolver == <<cache, lookups>>
Engine == <<config, changes, launched, accepted>>
Agent == <<agent, init, envKey>>

---------------------------------------------------------------------------
(* The vault.                                                               *)

unseal ==
  /\ sealed /\ sealed' = FALSE
  /\ lookups' = [u \in Users |-> [lookups[u] EXCEPT !.fresh = FALSE]]
  /\ UNCHANGED <<held, engineKey, cache, Engine, Agent, acts, faults>>

(* sealed by hand, or restarted *)
seal ==
  /\ Fault /\ ~sealed /\ sealed' = TRUE
  /\ lookups' = [u \in Users |-> [lookups[u] EXCEPT !.fresh = FALSE]]
  /\ UNCHANGED <<held, engineKey, cache, Engine, Agent, acts>>

(* the Vault page and the Integrations form: POST and DELETE /v2/vault/secrets *)
storeSecret(v) ==
  /\ Act /\ ~sealed /\ v # held /\ held' = v
  /\ lookups' = [u \in Users |-> [lookups[u] EXCEPT !.fresh = FALSE]]
  /\ UNCHANGED <<sealed, engineKey, cache, Engine, Agent, faults>>

deleteSecret ==
  /\ held # 0 /\ storeSecret(0)

---------------------------------------------------------------------------
(* secrets.get: the cache, the vault, and whatever came back cached.  "fresh" *)
(* is a history variable: nothing changed at the vault during the lookup.     *)

get(u) ==
  /\ lookups[u].step = "idle"
  /\ lookups' = [lookups EXCEPT ![u] =
       IF cache # Unset THEN [step |-> "answered", got |-> cache, fresh |-> TRUE]
       ELSE [Idle EXCEPT !.step = "asking"]]
  /\ UNCHANGED <<Vault, cache, Engine, Agent, acts, faults>>

(* getSecret: the proxy token and its exchange; a sealed or failing vault is *)
(* taken for "not in the vault"                                              *)
Fetched == IF sealed THEN 0 ELSE held
getSecret(u) ==
  /\ lookups[u].step = "asking"
  /\ lookups' = [lookups EXCEPT ![u].step = "answered", ![u].got = Fetched]
  /\ UNCHANGED <<Vault, cache, Engine, Agent, acts, faults>>

getSecretFails(u) ==
  /\ Fault /\ lookups[u].step = "asking"
  /\ lookups' = [lookups EXCEPT ![u] = [@ EXCEPT !.step = "answered", !.got = 0, !.fresh = FALSE]]
  /\ UNCHANGED <<Vault, cache, Engine, Agent, acts>>

(* resolveConfig hands the value to the driver, the speech provider, ...     *)
resolved(u) ==
  /\ lookups[u].step = "answered"
  /\ cache' = lookups[u].got
  /\ lookups' = [lookups EXCEPT ![u].step = "done"]
  /\ UNCHANGED <<Vault, Engine, Agent, acts, faults>>

(* the core restarts: an empty cache, and every change on its way ends where it is *)
restart ==
  /\ Fault /\ cache' = Unset /\ lookups' = [u \in Users |-> Idle] /\ changes' = {}
  /\ UNCHANGED <<Vault, config, launched, accepted, Agent, acts>>

---------------------------------------------------------------------------
(* The API key of an engine.                                                *)

(* PUT and DELETE /v2/engines/:id/apikey: nothing keeps two of them apart *)
keyChange(op, v) ==
  /\ Act /\ changes' = changes \cup {[op |-> op, value |-> v, step |-> "vault"]}
  /\ UNCHANGED <<Vault, Resolver, config, launched, accepted, Agent, faults>>

Moved(c, s) == (changes \ {c}) \cup {[c EXCEPT !.step = s]}

(* setApiKey: the vault first; when it refuses, the call ends there *)
Refused_GoesOn(c) == Moved(c, "config")
Refused(c) == changes \ {c}
setApiKey(c) ==
  /\ c.op = "set" /\ c.step = "vault"
  /\ IF sealed
     THEN /\ changes' = Refused(c) /\ UNCHANGED <<engineKey, accepted>>
     ELSE /\ engineKey' = c.value /\ accepted' = TRUE /\ changes' = Moved(c, "config")
  /\ UNCHANGED <<sealed, held, Resolver, config, launched, Agent, acts, faults>>

(* clearApiKey: an error of the vault is swallowed *)
clearApiKey(c) ==
  /\ c.op = "clear" /\ c.step = "vault"
  /\ engineKey' = (IF sealed THEN engineKey ELSE 0)
  /\ changes' = Moved(c, "config")
  /\ UNCHANGED <<sealed, held, Resolver, config, launched, accepted, Agent, acts, faults>>

setConfig(c) ==
  /\ c.step = "config" /\ changes' = changes \ {c}
  /\ config' = IF c.op = "set" THEN [mode |-> "api_key", stored |-> TRUE, patched |-> FALSE] ELSE NoKey
  /\ UNCHANGED <<Vault, Resolver, launched, accepted, Agent, acts, faults>>

(* PATCH /v2/engines/:id: whatever the body states, the flag too, and no vault is asked *)
patchConfig(m, stored) ==
  /\ Act /\ config' = [mode |-> m, stored |-> stored, patched |-> TRUE]
  /\ UNCHANGED <<Vault, Resolver, changes, launched, accepted, Agent, faults>>

(* setAuthMode, alone (or a PATCH that states nothing but the mode) *)
setAuthMode(m) ==
  /\ Act /\ config.mode # m /\ config' = [config EXCEPT !.mode = m]
  /\ UNCHANGED <<Vault, Resolver, changes, launched, accepted, Agent, faults>>

(* envForLaunch: no key, no variable; the harness then uses its own login *)
envForLaunch ==
  /\ config.mode = "api_key"
  /\ launched' = (IF config.stored /\ ~sealed THEN engineKey ELSE 0)
  /\ UNCHANGED <<Vault, Resolver, config, changes, accepted, Agent, acts, faults>>

---------------------------------------------------------------------------
(* `asmltr vault init`: ensureAgent, and the key it returns once, into .env. *)

vaultInit ==
  /\ Act /\ init = "none" /\ ~sealed /\ init' = "list"
  /\ UNCHANGED <<Vault, Resolver, Engine, agent, envKey, faults>>

(* an agent of that name is never registered again, and its key never read again *)
listAgents ==
  /\ init = "list"
  /\ init' = (IF agent = "none" THEN "register" ELSE "none")
  /\ UNCHANGED <<Vault, Resolver, Engine, agent, envKey, acts, faults>>

registerAgent ==
  /\ init = "register" /\ init' = "promote" /\ agent' = "NOVICE"
  /\ UNCHANGED <<Vault, Resolver, Engine, envKey, acts, faults>>

(* the answer to the promotion is not looked at; a sealed vault refuses it *)
promoteAgent ==
  /\ init = "promote" /\ init' = "persist"
  /\ agent' = (IF sealed THEN agent ELSE "SACRED")
  /\ UNCHANGED <<Vault, Resolver, Engine, envKey, acts, faults>>

persistKey ==
  /\ init = "persist" /\ init' = "none" /\ envKey' = TRUE
  /\ UNCHANGED <<Vault, Resolver, Engine, agent, acts, faults>>

(* the command is interrupted, or a call of it fails *)
initEnds ==
  /\ Fault /\ init \in {"register", "promote", "persist"} /\ init' = "none"
  /\ UNCHANGED <<Vault, Resolver, Engine, agent, envKey, acts>>

Next ==
  \/ unseal \/ seal \/ deleteSecret \/ restart \/ envForLaunch
  \/ vaultInit \/ listAgents \/ registerAgent \/ promoteAgent \/ persistKey \/ initEnds
  \/ \E v \in Values : storeSecret(v) \/ keyChange("set", v)
  \/ keyChange("clear", 0)
  \/ \E u \in Users : get(u) \/ getSecret(u) \/ getSecretFails(u) \/ resolved(u)
  \/ \E c \in changes : setApiKey(c) \/ clearApiKey(c) \/ setConfig(c)
  \/ \E m \in {"subscription", "api_key"} : \/ setAuthMode(m)
                                            \/ \E stored \in BOOLEAN : patchConfig(m, stored)

Spec == Init /\ [][Next]_vars

---------------------------------------------------------------------------
(* An engine is listed as having a key only after the vault accepted one:   *)
(* a PUT that found the vault sealed leaves the engine as it was.  (A PATCH *)
(* that states the flag is believed, whatever the vault holds.)             *)
FlagFollowsVault == config.stored /\ ~config.patched => accepted

(* A .env with an agent key in it belongs to an agent the vault knows.      *)
KeyHasItsAgent == envKey => agent # "none"

(* A lookup answers null only when the credential cannot be resolved.       *)
NullMeansUnresolvable ==
  [][\A u \in Users : lookups[u].step = "answered" /\ lookups[u].fresh /\ lookups'[u].step = "done"
       => (lookups[u].got = 0 => (sealed \/ held = 0))]_vars

(* ... and otherwise what the vault holds, after a rotation too.            *)
AnswersTheCurrent ==
  [][\A u \in Users : lookups[u].step = "answered" /\ lookups[u].fresh /\ lookups'[u].step = "done"
       => (lookups[u].got # 0 => lookups[u].got = held)]_vars

(* An engine listed as having a key has one.                                *)
FlagMeansKey == config.stored /\ changes = {} => engineKey # 0

(* A key that was cleared is gone from the vault.                           *)
ClearedIsGone == ~config.stored /\ changes = {} => engineKey = 0

(* A turn of an engine set to its API key is billed to that key.            *)
KeyModePaysByKey == [][(launched' # launched) /\ config.stored /\ engineKey # 0 => launched' = engineKey]_vars

(* After a finished `vault init`, the assistant has its SACRED agent, and   *)
(* its key.                                                                 *)
InitIsDone ==
  [][(init \in {"list", "persist"}) /\ init' = "none" => agent' = "SACRED" /\ envKey']_vars
=============================================================================
