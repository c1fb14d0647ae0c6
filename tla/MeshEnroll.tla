----------------------------- MODULE MeshEnroll -----------------------------
(***************************************************************************)
(* Joining a host to the mesh (mesh/index.js, core/src/portal/enroll.js):   *)
(* the one-time provisioning of the control plane, the enrolment of a       *)
(* device, the install script its host fetches, the teardown, and the lap   *)
(* that proves the wire.  The control plane (Pangolin) and the vault may    *)
(* refuse any call.                                                         *)
(***************************************************************************)
EXTENDS Integers, FiniteSets

CONSTANTS
  Enrols,      \* requests to enrol the device
  MaxCodes,    \* bound: live enrolment codes
  MaxPasswords \* bound: passwords and site secrets generated

VARIABLES
  cloud,     \* the control plane: admin password, org, identity provider, site, host client, resources
  safe,      \* the vault: the admin's password, and the site's two credentials
  made,      \* passwords and secrets generated so far
  prov,      \* asmltr mesh provision: where it is, with the password it set
  listed,    \* the device's row exists
  wire,      \* its ssh and rd transports
  codes,     \* live enrolment codes
  enrol,     \* each request: where it is, its report, its site's secret, a teardown crossed it
  newt,      \* the secret its newt runs with (0: not installed)
  down       \* the teardown: where it is, and the resources it reported removed

vars == <<cloud, safe, made, prov, listed, wire, codes, enrol, newt, down>>
registry == <<listed, wire, codes>>

Wires == {"ssh", "rd"}
Secrets == 0..MaxPasswords

TypeOK ==
  /\ cloud.admin \in Secrets /\ cloud.site \in Secrets /\ cloud.idp \in {"none", "pending", "real"}
  /\ cloud.org \in BOOLEAN /\ cloud.linked \in BOOLEAN /\ cloud.client \in BOOLEAN
  /\ cloud.resources \subseteq Wires
  /\ safe \in [admin : Secrets, newtId : Secrets, newtSecret : Secrets]
  /\ made \in Secrets /\ prov.at \in {"idle", "store", "org", "idp", "client", "done"}
  /\ listed \in BOOLEAN /\ wire \in [Wires -> {"none", "live", "revoked"}] /\ codes \in 0..MaxCodes
  /\ \A e \in Enrols : /\ enrol[e].at \in {"idle", "site", "id", "secret", "host", "ssh", "rd", "done"}
                       /\ enrol[e].status \in {"ok", "degraded"}
  /\ newt \in Secrets /\ down.at \in {"idle", "vault", "cli", "drop", "done"} /\ down.removed \subseteq Wires

Init ==
  /\ cloud = [admin |-> 0, org |-> FALSE, idp |-> "none", linked |-> FALSE, site |-> 0,
              client |-> FALSE, resources |-> {}]
  /\ safe = [admin |-> 0, newtId |-> 0, newtSecret |-> 0] /\ made = 0
  /\ prov = [at |-> "idle", set |-> 0]
  /\ listed = FALSE /\ wire = [w \in Wires |-> "none"] /\ codes = 0
  /\ enrol = [e \in Enrols |-> [at |-> "idle", status |-> "ok", site |-> 0, crossed |-> FALSE]]
  /\ newt = 0 /\ down = [at |-> "idle", removed |-> {}]

\* Every call logs in first, with the password in the vault.
adminClient == safe.admin # 0 /\ safe.admin = cloud.admin

---------------------------------------------------------------------------
(* Provisioning: each step is skipped when its result is there already.     *)

\* A stored password that no longer opens the control plane is replaced.
ensureAdmin ==
  /\ prov.at \in {"idle", "done"}
  /\ \/ adminClient /\ prov' = [at |-> "org", set |-> 0] /\ UNCHANGED <<cloud, made>>
     \/ /\ ~adminClient /\ made < MaxPasswords /\ made' = made + 1
        /\ cloud' = [cloud EXCEPT !.admin = made + 1]
        /\ prov' = [at |-> "store", set |-> made + 1]
  /\ UNCHANGED <<safe, registry, enrol, newt, down>>

\* The password goes to the vault only after the control plane has it.
storeAdmin ==
  /\ prov.at = "store" /\ prov' = [prov EXCEPT !.at = "org"]
  /\ safe' = [safe EXCEPT !.admin = prov.set]
  /\ UNCHANGED <<cloud, made, registry, enrol, newt, down>>

ensureOrg ==
  /\ prov.at = "org" /\ adminClient /\ prov' = [prov EXCEPT !.at = "idp"] /\ cloud' = [cloud EXCEPT !.org = TRUE]
  /\ UNCHANGED <<safe, made, registry, enrol, newt, down>>

\* An identity provider found by name is only linked; a new one starts with placeholder
\* credentials, replaced once the core's own client is registered.
ensureOidc ==
  /\ \/ /\ prov.at = "idp" /\ cloud.idp # "none" /\ prov' = [prov EXCEPT !.at = "done"]
        /\ cloud' = [cloud EXCEPT !.linked = TRUE]
     \/ /\ prov.at = "idp" /\ cloud.idp = "none" /\ prov' = [prov EXCEPT !.at = "client"]
        /\ cloud' = [cloud EXCEPT !.idp = "pending"]
     \/ /\ prov.at = "client" /\ prov' = [prov EXCEPT !.at = "done"]
        /\ \E i \in {"pending", "real"} : cloud' = [cloud EXCEPT !.idp = i, !.linked = TRUE]
  /\ UNCHANGED <<safe, made, registry, enrol, newt, down>>

\* A refused call, or a Ctrl-C, ends the command where it is.
ProvisionStops ==
  /\ prov.at \notin {"idle", "done"} /\ prov' = [prov EXCEPT !.at = "idle"]
  /\ UNCHANGED <<cloud, safe, made, registry, enrol, newt, down>>

---------------------------------------------------------------------------
(* Enrolment.                                                               *)

\* A transport's row after an upsert: one that was revoked stays revoked.
Upserted(w) == IF wire[w] = "none" THEN "live" ELSE wire[w]

\* The device's row, its two transports and a code, all before the mesh is asked anything.
enroll(e) ==
  /\ enrol[e].at \in {"idle", "done"} /\ listed' = TRUE /\ wire' = [w \in Wires |-> Upserted(w)]
  /\ codes < MaxCodes /\ codes' = codes + 1
  /\ enrol' = [enrol EXCEPT ![e] = [at |-> "site", status |-> "ok", site |-> 0,
                                    crossed |-> down.at \notin {"idle", "done"}]]
  /\ UNCHANGED <<cloud, safe, made, prov, newt, down>>

\* A failed step of the mesh is reported, and the next one is tried.
Degraded_Silent(r) == r
Degraded(r) == [r EXCEPT !.status = "degraded"]

\* The site's newt credentials exist once, in the answer that made the site.
enrollSite(e) ==
  /\ enrol[e].at = "site"
  /\ \/ /\ adminClient /\ cloud.site # 0 /\ enrol' = [enrol EXCEPT ![e].at = "host"]
        /\ UNCHANGED <<cloud, made>>
     \/ /\ adminClient /\ cloud.site = 0 /\ made < MaxPasswords /\ made' = made + 1
        /\ cloud' = [cloud EXCEPT !.site = made + 1]
        /\ enrol' = [enrol EXCEPT ![e] = [@ EXCEPT !.at = "id", !.site = made + 1]]
     \/ /\ enrol' = [enrol EXCEPT ![e] = Degraded([@ EXCEPT !.at = "host", !.site = -1])]
        /\ UNCHANGED <<cloud, made>>
  /\ UNCHANGED <<safe, prov, registry, newt, down>>

\* They are stored one after the other; a vault that refuses ends the step.
vaultPut(e) ==
  /\ enrol[e].at \in {"id", "secret"}
  /\ \/ /\ enrol[e].at = "id" /\ enrol' = [enrol EXCEPT ![e].at = "secret"]
        /\ safe' = [safe EXCEPT !.newtId = enrol[e].site]
     \/ /\ enrol[e].at = "secret" /\ enrol' = [enrol EXCEPT ![e].at = "host"]
        /\ safe' = [safe EXCEPT !.newtSecret = enrol[e].site]
     \/ /\ enrol' = [enrol EXCEPT ![e] = Degraded([@ EXCEPT !.at = "host", !.site = -1])]
        /\ UNCHANGED safe
  /\ UNCHANGED <<cloud, made, prov, registry, newt, down>>

\* The client this host reaches devices with, found by name or created; a vault that refuses the
\* credentials of the one just made fails the step, and the client stays.
ensureHostClient(e) ==
  /\ enrol[e].at = "host"
  /\ \/ /\ adminClient /\ cloud' = [cloud EXCEPT !.client = TRUE]
        /\ enrol' = [enrol EXCEPT ![e].at = "ssh"]
     \/ /\ adminClient /\ ~cloud.client /\ cloud' = [cloud EXCEPT !.client = TRUE]
        /\ enrol' = [enrol EXCEPT ![e] = Degraded([@ EXCEPT !.at = "ssh"])]
     \/ enrol' = [enrol EXCEPT ![e] = Degraded([@ EXCEPT !.at = "ssh"])] /\ UNCHANGED cloud
  /\ UNCHANGED <<safe, made, prov, registry, newt, down>>

\* One resource per transport, on the site; none without it.
addResource(e) ==
  /\ enrol[e].at \in Wires
  /\ LET next == IF enrol[e].at = "ssh" THEN "rd" ELSE "done" IN
       \/ /\ enrol[e].site # -1 /\ adminClient /\ cloud.site # 0
          /\ cloud' = [cloud EXCEPT !.resources = @ \cup {enrol[e].at}]
          /\ enrol' = [enrol EXCEPT ![e].at = next]
       \/ enrol' = [enrol EXCEPT ![e] = Degraded([@ EXCEPT !.at = next])] /\ UNCHANGED cloud
  /\ UNCHANGED <<safe, made, prov, registry, newt, down>>

\* The script a host fetches: for a live code, with both credentials in the vault.  It installs
\* newt as a service of the system, and may be fetched again.
installPlan ==
  /\ codes > 0 /\ listed /\ safe.newtId # 0 /\ safe.newtSecret # 0 /\ newt' = safe.newtSecret
  /\ UNCHANGED <<cloud, safe, made, prov, registry, enrol, down>>

ExpireCode ==
  /\ codes > 0 /\ codes' = codes - 1
  /\ UNCHANGED <<cloud, safe, made, prov, listed, wire, enrol, newt, down>>

\* The success banner over ssh: the wire, the resource, the client and a newt that connects.
victoryLap ==
  /\ wire["ssh"] = "live" /\ "ssh" \in cloud.resources /\ cloud.client
  /\ newt # 0 /\ newt = cloud.site /\ UNCHANGED vars

---------------------------------------------------------------------------
(* Teardown and revocation.                                                 *)

Revoked == [w \in Wires |-> IF wire[w] = "none" THEN "none" ELSE "revoked"]

\* The transports are revoked at once; the vault, the resources and the rows follow.
teardown ==
  /\ down.at \in {"idle", "done"} /\ down' = [at |-> "vault", removed |-> {}] /\ wire' = Revoked
  /\ enrol' = [e \in Enrols |-> [enrol[e] EXCEPT !.crossed = TRUE]]
  /\ UNCHANGED <<cloud, safe, made, prov, listed, codes, newt>>

\* `asmltr mesh resource ... --remove`: without ports the command prints its usage and exits 0.
meshCli ==
  /\ \/ down.at = "vault" /\ down' = [down EXCEPT !.at = "cli"]
     \/ /\ down.at = "cli" /\ \E done \in {{}, Wires} : down' = [at |-> "drop", removed |-> done]
  /\ UNCHANGED <<cloud, safe, made, prov, registry, enrol, newt>>

\* The rows of the transports go; the uninstall command is typed on the host, or is not.
dropTransports ==
  /\ down.at = "drop" /\ down' = [down EXCEPT !.at = "done"] /\ wire' = [w \in Wires |-> "none"]
  /\ newt' \in {0, newt}
  /\ UNCHANGED <<cloud, safe, made, prov, listed, codes, enrol>>

\* An operator revokes the device.
revoke ==
  /\ listed /\ wire' = Revoked
  /\ UNCHANGED <<cloud, safe, made, prov, listed, codes, enrol, newt, down>>

Next ==
  \/ ensureAdmin \/ storeAdmin \/ ensureOrg \/ ensureOidc \/ ProvisionStops
  \/ \E e \in Enrols : \/ enroll(e) \/ enrollSite(e) \/ vaultPut(e) \/ ensureHostClient(e)
                       \/ addResource(e)
  \/ installPlan \/ ExpireCode \/ victoryLap \/ teardown \/ meshCli \/ dropTransports \/ revoke

Spec == Init /\ [][Next]_vars

---------------------------------------------------------------------------
\* An enrolment that reports ok left its site, the host's client and both resources.
StatusIsHonest ==
  \A e \in Enrols : enrol[e].at = "done" /\ enrol[e].status = "ok" =>
    cloud.site # 0 /\ cloud.client /\ cloud.resources = Wires

\* Whatever the mesh refuses, the device is in the fleet with both transports, unless a
\* teardown crossed the enrolment.
LandsInFleet ==
  \A e \in Enrols : enrol[e].at # "idle" /\ ~enrol[e].crossed =>
    listed /\ \A w \in Wires : wire[w] # "none"

\* What the teardown reports removed is gone.
TeardownRemoves == down.at = "done" => down.removed \cap cloud.resources = {}

\* An enrolment that ended without fault leaves a script to fetch.
ScriptServed ==
  \A e \in Enrols : enrol[e].at = "done" /\ enrol[e].status = "ok" => safe.newtSecret = cloud.site

\* A provisioned identity provider signs people in.
IdpSignsIn == prov.at = "done" => cloud.idp = "real"
=============================================================================
