------------------------------- MODULE Trust -------------------------------
(***************************************************************************)
(* The trust store (core/src/trust/store.js) and the routes the Access page *)
(* edits it with: who a sender is, and what the grants and roles bound to   *)
(* that principal allow and forbid.  Foreign keys are enforced: deleting a  *)
(* principal takes its identifiers, grants and engagement rows along, and   *)
(* deleting a role leaves its grants without it.                            *)
(***************************************************************************)
EXTENDS Integers

CONSTANTS
  Principals, Roles,
  Seeded,      \* the principals a new store is seeded with (seed.js)
  Surfaces,    \* channels; a grant or an engagement row is scoped to one, or global
  Grants,      \* row ids of the grants table
  MaxEdits     \* bound: edits of the store

VARIABLES
  principal,   \* "absent", "active" or "revoked"
  identifier,  \* (surface, value) -> principal, or "nobody"
  role,        \* the bundle of each role, or Absent
  grant,       \* rows of the grants table, or Absent
  engagement,  \* rows of the engagement table
  edits

vars == <<principal, identifier, role, grant, engagement, edits>>

\* What a role or a grant says of one capability.
Bundle(allow, forbid, bypass) == [allow |-> allow, forbid |-> forbid, bypass |-> bypass]
Bundles == {Bundle(TRUE, FALSE, FALSE), Bundle(FALSE, TRUE, FALSE), Bundle(FALSE, FALSE, TRUE)}
Nothing == Bundle(FALSE, FALSE, FALSE)
Absent == <<>>  \* no such row

Scopes == Surfaces \cup {"global"}
Values == {"id", "username"}
Identifiers == Surfaces \X Values
GrantRows == [of : Principals, role : Roles \cup {"none"}, scope : Scopes,
              says : Bundles \cup {Nothing}]
EngagementRows == [id : 1..MaxEdits, of : Principals, scope : Scopes, policy : {"engage", "ignore"}]

TypeOK ==
  /\ principal \in [Principals -> {"absent", "active", "revoked"}]
  /\ identifier \in [Identifiers -> Principals \cup {"nobody"}]
  /\ role \in [Roles -> Bundles \cup {Absent}]
  /\ grant \in [Grants -> GrantRows \cup {Absent}]
  /\ engagement \subseteq EngagementRows

Init ==
  /\ principal = [p \in Principals |-> IF p \in Seeded THEN "active" ELSE "absent"]
  /\ identifier = [i \in Identifiers |-> "nobody"]
  /\ role = [k \in Roles |-> Absent]
  /\ grant = [g \in Grants |-> Absent]
  /\ engagement = {}
  /\ edits = 0

Exists(p) == principal[p] # "absent"
Edit == edits < MaxEdits /\ edits' = edits + 1

---------------------------------------------------------------------------
(* Resolution: what the store makes of a sender.                            *)

InScope(row, s) == row.scope \in {"global", s}

\* The id is looked up before the username.
PrincipalOf(s, presented) ==
  IF "id" \in presented /\ identifier[<<s, "id">>] # "nobody" THEN identifier[<<s, "id">>]
  ELSE IF "username" \in presented THEN identifier[<<s, "username">>] ELSE "nobody"

\* The rows that speak for p on surface s: its grants in scope, and their roles.
Sources(p, s) ==
  LET rows == {grant[g] : g \in {h \in Grants : grant[h] # Absent}}
      mine == {r \in rows : r.of = p /\ InScope(r, s)}
  IN {r.says : r \in mine} \cup {role[r.role] : r \in {x \in mine : x.role # "none"}}

resolve(s, presented) ==
  LET p == PrincipalOf(s, presented) IN
    IF p = "nobody" THEN Nothing
    ELSE IF principal[p] = "revoked" THEN Bundle(FALSE, TRUE, FALSE)
    ELSE LET says == Sources(p, s) IN
           Bundle(\E b \in says : b.allow, \E b \in says : b.forbid, \E b \in says : b.bypass)

\* engagement.policy: the first row of the most specific scope.
policy(p, s) ==
  LET of(scope) == {r \in engagement : r.of = p /\ r.scope = scope}
      First(rows) == CHOOSE r \in rows : \A x \in rows : r.id <= x.id
  IN IF of(s) # {} THEN First(of(s)).policy
     ELSE IF of("global") # {} THEN First(of("global")).policy ELSE "engage"

---------------------------------------------------------------------------
(* The edits.                                                               *)

\* The foreign keys of a deleted principal.
Cascade(p, idents, grants) ==
  /\ identifier' = [i \in Identifiers |-> IF idents[i] = p THEN "nobody" ELSE idents[i]]
  /\ grant' = [g \in Grants |->
       IF grants[g] # Absent /\ grants[g].of = p THEN Absent ELSE grants[g]]
  /\ engagement' = {r \in engagement : r.of # p}

create(p, revoked) ==
  /\ ~Exists(p) /\ Edit
  /\ principal' = [principal EXCEPT ![p] = IF revoked THEN "revoked" ELSE "active"]
  /\ UNCHANGED <<identifier, role, grant, engagement>>

update(p, revoked) ==
  /\ Exists(p) /\ Edit
  /\ principal' = [principal EXCEPT ![p] = IF revoked THEN "revoked" ELSE "active"]
  /\ UNCHANGED <<identifier, role, grant, engagement>>

remove(p) ==
  /\ Exists(p) /\ Edit
  /\ principal' = [principal EXCEPT ![p] = "absent"]
  /\ Cascade(p, identifier, grant)
  /\ UNCHANGED role

\* The rows of the source, handed to the target.
MovedIdentifiers(src, tgt) ==
  [i \in Identifiers |-> IF identifier[i] = src THEN tgt ELSE identifier[i]]
MovedGrants_Left(src, tgt) == grant
MovedGrants(src, tgt) ==
  [g \in Grants |-> IF grant[g] # Absent /\ grant[g].of = src
                    THEN [grant[g] EXCEPT !.of = tgt] ELSE grant[g]]

\* One transaction: move the identifiers and the grants, then delete the source.
merge(src, tgt) ==
  /\ src # tgt /\ Exists(src) /\ Exists(tgt) /\ Edit
  /\ principal' = [principal EXCEPT ![src] = "absent"]
  /\ Cascade(src, MovedIdentifiers(src, tgt), MovedGrants(src, tgt))
  /\ UNCHANGED role

\* INSERT OR REPLACE: a handle given to somebody is taken from whoever had it.
addIdentifier(p, i) ==
  /\ Exists(p) /\ Edit
  /\ identifier' = [identifier EXCEPT ![i] = p]
  /\ UNCHANGED <<principal, role, grant, engagement>>

removeIdentifier(i) ==
  /\ identifier[i] # "nobody" /\ Edit
  /\ identifier' = [identifier EXCEPT ![i] = "nobody"]
  /\ UNCHANGED <<principal, role, grant, engagement>>

upsertRole(k, b) ==
  /\ Edit
  /\ role' = [role EXCEPT ![k] = b]
  /\ UNCHANGED <<principal, identifier, grant, engagement>>

GrantsWithout_Dangling(k) == grant
\* ON DELETE SET NULL: the grants stay, without what the role said.
GrantsWithout(k) ==
  [g \in Grants |-> IF grant[g] # Absent /\ grant[g].role = k
                    THEN [grant[g] EXCEPT !.role = "none"] ELSE grant[g]]

removeRole(k) ==
  /\ role[k] # Absent /\ Edit
  /\ role' = [role EXCEPT ![k] = Absent]
  /\ grant' = GrantsWithout(k)
  /\ UNCHANGED <<principal, identifier, engagement>>

createGrant(g, row) ==
  /\ grant[g] = Absent /\ Exists(row.of) /\ Edit
  /\ row.role # "none" => role[row.role] # Absent
  /\ (row.role = "none") = (row.says # Nothing)
  /\ grant' = [grant EXCEPT ![g] = row]
  /\ UNCHANGED <<principal, identifier, role, engagement>>

removeGrant(g) ==
  /\ grant[g] # Absent /\ Edit
  /\ grant' = [grant EXCEPT ![g] = Absent]
  /\ UNCHANGED <<principal, identifier, role, engagement>>

\* Ids grow: a new row comes after those that are there.
setEngagement(row) ==
  /\ Exists(row.of) /\ Edit /\ row.id = edits'
  /\ engagement' = engagement \cup {row}
  /\ UNCHANGED <<principal, identifier, role, grant>>

removeEngagement(row) ==
  /\ Edit
  /\ engagement' = engagement \ {row}
  /\ UNCHANGED <<principal, identifier, role, grant>>

Next ==
  \/ \E p \in Principals, b \in BOOLEAN : create(p, b) \/ update(p, b)
  \/ \E p \in Principals : remove(p)
  \/ \E p, q \in Principals : merge(p, q)
  \/ \E p \in Principals, i \in Identifiers : addIdentifier(p, i)
  \/ \E i \in Identifiers : removeIdentifier(i)
  \/ \E k \in Roles, b \in Bundles : upsertRole(k, b)
  \/ \E k \in Roles : removeRole(k)
  \/ \E g \in Grants, row \in GrantRows : createGrant(g, row)
  \/ \E g \in Grants : removeGrant(g)
  \/ \E row \in EngagementRows : setEngagement(row)
  \/ \E row \in engagement : removeEngagement(row)

Spec == Init /\ [][Next]_vars

---------------------------------------------------------------------------
\* After any sequence of edits, no row speaks for somebody or of a role that is gone.
NoDangling ==
  /\ \A i \in Identifiers : identifier[i] # "nobody" => Exists(identifier[i])
  /\ \A g \in Grants : grant[g] # Absent =>
       Exists(grant[g].of) /\ (grant[g].role # "none" => role[grant[g].role] # Absent)
  /\ \A row \in engagement : Exists(row.of)

\* Merging two records of one person keeps, on every surface and for every handle, all they
\* were allowed and all they were forbidden, unless one of the two was revoked.
MergeLosesNothing ==
  [][\A p, q \in Principals :
       merge(p, q) /\ principal[p] = "active" /\ principal[q] = "active" =>
         \A s \in Surfaces, h \in SUBSET Values :
           LET before == resolve(s, h)
               after == resolve(s, h)' IN
             /\ before.allow => after.allow
             /\ before.forbid => after.forbid
             /\ before.bypass => after.bypass]_vars

\* The newest engagement policy set for a person and scope is the one that holds.
NewestPolicyHolds ==
  \A row \in engagement, s \in Surfaces :
    row.scope = s /\ (\A x \in engagement : x.id > row.id => x.of # row.of)
      => policy(row.of, s) = row.policy
=============================================================================
