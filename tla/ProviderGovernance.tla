------------------------- MODULE ProviderGovernance -------------------------
(***************************************************************************)
(* The provider catalog: what the operator trusts, what the database has   *)
(* registered, what an organization allows and prefers, and the requests   *)
(* that change and use it.                                                 *)
(*                                                                         *)
(* A provider is trusted by a process when the configuration the process   *)
(* loaded at its start names it; an identity stands for the fingerprints   *)
(* of its configuration and manifest.  reconcile_trusted_catalog reads all *)
(* registrations and writes its changes later, column by column, in one    *)
(* transaction; it runs when the API starts and from the command line.     *)
(* Handlers of the API read registrations, policies and defaults in        *)
(* separate statements without a lock and write with a comparison of the   *)
(* row's own revision.  Administrators use the web workspace, which pins   *)
(* the revision it showed.  One organization is modelled: every statement  *)
(* of the code is confined to one.                                         *)
(***************************************************************************)
EXTENDS Integers, FiniteSets

CONSTANTS
    Keys,           \* positions of the provider keys in sorted order
    Capabilities,
    Idents,         \* identities: fingerprints of configuration and manifest
    Passing,        \* identities that conform and are compatible
    Offers,         \* the capabilities an identity declares
    Api, Tools,     \* the API process; command line processes
    Users, Admins,  \* members of the organization, its administrators
    NoIdent,        \* a key that is not configured, or not registered
    MaxRevision,    \* bound: registrations, policies and defaults
    MaxIds          \* bound: rows of defaults ever created

ASSUME GovernanceAssumption ==
    /\ Keys \subseteq Nat \ {0}
    /\ Keys \cap Capabilities = {}
    /\ Passing \subseteq Idents
    /\ Offers \in [Idents -> SUBSET Capabilities]
    /\ Api \notin Tools
    /\ Admins \subseteq Users
    /\ NoIdent \notin Idents
    /\ MaxRevision \in Nat /\ MaxIds \in Nat

VARIABLES
    installed,   \* the operator's configuration, key by key
    config,      \* the configuration each process loaded when it started
    recon,       \* the reconciliation each process is in
    regs,        \* TrustedProviderRegistration
    policies,    \* OrganizationProviderPolicy
    defaults,    \* OrganizationCapabilityDefault
    ids,         \* rows of defaults created so far
    req,         \* the request each user has in flight
    pins,        \* the revisions each workspace has pinned
    shown,       \* history: the rows each workspace showed when it pinned
    witnessed    \* history: what was permitted since a request began

govVars == <<installed, config, recon, regs, policies, defaults, ids, req,
             pins, shown, witnessed>>

Procs == {Api} \cup Tools
Items == Keys \cup Capabilities
NoKey == 0
Unpinned == -1

Registration ==
    [ident: Idents \cup {NoIdent}, revision: Nat,
     lifecycle: {"UNRECONCILED", "ACTIVE", "QUARANTINED", "REMOVED"},
     conformance: {"NONE", "PASSED", "FAILED", "DRIFTED", "UNAVAILABLE"}]
Policy == [enabled: BOOLEAN, revision: Nat]
Default == [key: Keys \cup {NoKey}, revision: Nat, id: Nat]

(* A row of revision 0 is one that does not exist: the catalog shows       *)
(* revision 0 and "enabled" for a provider without a policy.               *)
NoRegistration == [ident |-> NoIdent, revision |-> 0,
                   lifecycle |-> "UNRECONCILED", conformance |-> "NONE"]
NoPolicy == [enabled |-> TRUE, revision |-> 0]
NoDefault == [key |-> NoKey, revision |-> 0, id |-> 0]

NoRequest == [op |-> "none", step |-> "none", item |-> NoKey, key |-> NoKey,
              enabled |-> TRUE, expected |-> 0, cands |-> {},
              row |-> NoDefault, shown |-> NoPolicy]

Off == [phase |-> "off", accept |-> FALSE, copy |-> [k \in Keys |-> NoRegistration]]

GovInit ==
    /\ installed \in [Keys -> Idents \cup {NoIdent}]
    /\ config = [p \in Procs |-> [k \in Keys |-> NoIdent]]
    /\ recon = [p \in Procs |-> Off]
    /\ regs = [k \in Keys |-> NoRegistration]
    /\ policies = [k \in Keys |-> NoPolicy]
    /\ defaults = [c \in Capabilities |-> NoDefault]
    /\ ids = 0
    /\ req = [u \in Users |-> NoRequest]
    /\ pins = [u \in Users |-> [i \in Items |-> Unpinned]]
    /\ shown = [u \in Users |-> [i \in Items |-> NoPolicy]]
    /\ witnessed = [u \in Users |-> [trusted |-> {}, enabled |-> {}]]

-----------------------------------------------------------------------------
(* The operator and reconcile_trusted_catalog.                             *)

GovInstall(k, i) ==
    /\ installed[k] # i
    /\ installed' = [installed EXCEPT ![k] = i]
    /\ UNCHANGED <<config, recon, regs, policies, defaults, ids, req, pins,
                   shown>>

(* A process starts with the configuration of that moment.  A restart of   *)
(* the API drops its requests.  The API never accepts drift by itself.     *)
GovBoot(p, accept) ==
    /\ recon[p].phase \in {"off", "up"}
    /\ p = Api => ~accept
    /\ config' = [config EXCEPT ![p] = installed]
    /\ recon' = [recon EXCEPT ![p].phase = "read", ![p].accept = accept]
    /\ req' = IF p = Api THEN [u \in Users |-> NoRequest] ELSE req
    /\ UNCHANGED <<installed, regs, policies, defaults, ids, pins, shown>>

GovReadCatalog(p) ==
    /\ recon[p].phase = "read"
    /\ recon' = [recon EXCEPT ![p].phase = "write", ![p].copy = regs]
    /\ UNCHANGED <<installed, config, regs, policies, defaults, ids, req, pins,
                   shown>>

\* A slip: a lifecycle the resolution does not know.
StandingMisspelled(i) ==
    IF i \in Passing THEN [lifecycle |-> "ENABLED", conformance |-> "PASSED"]
                     ELSE [lifecycle |-> "QUARANTINED", conformance |-> "FAILED"]

Standing(i) ==
    IF i \in Passing THEN [lifecycle |-> "ACTIVE", conformance |-> "PASSED"]
                     ELSE [lifecycle |-> "QUARANTINED", conformance |-> "FAILED"]

\* A slip: a new identity is trusted like the old one.
WantedUnreviewed(old, i, accept) ==
    IF i = NoIdent \/ old.ident = i THEN old
    ELSE [old EXCEPT !.ident = i, !.lifecycle = Standing(i).lifecycle,
                     !.conformance = Standing(i).conformance, !.revision = old.revision + 1]

(* The row reconciliation wants, from the copy it read: identity drift     *)
(* quarantines unless accepted; an unchanged row keeps its revision.       *)
Wanted(old, i, accept) ==
    LET row == CASE i = NoIdent ->
                      [old EXCEPT !.lifecycle = "REMOVED",
                                  !.conformance = "UNAVAILABLE"]
                 [] i # NoIdent /\ old.revision > 0 /\ old.ident # i /\ ~accept ->
                      [old EXCEPT !.lifecycle = "QUARANTINED",
                                  !.conformance = "DRIFTED"]
                 [] OTHER ->
                      [old EXCEPT !.ident = i, !.lifecycle = Standing(i).lifecycle,
                                  !.conformance = Standing(i).conformance]
    IN  IF row = old \/ (i = NoIdent /\ (old.revision = 0 \/ old.lifecycle = "REMOVED"))
        THEN old ELSE [row EXCEPT !.revision = old.revision + 1]

(* The ORM writes the columns the code changed, whatever the row holds by  *)
(* now.                                                                    *)
WriteColumns(row, read, new) ==
    [f \in DOMAIN row |-> IF new[f] = read[f] THEN row[f] ELSE new[f]]

(* Two reconciliations that both found a provider missing: the second      *)
(* insert breaks the primary key and rolls everything back.                *)
InsertsTwice(p) ==
    \E k \in Keys : /\ recon[p].copy[k].revision = 0
                    /\ config[p][k] # NoIdent
                    /\ regs[k].revision > 0

(* A command ends after its reconciliation, the API only if it fails.      *)
Exit(p) ==
    /\ recon' = [recon EXCEPT ![p] = Off]
    /\ config' = [config EXCEPT ![p] = [k \in Keys |-> NoIdent]]

GovReconcile(p) ==
    LET copy == recon[p].copy
        want == [k \in Keys |-> Wanted(copy[k], config[p][k], recon[p].accept)]
    IN  /\ recon[p].phase = "write"
        /\ \A k \in Keys : want[k].revision <= MaxRevision
        /\ IF InsertsTwice(p)
           THEN Exit(p) /\ UNCHANGED regs
           ELSE /\ regs' = [k \in Keys |-> WriteColumns(regs[k], copy[k], want[k])]
                /\ IF p = Api
                   THEN /\ recon' = [recon EXCEPT ![p] = [Off EXCEPT !.phase = "up"]]
                        /\ UNCHANGED config
                   ELSE Exit(p)
        /\ UNCHANGED <<installed, policies, defaults, ids, req, pins,
                       shown>>

-----------------------------------------------------------------------------
(* The workspace.                                                          *)

Serving == recon[Api].phase = "up"

Row(i) == IF i \in Keys THEN policies[i] ELSE defaults[i]

(* A page shows the current row and pins its revision unless it has one    *)
(* pinned already.                                                         *)
GovPin(u, i) ==
    /\ Serving /\ u \in Admins
    /\ req[u].op = "none" /\ pins[u][i] = Unpinned
    /\ pins' = [pins EXCEPT ![u][i] = Row(i).revision]
    /\ shown' = [shown EXCEPT ![u][i] = Row(i)]
    /\ UNCHANGED <<installed, config, recon, regs, policies, defaults, ids, req>>

Send(u, r) ==
    /\ Serving /\ req[u].op = "none"
    /\ req' = [req EXCEPT ![u] = r]
    /\ UNCHANGED <<installed, config, recon, regs, policies, defaults, ids, pins,
                   shown>>

Mutation(u, op, i) ==
    [NoRequest EXCEPT !.op = op, !.step = "sent", !.item = i,
                      !.expected = pins[u][i], !.shown = shown[u][i]]

GovSavePolicy(u, k, enabled) ==
    /\ u \in Admins /\ pins[u][k] # Unpinned
    /\ Send(u, [Mutation(u, "policy", k) EXCEPT !.enabled = enabled])

GovSetDefault(u, c, k) ==
    /\ u \in Admins /\ pins[u][c] # Unpinned
    /\ Send(u, [Mutation(u, "default", c) EXCEPT !.key = k])

GovClearDefault(u, c) ==
    /\ u \in Admins /\ pins[u][c] > 0
    /\ Send(u, Mutation(u, "clear", c))

(* Any member's request that needs a provider, by name or by preference.   *)
GovResolve(u, c, k) ==
    Send(u, [NoRequest EXCEPT !.op = "resolve", !.step = "sent", !.item = c, !.key = k])

(* The access token expired on the way: the workspace rotates it, forgets  *)
(* everything it holds about providers, the pins too, and repeats the      *)
(* request with the revision it had put into it.                           *)
GovRefreshSession(u) ==
    /\ req[u].step = "sent"
    /\ \E i \in Items : pins[u][i] # Unpinned
    /\ pins' = [pins EXCEPT ![u] = [i \in Items |-> Unpinned]]
    /\ shown' = [shown EXCEPT ![u] = [i \in Items |-> NoPolicy]]
    /\ UNCHANGED <<installed, config, recon, regs, policies, defaults, ids, req>>

-----------------------------------------------------------------------------
(* The handlers of the API.                                                *)

Advance(u, step) == req' = [req EXCEPT ![u].step = step]
Rest == <<installed, config, recon, regs, policies, defaults, ids, pins, shown>>

GovAccept(u) ==
    /\ req[u].step = "sent"
    /\ Advance(u, IF req[u].op \in {"policy", "clear"} THEN "row" ELSE "registrations")
    /\ UNCHANGED Rest

(* What a process may run: configured, registered with the same identity,  *)
(* active, conforming and compatible.                                      *)
Trusted(k) ==
    /\ config[Api][k] \in Passing
    /\ regs[k].ident = config[Api][k]
    /\ regs[k].lifecycle = "ACTIVE"

Offering(c) == {k \in Keys : config[Api][k] # NoIdent /\ c \in Offers[config[Api][k]]}

GovReadRegistrations(u) ==
    /\ req[u].step = "registrations"
    /\ req' = [req EXCEPT ![u].step = "policies", ![u].cands = {k \in Keys : Trusted(k)}]
    /\ UNCHANGED Rest

(* An answer ends the request.  A conflict drops the pin, a success moves  *)
(* it; a pin that a refresh has dropped stays dropped.  An answer that is  *)
(* lost leaves the pin.                                                    *)
Finish(u) == req' = [req EXCEPT ![u] = NoRequest]

Conflict(u) ==
    /\ Finish(u)
    /\ \/ /\ pins' = [pins EXCEPT ![u][req[u].item] = Unpinned]
          /\ shown' = [shown EXCEPT ![u][req[u].item] = NoPolicy]
       \/ UNCHANGED <<pins, shown>>
    /\ UNCHANGED <<installed, config, recon, regs, policies, defaults, ids>>

Success(u, revision, row) ==
    LET i == req[u].item
    IN  /\ Finish(u)
        /\ \/ /\ pins[u][i] # Unpinned
              /\ pins' = [pins EXCEPT ![u][i] = revision]
              /\ shown' = [shown EXCEPT ![u][i] = row]
           \/ UNCHANGED <<pins, shown>>
        /\ UNCHANGED <<installed, config, recon, regs>>

\* A slip: the policies are looked at for a new default only.
GovReadPoliciesOfMutations(u) ==
    LET r == req[u]
        effective == {k \in r.cands : policies[k].enabled}
    IN  /\ r.step = "policies"
        /\ IF r.op = "default" /\ r.key \notin effective \cap Offering(r.item)
           THEN Conflict(u)
           ELSE Advance(u, "row") /\ UNCHANGED Rest

GovReadPolicies(u) ==
    LET r == req[u]
        effective == {k \in r.cands : policies[k].enabled}
    IN  /\ r.step = "policies"
        /\ IF r.op = "default" /\ r.key \notin effective \cap Offering(r.item)
           THEN Conflict(u)
           ELSE /\ req' = [req EXCEPT ![u].step = "row", ![u].cands = effective]
                /\ UNCHANGED Rest

GovReadRow(u) ==
    LET r == req[u]
        row == IF r.op = "policy"
               THEN [NoDefault EXCEPT !.revision = policies[r.item].revision]
               ELSE defaults[r.item]
    IN  /\ r.step = "row"
        /\ IF \/ r.op # "resolve" /\ row.revision # r.expected
              \/ r.op = "policy" /\ config[Api][r.item] = NoIdent
           THEN Conflict(u)
           ELSE /\ req' = [req EXCEPT ![u].step = "write", ![u].row = row]
                /\ UNCHANGED Rest

\* A slip: the revision is compared where it is read, not where it is written.
UnchangedUnchecked(u, current) == req[u].row.revision = req[u].expected

(* The write compares the revision again: an insert by the unique          *)
(* constraint, an update and a delete by their WHERE clause.               *)
Unchanged(u, current) == current.revision = req[u].expected

GovWritePolicy(u) ==
    LET r == req[u]
        row == [enabled |-> r.enabled, revision |-> r.expected + 1]
    IN  /\ r.op = "policy" /\ r.step = "write"
        /\ IF Unchanged(u, policies[r.item])
           THEN /\ r.expected < MaxRevision
                /\ policies' = [policies EXCEPT ![r.item] = row]
                /\ Success(u, row.revision, row)
                /\ UNCHANGED <<defaults, ids>>
           ELSE Conflict(u)

GovWriteDefault(u) ==
    LET r == req[u]
        old == defaults[r.item]
        row == [key |-> r.key, revision |-> r.expected + 1,
                id |-> IF r.expected = 0 THEN ids + 1 ELSE old.id]
    IN  /\ r.op = "default" /\ r.step = "write"
        /\ IF Unchanged(u, old)
           THEN /\ r.expected < MaxRevision /\ row.id <= MaxIds
                /\ defaults' = [defaults EXCEPT ![r.item] = row]
                /\ ids' = IF r.expected = 0 THEN ids + 1 ELSE ids
                /\ Success(u, row.revision, row)
                /\ UNCHANGED policies
           ELSE Conflict(u)

(* A cleared default is deleted; the answer repeats the revision cleared,  *)
(* and the workspace pins that.                                            *)
GovDeleteDefault(u) ==
    LET r == req[u]
    IN  /\ r.op = "clear" /\ r.step = "write"
        /\ IF Unchanged(u, defaults[r.item])
           THEN /\ defaults' = [defaults EXCEPT ![r.item] = NoDefault]
                /\ Success(u, r.expected, NoDefault)
                /\ UNCHANGED <<policies, ids>>
           ELSE Conflict(u)

(* The provider named, or the default while it is effective, or the first  *)
(* candidate.  load_provider builds it from the process's configuration.   *)
Chosen(r) ==
    LET open == r.cands \cap Offering(r.item)
        first == {k \in open : \A j \in open : k <= j}
    IN  IF r.key # NoKey THEN {r.key} \cap open
        ELSE IF r.row.key \in open THEN {r.row.key} ELSE first

GovLoad(u) ==
    /\ req[u].op = "resolve" /\ req[u].step = "write"
    /\ Finish(u)
    /\ UNCHANGED <<installed, config, recon, regs, policies, defaults, ids, pins,
                   shown>>

-----------------------------------------------------------------------------
GovOperatorStep ==
    \/ \E k \in Keys, i \in Idents \cup {NoIdent} : GovInstall(k, i)
    \/ \E p \in Procs, accept \in BOOLEAN : GovBoot(p, accept)
    \/ \E p \in Procs : GovReadCatalog(p) \/ GovReconcile(p)

GovWorkspaceStep(u) ==
    \/ \E i \in Items : GovPin(u, i)
    \/ \E k \in Keys, enabled \in BOOLEAN : GovSavePolicy(u, k, enabled)
    \/ \E c \in Capabilities, k \in Keys : GovSetDefault(u, c, k)
    \/ \E c \in Capabilities : GovClearDefault(u, c)
    \/ \E c \in Capabilities, k \in Keys \cup {NoKey} : GovResolve(u, c, k)
    \/ GovRefreshSession(u)

GovHandlerStep(u) ==
    \/ GovAccept(u)
    \/ GovReadRegistrations(u) \/ GovReadPolicies(u) \/ GovReadRow(u)
    \/ GovWritePolicy(u) \/ GovWriteDefault(u) \/ GovDeleteDefault(u) \/ GovLoad(u)

(* What was trusted, and what was enabled, at some moment since the        *)
(* request began.                                                          *)
Witness ==
    witnessed' = [u \in Users |->
        LET now == [trusted |-> {k \in Keys : Trusted(k)'},
                    enabled |-> {k \in Keys : policies'[k].enabled}]
        IN  IF req'[u].op # "resolve" THEN [trusted |-> {}, enabled |-> {}]
            ELSE [trusted |-> witnessed[u].trusted \cup now.trusted,
                  enabled |-> witnessed[u].enabled \cup now.enabled]]

GovNext ==
    /\ \/ GovOperatorStep
       \/ \E u \in Users : GovWorkspaceStep(u) \/ GovHandlerStep(u)
    /\ Witness

GovSpec == GovInit /\ [][GovNext]_govVars

-----------------------------------------------------------------------------
(* The types of all variables.                                             *)
GovTypeOK ==
    /\ installed \in [Keys -> Idents \cup {NoIdent}]
    /\ config \in [Procs -> [Keys -> Idents \cup {NoIdent}]]
    /\ recon \in [Procs -> [phase: {"off", "read", "write", "up"},
                            accept: BOOLEAN, copy: [Keys -> Registration]]]
    /\ regs \in [Keys -> Registration]
    /\ policies \in [Keys -> Policy]
    /\ defaults \in [Capabilities -> Default]
    /\ ids \in Nat
    /\ req \in [Users ->
           [op: {"none", "policy", "default", "clear", "resolve"},
            step: {"none", "sent", "registrations", "policies", "row", "write"},
            item: Items \cup {NoKey}, key: Keys \cup {NoKey}, enabled: BOOLEAN,
            expected: Int, cands: SUBSET Keys, row: Default,
            shown: Policy \cup Default]]
    /\ pins \in [Users -> [Items -> Int]]
    /\ shown \in [Users -> [Items -> Policy \cup Default]]
    /\ witnessed \in [Users -> [trusted: SUBSET Keys, enabled: SUBSET Keys]]

(* A provider that was registered under one identity is registered under   *)
(* another only by a reconciliation told to accept drift, however the      *)
(* columns of overlapping reconciliations mix.                             *)
IdentityNeedsAcceptance ==
    [][\A k \in Keys :
          regs[k].revision > 0 /\ regs'[k].ident # regs[k].ident =>
              \E p \in Tools : recon[p].accept /\ recon[p].phase = "write"
                               /\ recon'[p].phase = "off"]_govVars

(* A resolution loads only a provider that was trusted at some moment      *)
(* since it was requested, and enabled at some moment since: a provider    *)
(* disabled or quarantined before the request is never used, by name, by   *)
(* default or as a candidate.                                              *)
ResolvedWasPermitted ==
    \A u \in Users : req[u].op = "resolve" /\ req[u].step = "write" =>
        Chosen(req[u]) \subseteq witnessed[u].trusted \cap witnessed[u].enabled

(* A policy is replaced only by an administrator whose workspace showed    *)
(* the very policy that is replaced: no decision of another administrator  *)
(* is overwritten unseen.                                                  *)
PolicyReplacedAsShown ==
    [][\A k \in Keys : policies'[k] # policies[k] =>
          \E u \in Users : /\ req[u].op = "policy" /\ req[u].item = k
                           /\ req[u].step = "write" /\ req'[u].op = "none"
                           /\ req[u].shown = policies[k]]_govVars

(* The same of defaults, as SECURITY.md and api.md promise for both, while *)
(* one row lives.  A default that was cleared and set again begins at      *)
(* revision one, so a form that showed the old row, or the clearing of it, *)
(* replaces the new one unseen.                                            *)
DefaultReplacedAsShown ==
    [][\A c \in Capabilities : defaults'[c] # defaults[c] =>
          \E u \in Users :
              /\ req[u].op \in {"default", "clear"} /\ req[u].item = c
              /\ req[u].step = "write" /\ req'[u].op = "none"
              /\ req[u].shown.id = defaults[c].id => req[u].shown = defaults[c]]_govVars

(* A provider comes into use, and a decision about one is changed, only as *)
(* an administrator has reviewed it.                                       *)
GovernanceIsReviewed ==
    IdentityNeedsAcceptance /\ PolicyReplacedAsShown /\ DefaultReplacedAsShown
=============================================================================
