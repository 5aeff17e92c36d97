---------------------- MODULE ProviderGovernance_proofs ----------------------
(***************************************************************************)
(* Proofs about ProviderGovernance, for any providers, capabilities,       *)
(* users, tools and bounds.                                                *)
(*                                                                         *)
(* A request reads what it decides on in separate statements without a     *)
(* lock.  What its candidates were found to be, trusted and then enabled,  *)
(* they may not be any more, but they were since the request began         *)
(* (CandidatesSeen), and every choice is among the candidates.  A revision *)
(* compared when a row is written stands for the row a workspace showed:   *)
(* what a page or a request holds is the current row, or an older revision *)
(* of it, or a row that is gone (RevisionInv).                             *)
(***************************************************************************)
EXTENDS ProviderGovernance, TLAPS

Request ==
    [op: {"none", "policy", "default", "clear", "resolve"},
     step: {"none", "sent", "registrations", "policies", "row", "write"},
     item: Items \cup {NoKey}, key: Keys \cup {NoKey}, enabled: BOOLEAN,
     expected: Int, cands: SUBSET Keys, row: Default,
     shown: Policy \cup Default]

Reconciliation ==
    [phase: {"off", "read", "write", "up"}, accept: BOOLEAN, copy: [Keys -> Registration]]

Seen == [trusted: SUBSET Keys, enabled: SUBSET Keys]

\* What a resolution has found of its candidates was so since it began.
CandidatesSeen ==
    \A u \in Users : req[u].op = "resolve" =>
        /\ req[u].step \in {"policies", "row", "write"} =>
               req[u].cands \subseteq witnessed[u].trusted
        /\ req[u].step \in {"row", "write"} => req[u].cands \subseteq witnessed[u].enabled

\* A request names a provider or a capability, as its operation needs.
RequestsFit ==
    \A u \in Users : /\ req[u].op = "none" => req[u].step = "none"
                     /\ req[u].op = "policy" => req[u].item \in Keys
                     /\ req[u].op \in {"default", "clear", "resolve"} => req[u].item \in Capabilities

\* The types of everything but the history of permissions.
Types ==
    /\ installed \in [Keys -> Idents \cup {NoIdent}]
    /\ config \in [Procs -> [Keys -> Idents \cup {NoIdent}]]
    /\ recon \in [Procs -> Reconciliation]
    /\ regs \in [Keys -> Registration]
    /\ policies \in [Keys -> Policy]
    /\ defaults \in [Capabilities -> Default]
    /\ ids \in Nat
    /\ req \in [Users -> Request]
    /\ pins \in [Users -> [Items -> Int]]
    /\ shown \in [Users -> [Items -> Policy \cup Default]]

-----------------------------------------------------------------------------
(* Values of the right type.                                               *)

LEMMA Nothings ==
    /\ NoRegistration \in Registration
    /\ NoPolicy \in Policy
    /\ NoDefault \in Default
    /\ NoRequest \in Request
    /\ Off \in Reconciliation
<1>1. NoRegistration \in Registration
  BY DEF NoRegistration, Registration
<1>2. NoPolicy \in Policy
  BY DEF NoPolicy, Policy
<1>3. NoDefault \in Default
  BY DEF NoDefault, Default, NoKey
<1>4. NoRequest \in Request
  BY <1>2, <1>3 DEF NoRequest, Request
<1>5. Off \in Reconciliation
  BY <1>1 DEF Off, Reconciliation
<1> QED BY <1>1, <1>2, <1>3, <1>4, <1>5

LEMMA TypeParts == GovTypeOK <=> Types /\ witnessed \in [Users -> Seen]
  BY DEF GovTypeOK, Types, Reconciliation, Request, Seen

\* Mixing columns of three registrations gives a registration.
LEMMA ColumnsType ==
    ASSUME NEW row \in Registration, NEW read \in Registration, NEW new \in Registration
    PROVE  /\ WriteColumns(row, read, new) \in Registration
           /\ WriteColumns(row, read, new).ident = IF new.ident = read.ident THEN row.ident ELSE new.ident
  BY DEF WriteColumns, Registration

LEMMA WantedType ==
    ASSUME NEW old \in Registration, NEW i \in Idents \cup {NoIdent}, NEW accept \in BOOLEAN
    PROVE  Wanted(old, i, accept) \in Registration
<1>1. Standing(i) \in [lifecycle: {"ACTIVE", "QUARANTINED"}, conformance: {"PASSED", "FAILED"}]
  BY DEF Standing
<1>2. /\ [old EXCEPT !.lifecycle = "REMOVED", !.conformance = "UNAVAILABLE"] \in Registration
      /\ [old EXCEPT !.lifecycle = "QUARANTINED", !.conformance = "DRIFTED"] \in Registration
      /\ [old EXCEPT !.ident = i, !.lifecycle = Standing(i).lifecycle,
                     !.conformance = Standing(i).conformance] \in Registration
  BY <1>1 DEF Registration
<1> DEFINE row == CASE i = NoIdent ->
                         [old EXCEPT !.lifecycle = "REMOVED", !.conformance = "UNAVAILABLE"]
                    [] i # NoIdent /\ old.revision > 0 /\ old.ident # i /\ ~accept ->
                         [old EXCEPT !.lifecycle = "QUARANTINED", !.conformance = "DRIFTED"]
                    [] OTHER ->
                         [old EXCEPT !.ident = i, !.lifecycle = Standing(i).lifecycle,
                                     !.conformance = Standing(i).conformance]
<1>3. row \in Registration
  BY <1>2
<1>4. [row EXCEPT !.revision = old.revision + 1] \in Registration
  BY <1>3 DEF Registration
<1>5. Wanted(old, i, accept) \in {old, [row EXCEPT !.revision = old.revision + 1]}
  BY DEF Wanted
<1> QED BY <1>4, <1>5

\* Reconciliation gives a provider another identity only on its first registration
\* or when it accepts drift.
LEMMA WantedIdentity ==
    ASSUME NEW old \in Registration, NEW i \in Idents \cup {NoIdent}, NEW accept \in BOOLEAN,
           i = NoIdent \/ old.revision > 0, ~accept
    PROVE  Wanted(old, i, accept).ident = old.ident
<1>1. CASE i = NoIdent
  BY <1>1 DEF Wanted, Registration
<1>2. CASE i # NoIdent /\ old.ident # i
  BY <1>2 DEF Wanted, Registration
<1>3. CASE i # NoIdent /\ old.ident = i
  BY <1>3 DEF Wanted, Registration
<1> QED BY <1>1, <1>2, <1>3

-----------------------------------------------------------------------------
(* Types: one lemma per group of actions.                                  *)

LEMMA OperatorTypes ==
    ASSUME Types, GovOperatorStep
    PROVE  Types'
<1>1. CASE \E k \in Keys, i \in Idents \cup {NoIdent} : GovInstall(k, i)
  BY <1>1 DEF Types, GovInstall
<1>2. ASSUME NEW p \in Procs, NEW accept \in BOOLEAN, GovBoot(p, accept)
      PROVE  Types'
  <2>1. req' \in [Users -> Request]
    BY <1>2, Nothings DEF Types, GovBoot
  <2>2. recon' \in [Procs -> Reconciliation]
    <3>1. recon \in [Procs -> Reconciliation]
      BY DEF Types
    <3>2. \A r \in Reconciliation :
              [[r EXCEPT !.phase = "read"] EXCEPT !.accept = accept] \in Reconciliation
      BY DEF Reconciliation
    <3>3. recon' = [recon EXCEPT ![p] = [[recon[p] EXCEPT !.phase = "read"] EXCEPT !.accept = accept]]
      BY <1>2, <3>1 DEF GovBoot
    <3> QED BY <3>1, <3>2, <3>3
  <2>3. config' \in [Procs -> [Keys -> Idents \cup {NoIdent}]]
    <3> DEFINE Config == [Keys -> Idents \cup {NoIdent}]
    <3>1. installed \in Config /\ config \in [Procs -> Config]
      BY DEF Types
    <3>2. config' = [config EXCEPT ![p] = installed]
      BY <1>2 DEF GovBoot
    <3> HIDE DEF Config
    <3>3. config' \in [Procs -> Config]
      BY <3>1, <3>2
    <3> QED BY <3>3 DEF Config
  <2> QED BY <1>2, <2>1, <2>2, <2>3 DEF Types, GovBoot
<1>3. ASSUME NEW p \in Procs, GovReadCatalog(p)
      PROVE  Types'
  <2>1. recon' \in [Procs -> Reconciliation]
    BY <1>3 DEF Types, GovReadCatalog, Reconciliation
  <2> QED BY <1>3, <2>1 DEF Types, GovReadCatalog
<1>4. ASSUME NEW p \in Procs, GovReconcile(p)
      PROVE  Types'
  <2>1. recon' \in [Procs -> Reconciliation] /\ config' \in [Procs -> [Keys -> Idents \cup {NoIdent}]]
    <3> DEFINE Config == [Keys -> Idents \cup {NoIdent}]
    <3>1. [Off EXCEPT !.phase = "up"] \in Reconciliation
      BY Nothings DEF Off, Reconciliation
    <3>2. /\ recon \in [Procs -> Reconciliation] /\ config \in [Procs -> Config]
          /\ [k \in Keys |-> NoIdent] \in Config
      BY DEF Types
    <3>3. \/ recon' = [recon EXCEPT ![p] = Off] /\ config' = [config EXCEPT ![p] = [k \in Keys |-> NoIdent]]
          \/ recon' = [recon EXCEPT ![p] = [Off EXCEPT !.phase = "up"]] /\ config' = config
      BY <1>4 DEF GovReconcile, Exit
    <3> HIDE DEF Config
    <3>4. recon' \in [Procs -> Reconciliation] /\ config' \in [Procs -> Config]
      BY <3>1, <3>2, <3>3, Nothings
    <3> QED BY <3>4 DEF Config
  <2>2. regs' \in [Keys -> Registration]
    <3>1. recon[p].copy \in [Keys -> Registration] /\ recon[p].accept \in BOOLEAN
      BY DEF Types, Reconciliation
    <3> DEFINE want == [k \in Keys |-> Wanted(recon[p].copy[k], config[p][k], recon[p].accept)]
    <3>2. \A k \in Keys : want[k] \in Registration
      BY <3>1, WantedType DEF Types
    <3>3. \A k \in Keys : WriteColumns(regs[k], recon[p].copy[k], want[k]) \in Registration
      BY <3>1, <3>2, ColumnsType DEF Types
    <3>4. CASE UNCHANGED regs
      BY <3>4 DEF Types
    <3>5. CASE regs' = [k \in Keys |-> WriteColumns(regs[k], recon[p].copy[k], want[k])]
      BY <3>3, <3>5
    <3> QED BY <1>4, <3>4, <3>5 DEF GovReconcile
  <2> QED BY <1>4, <2>1, <2>2 DEF Types, GovReconcile
<1> QED BY <1>1, <1>2, <1>3, <1>4 DEF GovOperatorStep

LEMMA WorkspaceTypes ==
    ASSUME Types, NEW u \in Users, GovWorkspaceStep(u)
    PROVE  Types'
<1>1. ASSUME NEW i \in Items, GovPin(u, i)
      PROVE  Types'
  <2>1. Row(i) \in Policy \cup Default /\ Row(i).revision \in Int
    BY DEF Types, Row, Items, Policy, Default
  <2>2. pins' \in [Users -> [Items -> Int]] /\ shown' \in [Users -> [Items -> Policy \cup Default]]
    BY <1>1, <2>1 DEF Types, GovPin
  <2> QED BY <1>1, <2>2 DEF Types, GovPin
<1>2. ASSUME NEW r \in Request, Send(u, r)
      PROVE  Types'
  BY <1>2 DEF Types, Send
<1>3. ASSUME NEW o \in {"policy", "default", "clear"}, NEW i \in Items
      PROVE  Mutation(u, o, i) \in Request
  <2>1. pins[u][i] \in Int /\ shown[u][i] \in Policy \cup Default
    BY DEF Types
  <2> QED BY <2>1, Nothings DEF Mutation, NoRequest, Request
<1>4. ASSUME NEW k \in Keys, NEW e \in BOOLEAN, GovSavePolicy(u, k, e)
      PROVE  Types'
  <2>1. [Mutation(u, "policy", k) EXCEPT !.enabled = e] \in Request
    BY <1>3 DEF Request, Items
  <2> QED BY <1>2, <1>4, <2>1 DEF GovSavePolicy
<1>5. ASSUME NEW c \in Capabilities, NEW k \in Keys, GovSetDefault(u, c, k)
      PROVE  Types'
  <2>1. [Mutation(u, "default", c) EXCEPT !.key = k] \in Request
    BY <1>3 DEF Request, Items
  <2> QED BY <1>2, <1>5, <2>1 DEF GovSetDefault
<1>6. ASSUME NEW c \in Capabilities, GovClearDefault(u, c)
      PROVE  Types'
  BY <1>2, <1>3, <1>6 DEF GovClearDefault, Items
<1>7. ASSUME NEW c \in Capabilities, NEW k \in Keys \cup {NoKey}, GovResolve(u, c, k)
      PROVE  Types'
  <2>1. [NoRequest EXCEPT !.op = "resolve", !.step = "sent", !.item = c, !.key = k] \in Request
    BY Nothings DEF Request, Items
  <2> QED BY <1>2, <1>7, <2>1 DEF GovResolve
<1>8. CASE GovRefreshSession(u)
  BY <1>8, Nothings DEF Types, GovRefreshSession, Unpinned
<1> QED BY <1>1, <1>4, <1>5, <1>6, <1>7, <1>8 DEF GovWorkspaceStep

LEMMA AnswerTypes ==
    ASSUME Types, NEW u \in Users, req[u].item \in Items
    PROVE  /\ Conflict(u) => Types'
           /\ \A n \in Int, row \in Policy \cup Default :
                 Success(u, n, row) => /\ req' \in [Users -> Request]
                                       /\ pins' \in [Users -> [Items -> Int]]
                                       /\ shown' \in [Users -> [Items -> Policy \cup Default]]
<1> DEFINE Rows == Policy \cup Default
<1>1. /\ req \in [Users -> Request] /\ pins \in [Users -> [Items -> Int]]
      /\ shown \in [Users -> [Items -> Rows]] /\ Unpinned \in Int /\ NoPolicy \in Rows
      /\ NoRequest \in Request
  BY Nothings DEF Types, Unpinned
<1> HIDE DEF Rows
<1>2. \A n \in Int : [pins EXCEPT ![u][req[u].item] = n] \in [Users -> [Items -> Int]]
  BY <1>1
<1>3. \A row \in Rows : [shown EXCEPT ![u][req[u].item] = row] \in [Users -> [Items -> Rows]]
  BY <1>1
<1>4. [req EXCEPT ![u] = NoRequest] \in [Users -> Request]
  BY <1>1
<1>5. Conflict(u) => /\ req' \in [Users -> Request] /\ pins' \in [Users -> [Items -> Int]]
                     /\ shown' \in [Users -> [Items -> Rows]]
  BY <1>1, <1>2, <1>3, <1>4 DEF Conflict, Finish
<1>6. Conflict(u) => Types'
  BY <1>5 DEF Types, Conflict, Rows
<1>7. ASSUME NEW n \in Int, NEW row \in Rows, Success(u, n, row)
      PROVE  /\ req' \in [Users -> Request] /\ pins' \in [Users -> [Items -> Int]]
             /\ shown' \in [Users -> [Items -> Rows]]
  BY <1>1, <1>2, <1>3, <1>4, <1>7 DEF Success, Finish
<1> QED BY <1>6, <1>7 DEF Rows

LEMMA HandlerTypes ==
    ASSUME Types, RequestsFit, NEW u \in Users, GovHandlerStep(u)
    PROVE  Types'
<1> DEFINE r == req[u]
<1>1. /\ r \in Request
      /\ r.op = "none" => r.step = "none"
      /\ r.op = "policy" => r.item \in Keys
      /\ r.op \in {"default", "clear", "resolve"} => r.item \in Capabilities
  BY DEF Types, RequestsFit
<1>2. r.op \in {"none", "policy", "default", "clear", "resolve"}
  BY <1>1 DEF Request
<1>3. ASSUME NEW q \in Request, req' = [req EXCEPT ![u] = q], UNCHANGED Rest
      PROVE  Types'
  BY <1>3 DEF Types, Rest
<1>4. r.step # "none" => r.item \in Items
  BY <1>1, <1>2 DEF Items
<1>5. ASSUME NEW x \in {"registrations", "row"}
      PROVE  [r EXCEPT !.step = x] \in Request
  BY <1>1 DEF Request
<1>6. CASE GovAccept(u)
  BY <1>3, <1>5, <1>6 DEF GovAccept, Advance
<1>7. CASE GovReadRegistrations(u)
  <2>1. [[r EXCEPT !.step = "policies"] EXCEPT !.cands = {k \in Keys : Trusted(k)}] \in Request
    BY <1>1 DEF Request
  <2> QED BY <1>3, <1>7, <2>1 DEF GovReadRegistrations, Types
<1>8. CASE GovReadPolicies(u)
  <2>1. r.step = "policies"
    BY <1>8 DEF GovReadPolicies
  <2>2. {k \in r.cands : policies[k].enabled} \in SUBSET Keys
    BY <1>1 DEF Request
  <2>3. [[r EXCEPT !.step = "row"] EXCEPT !.cands = {k \in r.cands : policies[k].enabled}] \in Request
    BY <1>1, <2>2 DEF Request
  <2> QED BY <1>3, <1>4, <1>8, <2>1, <2>3, AnswerTypes DEF GovReadPolicies, Types
<1>9. CASE GovReadRow(u)
  <2> DEFINE row == IF r.op = "policy" THEN [NoDefault EXCEPT !.revision = policies[r.item].revision]
                    ELSE defaults[r.item]
  <2>1. r.step = "row"
    BY <1>9 DEF GovReadRow
  <2>2. row \in Default
    <3>1. CASE r.op = "policy"
      BY <1>1, <3>1, Nothings DEF Types, Policy, Default
    <3>2. CASE r.op # "policy"
      BY <1>1, <1>2, <2>1, <3>2 DEF Types
    <3> QED BY <3>1, <3>2
  <2>3. [[r EXCEPT !.step = "write"] EXCEPT !.row = row] \in Request
    BY <1>1, <2>2 DEF Request
  <2> QED BY <1>3, <1>4, <1>9, <2>1, <2>3, AnswerTypes DEF GovReadRow, Types
<1>10. CASE GovWritePolicy(u)
  <2> DEFINE row == [enabled |-> r.enabled, revision |-> r.expected + 1]
  <2>1. r.op = "policy" /\ r.item \in Keys /\ r.item \in Items /\ r.enabled \in BOOLEAN
    BY <1>1, <1>10 DEF GovWritePolicy, Items, Request
  <2>2. CASE Conflict(u)
    BY <2>1, <2>2, AnswerTypes
  <2>3. CASE Unchanged(u, policies[r.item]) /\ ~Conflict(u)
    <3>1. r.expected \in Nat
      BY <2>1, <2>3 DEF Unchanged, Types, Policy
    <3>2. row \in Policy /\ row.revision \in Int
      BY <2>1, <3>1 DEF Policy
    <3>3. /\ policies' = [policies EXCEPT ![r.item] = row] /\ Success(u, row.revision, row)
          /\ UNCHANGED <<defaults, ids>>
      BY <1>10, <2>3 DEF GovWritePolicy
    <3>4. policies' \in [Keys -> Policy]
      BY <3>2, <3>3 DEF Types
    <3>5. /\ req' \in [Users -> Request] /\ pins' \in [Users -> [Items -> Int]]
          /\ shown' \in [Users -> [Items -> Policy \cup Default]]
      BY <2>1, <3>2, <3>3, AnswerTypes
    <3> QED BY <3>3, <3>4, <3>5 DEF Types, Success
  <2> QED BY <1>10, <2>2, <2>3 DEF GovWritePolicy
<1>11. CASE GovWriteDefault(u)
  <2> DEFINE row == [key |-> r.key, revision |-> r.expected + 1,
                     id |-> IF r.expected = 0 THEN ids + 1 ELSE defaults[r.item].id]
  <2>1. /\ r.op = "default" /\ r.item \in Capabilities /\ r.item \in Items
        /\ r.key \in Keys \cup {NoKey} /\ defaults[r.item] \in Default /\ ids \in Nat
    BY <1>1, <1>11 DEF GovWriteDefault, Items, Request, Types
  <2>2. CASE Conflict(u)
    BY <2>1, <2>2, AnswerTypes
  <2>3. CASE Unchanged(u, defaults[r.item]) /\ ~Conflict(u)
    <3>1. r.expected \in Nat /\ defaults[r.item].id \in Nat
      BY <2>1, <2>3 DEF Unchanged, Default
    <3>2. row \in Default /\ row.revision \in Int
      BY <2>1, <3>1 DEF Default
    <3>3. /\ defaults' = [defaults EXCEPT ![r.item] = row] /\ Success(u, row.revision, row)
          /\ ids' = IF r.expected = 0 THEN ids + 1 ELSE ids
          /\ UNCHANGED policies
      BY <1>11, <2>3 DEF GovWriteDefault
    <3>4. defaults' \in [Capabilities -> Default] /\ ids' \in Nat
      BY <2>1, <3>2, <3>3 DEF Types
    <3>5. /\ req' \in [Users -> Request] /\ pins' \in [Users -> [Items -> Int]]
          /\ shown' \in [Users -> [Items -> Policy \cup Default]]
      BY <2>1, <3>2, <3>3, AnswerTypes
    <3> QED BY <3>3, <3>4, <3>5 DEF Types, Success
  <2> QED BY <1>11, <2>2, <2>3 DEF GovWriteDefault
<1>12. CASE GovDeleteDefault(u)
  <2>1. r.op = "clear" /\ r.item \in Capabilities /\ r.item \in Items /\ r.expected \in Int
    BY <1>1, <1>12 DEF GovDeleteDefault, Items, Request
  <2>2. CASE Conflict(u)
    BY <2>1, <2>2, AnswerTypes
  <2>3. CASE ~Conflict(u)
    <3>1. /\ defaults' = [defaults EXCEPT ![r.item] = NoDefault]
          /\ Success(u, r.expected, NoDefault) /\ UNCHANGED <<policies, ids>>
      BY <1>12, <2>3 DEF GovDeleteDefault
    <3>2. defaults' \in [Capabilities -> Default]
      BY <3>1, Nothings DEF Types
    <3>3. /\ req' \in [Users -> Request] /\ pins' \in [Users -> [Items -> Int]]
          /\ shown' \in [Users -> [Items -> Policy \cup Default]]
      BY <2>1, <3>1, AnswerTypes, Nothings
    <3> QED BY <3>1, <3>2, <3>3 DEF Types, Success
  <2> QED BY <2>2, <2>3
<1>13. CASE GovLoad(u)
  BY <1>3, <1>13, Nothings DEF GovLoad, Finish, Rest
<1> QED BY <1>6, <1>7, <1>8, <1>9, <1>10, <1>11, <1>12, <1>13 DEF GovHandlerStep

-----------------------------------------------------------------------------
(* What one step does to one request.                                      *)

\* A handler ends its request, or moves it on with its operation and item kept.
Ends(q) == req' = [req EXCEPT ![q] = NoRequest]

MovesOn(q, step, cands) ==
    /\ \A u \in Users \ {q} : req'[u] = req[u]
    /\ req'[q].op = req[q].op /\ req'[q].item = req[q].item
    /\ req'[q].expected = req[q].expected /\ req'[q].shown = req[q].shown
    /\ req'[q].step = step /\ req'[q].cands = cands
    /\ UNCHANGED Rest

LEMMA HandlerSteps ==
    ASSUME Types, NEW u \in Users, GovHandlerStep(u)
    PROVE  \/ Ends(u)
           \/ req[u].step = "sent" /\ \E s \in {"registrations", "row"} :
                  /\ s = "row" => req[u].op # "resolve"
                  /\ MovesOn(u, s, req[u].cands)
           \/ req[u].step = "registrations"
              /\ MovesOn(u, "policies", {k \in Keys : Trusted(k)})
           \/ req[u].step = "policies"
              /\ MovesOn(u, "row", {k \in req[u].cands : policies[k].enabled})
           \/ /\ req[u].step = "row" /\ MovesOn(u, "write", req[u].cands)
              /\ req[u].op = "policy" => req[u].expected = policies[req[u].item].revision
              /\ req[u].op \in {"default", "clear"} =>
                     req[u].expected = defaults[req[u].item].revision
<1> DEFINE r == req[u]
<1>1. r \in Request /\ req \in [Users -> Request]
  BY DEF Types
<1>2. ASSUME NEW s \in {"registrations", "row"}
      PROVE  LET q == [r EXCEPT !.step = s]
             IN  q \in Request /\ q.op = r.op /\ q.item = r.item /\ q.step = s
                 /\ q.cands = r.cands /\ q.expected = r.expected /\ q.shown = r.shown
  BY <1>1 DEF Request
<1>4. ASSUME NEW q \in Request, req' = [req EXCEPT ![u] = q], UNCHANGED Rest,
             q.op = r.op, q.item = r.item, q.expected = r.expected, q.shown = r.shown
      PROVE  MovesOn(u, q.step, q.cands)
  BY <1>1, <1>4 DEF MovesOn
<1>5. CASE GovAccept(u)
  <2>1. PICK s \in {"registrations", "row"} :
            /\ req' = [req EXCEPT ![u] = [r EXCEPT !.step = s]]
            /\ s = "row" => r.op # "resolve"
    BY <1>1, <1>5 DEF GovAccept, Advance
  <2>2. r.step = "sent" /\ UNCHANGED Rest
    BY <1>5 DEF GovAccept
  <2>3. MovesOn(u, s, r.cands)
    BY <1>2, <1>4, <2>1, <2>2
  <2> QED BY <2>1, <2>2, <2>3
<1>6. CASE GovReadRegistrations(u)
  <2> DEFINE c == {k \in Keys : Trusted(k)}
  <2>1. req' = [req EXCEPT ![u] = [[r EXCEPT !.step = "policies"] EXCEPT !.cands = c]]
    BY <1>1, <1>6 DEF GovReadRegistrations
  <2> HIDE DEF c
  <2>2. LET q == [[r EXCEPT !.step = "policies"] EXCEPT !.cands = c]
      IN  q.op = r.op /\ q.item = r.item /\ q.step = "policies" /\ q.cands = c
          /\ q.expected = r.expected /\ q.shown = r.shown
    BY <1>1 DEF Request
  <2>3. MovesOn(u, "policies", c)
    BY <1>1, <1>6, <2>1, <2>2 DEF GovReadRegistrations, MovesOn
  <2> QED BY <1>6, <2>3 DEF GovReadRegistrations, c
<1>7. CASE GovReadPolicies(u)
  <2> DEFINE c == {k \in r.cands : policies[k].enabled}
  <2>1. r.step = "policies"
    BY <1>7 DEF GovReadPolicies
  <2>2. CASE Conflict(u)
    BY <2>2 DEF Conflict, Finish, Ends
  <2>3. CASE ~Conflict(u)
    <3>1. /\ req' = [req EXCEPT ![u] = [[r EXCEPT !.step = "row"] EXCEPT !.cands = c]]
          /\ UNCHANGED Rest
      BY <1>1, <1>7, <2>3 DEF GovReadPolicies
    <3> HIDE DEF c
    <3>2. LET q == [[r EXCEPT !.step = "row"] EXCEPT !.cands = c]
        IN  q.op = r.op /\ q.item = r.item /\ q.step = "row" /\ q.cands = c
            /\ q.expected = r.expected /\ q.shown = r.shown
      BY <1>1 DEF Request
    <3>3. MovesOn(u, "row", c)
      BY <1>1, <3>1, <3>2 DEF MovesOn
    <3> QED BY <2>1, <3>3 DEF c
  <2> QED BY <2>2, <2>3
<1>8. CASE GovReadRow(u)
  <2> DEFINE row == IF r.op = "policy" THEN [NoDefault EXCEPT !.revision = policies[r.item].revision]
                    ELSE defaults[r.item]
  <2>1. r.step = "row"
    BY <1>8 DEF GovReadRow
  <2>2. CASE Conflict(u)
    BY <2>2 DEF Conflict, Finish, Ends
  <2>3. CASE ~Conflict(u)
    <3>1. /\ req' = [req EXCEPT ![u] = [[r EXCEPT !.step = "write"] EXCEPT !.row = row]]
          /\ UNCHANGED Rest
          /\ r.op # "resolve" => row.revision = r.expected
      BY <1>1, <1>8, <2>3 DEF GovReadRow
    <3>2. r.op = "policy" => row.revision = policies[r.item].revision
      BY DEF NoDefault
    <3>3. r.op # "policy" => row = defaults[r.item]
      OBVIOUS
    <3> HIDE DEF row
    <3>4. LET q == [[r EXCEPT !.step = "write"] EXCEPT !.row = row]
          IN  q.op = r.op /\ q.item = r.item /\ q.step = "write" /\ q.cands = r.cands
              /\ q.expected = r.expected /\ q.shown = r.shown
      BY <1>1 DEF Request
    <3>5. MovesOn(u, "write", r.cands)
      BY <1>1, <3>1, <3>4 DEF MovesOn
    <3> QED BY <2>1, <3>1, <3>2, <3>3, <3>5
  <2> QED BY <2>2, <2>3
<1>9. CASE GovWritePolicy(u) \/ GovWriteDefault(u) \/ GovDeleteDefault(u) \/ GovLoad(u)
  BY <1>9 DEF GovWritePolicy, GovWriteDefault, GovDeleteDefault, GovLoad, Conflict, Success,
             Finish, Ends
<1> QED BY <1>5, <1>6, <1>7, <1>8, <1>9 DEF GovHandlerStep

\* A step that is not of a handler leaves a request, drops it or sends a new one.
Sends(u) ==
    \/ \E k \in Keys, enabled \in BOOLEAN : GovSavePolicy(u, k, enabled)
    \/ \E c \in Capabilities, k \in Keys : GovSetDefault(u, c, k)
    \/ \E c \in Capabilities : GovClearDefault(u, c)
    \/ \E c \in Capabilities, k \in Keys \cup {NoKey} : GovResolve(u, c, k)

LEMMA Sent ==
    ASSUME Types, NEW u \in Users, Sends(u)
    PROVE  /\ \A w \in Users \ {u} : req'[w] = req[w]
           /\ req'[u].step = "sent"
           /\ \/ /\ req'[u].op = "policy" /\ req'[u].item \in Keys
                 /\ pins[u][req'[u].item] # Unpinned
                 /\ req'[u].expected = pins[u][req'[u].item]
                 /\ req'[u].shown = shown[u][req'[u].item]
              \/ /\ req'[u].op \in {"default", "clear"} /\ req'[u].item \in Capabilities
                 /\ pins[u][req'[u].item] # Unpinned
                 /\ req'[u].expected = pins[u][req'[u].item]
                 /\ req'[u].shown = shown[u][req'[u].item]
              \/ req'[u].op = "resolve" /\ req'[u].item \in Capabilities
           /\ UNCHANGED Rest
<1>1. req \in [Users -> Request] /\ pins[u] \in [Items -> Int]
  BY DEF Types
<1>2. ASSUME NEW o, NEW i
      PROVE  LET m == Mutation(u, o, i)
             IN  m.op = o /\ m.step = "sent" /\ m.item = i /\ m.expected = pins[u][i]
                 /\ m.shown = shown[u][i] /\ DOMAIN m = DOMAIN NoRequest
  BY DEF Mutation, NoRequest
<1>3. ASSUME NEW k \in Keys, NEW e \in BOOLEAN, GovSavePolicy(u, k, e)
      PROVE  req'[u].op = "policy" /\ req'[u].item = k /\ req'[u].step = "sent"
             /\ req'[u].expected = pins[u][k] /\ req'[u].shown = shown[u][k]
             /\ pins[u][k] # Unpinned
             /\ (\A w \in Users \ {u} : req'[w] = req[w]) /\ UNCHANGED Rest
  BY <1>1, <1>3 DEF GovSavePolicy, Send, Mutation, NoRequest, Rest
<1>4. ASSUME NEW c \in Capabilities, NEW k \in Keys, GovSetDefault(u, c, k)
      PROVE  req'[u].op = "default" /\ req'[u].item = c /\ req'[u].step = "sent"
             /\ req'[u].expected = pins[u][c] /\ req'[u].shown = shown[u][c]
             /\ pins[u][c] # Unpinned
             /\ (\A w \in Users \ {u} : req'[w] = req[w]) /\ UNCHANGED Rest
  BY <1>1, <1>4 DEF GovSetDefault, Send, Mutation, NoRequest, Rest
<1>5. ASSUME NEW c \in Capabilities, GovClearDefault(u, c)
      PROVE  req'[u].op = "clear" /\ req'[u].item = c /\ req'[u].step = "sent"
             /\ req'[u].expected = pins[u][c] /\ req'[u].shown = shown[u][c]
             /\ pins[u][c] # Unpinned
             /\ (\A w \in Users \ {u} : req'[w] = req[w]) /\ UNCHANGED Rest
  BY <1>1, <1>2, <1>5 DEF GovClearDefault, Send, Rest, Unpinned, Items
<1>6. ASSUME NEW c \in Capabilities, NEW k \in Keys \cup {NoKey}, GovResolve(u, c, k)
      PROVE  req'[u].op = "resolve" /\ req'[u].item = c /\ req'[u].step = "sent"
             /\ (\A w \in Users \ {u} : req'[w] = req[w]) /\ UNCHANGED Rest
  BY <1>1, <1>6 DEF GovResolve, Send, NoRequest, Rest
<1> QED BY <1>3, <1>4, <1>5, <1>6 DEF Sends

\* Everything else a step can be.
LEMMA StepKinds ==
    ASSUME Types, GovNext
    PROVE  \/ GovOperatorStep /\ (UNCHANGED req \/ req' = [u \in Users |-> NoRequest])
              /\ UNCHANGED <<policies, defaults, ids, pins, shown>>
           \/ \E u \in Users : \/ \E i \in Items : GovPin(u, i)
                               \/ GovRefreshSession(u)
                               \/ Sends(u)
                               \/ GovHandlerStep(u)
<1>1. CASE GovOperatorStep
  BY <1>1 DEF GovOperatorStep, GovInstall, GovBoot, GovReadCatalog, GovReconcile
<1> QED BY <1>1 DEF GovNext, GovWorkspaceStep, Sends

LEMMA FitKept == ASSUME Types, RequestsFit, GovNext PROVE RequestsFit'
<1> SUFFICES ASSUME NEW u \in Users
             PROVE  /\ req'[u].op = "none" => req'[u].step = "none"
                    /\ req'[u].op = "policy" => req'[u].item \in Keys
                    /\ req'[u].op \in {"default", "clear", "resolve"} =>
                           req'[u].item \in Capabilities
  BY DEF RequestsFit
<1>1. CASE req'[u] = req[u]
  BY <1>1 DEF RequestsFit
<1>2. CASE req'[u] = NoRequest
  BY <1>2 DEF NoRequest
<1>3. ASSUME NEW w \in Users, Sends(w)
      PROVE  \/ req'[u] = req[u]
             \/ req'[u].op = "policy" /\ req'[u].item \in Keys
             \/ req'[u].op \in {"default", "clear", "resolve"} /\ req'[u].item \in Capabilities
  BY <1>3, Sent
<1>4. ASSUME NEW w \in Users, GovHandlerStep(w)
      PROVE  \/ req'[u] = req[u] \/ req'[u] = NoRequest
             \/ req'[u].op = req[u].op /\ req'[u].item = req[u].item /\ req[u].step # "none"
  <2>1. CASE Ends(w)
    BY <2>1 DEF Ends, Types
  <2>2. CASE \E s, c : req[w].step # "none" /\ MovesOn(w, s, c)
    BY <2>2 DEF MovesOn
  <2> QED BY <1>4, <2>1, <2>2, HandlerSteps
<1>5. CASE req'[u].op = req[u].op /\ req'[u].item = req[u].item /\ req[u].step # "none"
  BY <1>5 DEF RequestsFit
<1>6. CASE UNCHANGED req \/ req' = [w \in Users |-> NoRequest]
  BY <1>1, <1>2, <1>6
<1>7. ASSUME NEW w \in Users, (\E i \in Items : GovPin(w, i)) \/ GovRefreshSession(w)
      PROVE  UNCHANGED req
  BY <1>7 DEF GovPin, GovRefreshSession
<1>8. CASE \E w \in Users : Sends(w)
  BY <1>1, <1>3, <1>8
<1>9. CASE \E w \in Users : GovHandlerStep(w)
  BY <1>1, <1>2, <1>4, <1>5, <1>9
<1> QED BY <1>6, <1>7, <1>8, <1>9, StepKinds

LEMMA TypesKept == ASSUME Types, RequestsFit, GovNext PROVE Types'
  BY OperatorTypes, WorkspaceTypes, HandlerTypes DEF GovNext

-----------------------------------------------------------------------------
(* Permissions.                                                            *)

\* The history of a resolution grows by what is permitted now.
LEMMA Witnessed ==
    ASSUME witnessed \in [Users -> Seen], Witness, NEW u \in Users
    PROVE  /\ witnessed' \in [Users -> Seen]
           /\ req'[u].op = "resolve" =>
                /\ witnessed[u].trusted \cup {k \in Keys : Trusted(k)'} = witnessed'[u].trusted
                /\ witnessed[u].enabled \cup {k \in Keys : policies'[k].enabled} = witnessed'[u].enabled
<1> DEFINE now == [trusted |-> {k \in Keys : Trusted(k)'},
                   enabled |-> {k \in Keys : policies'[k].enabled}]
           after(w) == IF req'[w].op # "resolve" THEN [trusted |-> {}, enabled |-> {}]
                       ELSE [trusted |-> witnessed[w].trusted \cup now.trusted,
                             enabled |-> witnessed[w].enabled \cup now.enabled]
<1>1. witnessed' = [w \in Users |-> after(w)]
  BY DEF Witness
<1>2. now \in Seen
  BY DEF Seen
<1> HIDE DEF now
<1>3. ASSUME NEW w \in Users
      PROVE  after(w) \in Seen
  <2>1. witnessed[w] \in Seen
    OBVIOUS
  <2> QED BY <1>2, <2>1 DEF Seen
<1>4. witnessed' \in [Users -> Seen]
  <2> HIDE DEF after
  <2> QED BY <1>1, <1>3
<1>5. witnessed'[u] = after(u)
  <2> HIDE DEF after
  <2> QED BY <1>1
<1> QED BY <1>4, <1>5 DEF now

LEMMA PermittedKept ==
    ASSUME Types, witnessed \in [Users -> Seen], RequestsFit, CandidatesSeen, GovNext
    PROVE  CandidatesSeen'
<1> SUFFICES ASSUME NEW u \in Users, req'[u].op = "resolve"
             PROVE  /\ req'[u].step \in {"policies", "row", "write"} =>
                           req'[u].cands \subseteq witnessed'[u].trusted
                    /\ req'[u].step \in {"row", "write"} =>
                           req'[u].cands \subseteq witnessed'[u].enabled
  BY DEF CandidatesSeen
<1> DEFINE trusted == {k \in Keys : Trusted(k)'}
           enabled == {k \in Keys : policies'[k].enabled}
<1>1. /\ witnessed[u].trusted \cup trusted = witnessed'[u].trusted
      /\ witnessed[u].enabled \cup enabled = witnessed'[u].enabled
  BY Witnessed DEF GovNext
<1> HIDE DEF trusted, enabled
<1>2. CASE req'[u] = req[u]
  BY <1>1, <1>2 DEF CandidatesSeen
<1>3. CASE req'[u] = NoRequest
  BY <1>3 DEF NoRequest
<1>4. CASE req'[u].step \in {"sent", "registrations"}
  BY <1>4
<1>5. CASE GovHandlerStep(u) /\ req'[u] # NoRequest /\ req'[u].step \notin {"sent", "registrations"}
  <2>1. req'[u].op = req[u].op /\ UNCHANGED Rest
    BY <1>5, HandlerSteps DEF Ends, MovesOn, Types
  <2>2. trusted = {k \in Keys : Trusted(k)} /\ enabled = {k \in Keys : policies[k].enabled}
    BY <2>1 DEF trusted, enabled, Trusted, Rest
  <2>3. req[u] \in Request
    BY DEF Types
  <2>4. CASE MovesOn(u, "policies", {k \in Keys : Trusted(k)})
    BY <1>1, <2>2, <2>4 DEF MovesOn
  <2>5. CASE req[u].step = "policies" /\ MovesOn(u, "row", {k \in req[u].cands : policies[k].enabled})
    <3>1. req[u].cands \subseteq witnessed[u].trusted /\ req[u].cands \subseteq Keys
      BY <2>1, <2>3, <2>5 DEF CandidatesSeen, Request
    <3>2. req'[u].cands = {k \in req[u].cands : policies[k].enabled}
      BY <2>5 DEF MovesOn
    <3> QED BY <1>1, <2>2, <3>1, <3>2
  <2>6. CASE req[u].step = "row" /\ MovesOn(u, "write", req[u].cands)
    <3>1. /\ req[u].cands \subseteq witnessed[u].trusted
          /\ req[u].cands \subseteq witnessed[u].enabled
          /\ req'[u].cands = req[u].cands
      BY <2>1, <2>6 DEF CandidatesSeen, MovesOn
    <3> QED BY <1>1, <3>1
  <2>7. CASE Ends(u)
    BY <1>5, <2>7 DEF Ends, Types
  <2>8. CASE \E s \in {"registrations", "row"} : /\ s = "row" => req[u].op # "resolve"
                                                /\ MovesOn(u, s, req[u].cands)
    BY <1>5, <2>1, <2>8 DEF MovesOn
  <2> QED BY <1>5, <2>4, <2>5, <2>6, <2>7, <2>8, HandlerSteps
<1>6. ASSUME NEW w \in Users, w # u, GovHandlerStep(w)
      PROVE  req'[u] = req[u]
  BY <1>6, HandlerSteps DEF Ends, MovesOn, Types
<1>7. ASSUME NEW w \in Users, Sends(w)
      PROVE  req'[u] = req[u] \/ req'[u].step = "sent"
  BY <1>7, Sent
<1>8. ASSUME NEW w \in Users, (\E i \in Items : GovPin(w, i)) \/ GovRefreshSession(w)
      PROVE  UNCHANGED req
  BY <1>8 DEF GovPin, GovRefreshSession
<1>9. CASE UNCHANGED req \/ req' = [w \in Users |-> NoRequest]
  BY <1>2, <1>3, <1>9
<1> QED BY <1>2, <1>3, <1>4, <1>5, <1>6, <1>7, <1>8, <1>9, StepKinds

IInv == Types /\ witnessed \in [Users -> Seen] /\ RequestsFit /\ CandidatesSeen

LEMMA InitIInv == GovInit => IInv
<1> SUFFICES ASSUME GovInit PROVE IInv
  OBVIOUS
<1>1. Types
  BY Nothings DEF GovInit, Types, Unpinned
<1>2. RequestsFit /\ CandidatesSeen
  BY DEF GovInit, RequestsFit, CandidatesSeen, NoRequest
<1>3. witnessed \in [Users -> Seen]
  BY DEF GovInit, Seen
<1> QED BY <1>1, <1>2, <1>3 DEF IInv

LEMMA NextIInv == IInv /\ [GovNext]_govVars => IInv'
<1> SUFFICES ASSUME IInv, [GovNext]_govVars PROVE IInv'
  OBVIOUS
<1>1. CASE GovNext
  <2>1. witnessed' \in [Users -> Seen]
    <3>1. CASE Users = {}
      BY <1>1, <3>1 DEF GovNext, Witness
    <3>2. CASE Users # {}
      BY <1>1, <3>2, Witnessed DEF IInv, GovNext
    <3> QED BY <3>1, <3>2
  <2> QED BY <1>1, <2>1, TypesKept, FitKept, PermittedKept DEF IInv
<1>2. CASE UNCHANGED govVars
  BY <1>2 DEF govVars, IInv, Types, RequestsFit, CandidatesSeen
<1> QED BY <1>1, <1>2

\* Every variable keeps its type in every behaviour, also when the columns of
\* overlapping reconciliations are mixed.
THEOREM GovTypeCorrect == GovSpec => []GovTypeOK
<1>1. IInv => GovTypeOK
  BY TypeParts DEF IInv
<1> QED BY <1>1, InitIInv, NextIInv, PTL DEF GovSpec

\* What a resolution loads was trusted, and enabled, at some moment since it was
\* requested, although it reads the registrations, the policies and the default
\* in separate statements while they change.
THEOREM ResolvedIsPermitted == GovSpec => []ResolvedWasPermitted
<1>1. IInv => ResolvedWasPermitted
  <2> SUFFICES ASSUME IInv, NEW u \in Users, req[u].op = "resolve", req[u].step = "write"
               PROVE  Chosen(req[u]) \subseteq witnessed[u].trusted \cap witnessed[u].enabled
    BY DEF ResolvedWasPermitted
  <2>1. Chosen(req[u]) \subseteq req[u].cands
    BY DEF Chosen
  <2> QED BY <2>1 DEF IInv, CandidatesSeen
<1> QED BY <1>1, InitIInv, NextIInv, PTL DEF GovSpec

-----------------------------------------------------------------------------
(* Identities.                                                             *)

\* The API reconciles without accepting drift.
ApiNeverAccepts == recon[Api].accept = FALSE

LEMMA ApiNeverAcceptsKept == ASSUME Types, ApiNeverAccepts, GovNext PROVE ApiNeverAccepts'
<1>1. recon \in [Procs -> Reconciliation] /\ Api \in Procs /\ Off.accept = FALSE
  BY DEF Types, Procs, Off
<1>2. ASSUME NEW p \in Procs, NEW a \in BOOLEAN, GovBoot(p, a)
      PROVE  ApiNeverAccepts'
  <2>1. CASE p = Api
    BY <1>1, <1>2, <2>1 DEF GovBoot, ApiNeverAccepts, Reconciliation
  <2>2. CASE p # Api
    BY <1>1, <1>2, <2>2 DEF GovBoot, ApiNeverAccepts
  <2> QED BY <2>1, <2>2
<1>3. ASSUME NEW p \in Procs, GovReadCatalog(p)
      PROVE  ApiNeverAccepts'
  <2>1. recon'[Api] = recon[Api] \/ \E c : recon'[Api] = [[recon[Api] EXCEPT !.phase = "write"] EXCEPT !.copy = c]
    BY <1>1, <1>3 DEF GovReadCatalog
  <2> QED BY <1>1, <2>1 DEF ApiNeverAccepts, Reconciliation
<1>4. ASSUME NEW p \in Procs, GovReconcile(p)
      PROVE  ApiNeverAccepts'
  <2>1. recon'[Api] \in {recon[Api], Off, [Off EXCEPT !.phase = "up"]}
    BY <1>1, <1>4 DEF GovReconcile, Exit
  <2>2. [Off EXCEPT !.phase = "up"].accept = FALSE
    BY DEF Off
  <2> QED BY <1>1, <2>1, <2>2 DEF ApiNeverAccepts
<1>5. CASE \E k \in Keys, i \in Idents \cup {NoIdent} : GovInstall(k, i)
  BY <1>5 DEF GovInstall, ApiNeverAccepts
<1>6. ASSUME NEW u \in Users, GovWorkspaceStep(u) \/ GovHandlerStep(u)
      PROVE  UNCHANGED recon
  <2>1. CASE GovWorkspaceStep(u)
    BY <2>1 DEF GovWorkspaceStep, GovPin, GovSavePolicy, GovSetDefault, GovClearDefault,
                GovResolve, Send, GovRefreshSession
  <2>2. CASE GovHandlerStep(u)
    BY <2>2 DEF GovHandlerStep, GovAccept, GovReadRegistrations, GovReadPolicies, GovReadRow,
                GovWritePolicy, GovWriteDefault, GovDeleteDefault, GovLoad, Rest, Conflict, Success
  <2> QED BY <1>6, <2>1, <2>2
<1> QED BY <1>2, <1>3, <1>4, <1>5, <1>6 DEF GovNext, GovOperatorStep, ApiNeverAccepts

LEMMA OnlyReconcileRegisters ==
    ASSUME GovNext, regs' # regs
    PROVE  \E p \in Procs : GovReconcile(p)
<1>1. CASE GovOperatorStep
  BY <1>1 DEF GovOperatorStep, GovInstall, GovBoot, GovReadCatalog
<1>2. ASSUME NEW u \in Users, GovWorkspaceStep(u)
      PROVE  UNCHANGED regs
  BY <1>2 DEF GovWorkspaceStep, GovPin, GovSavePolicy, GovSetDefault, GovClearDefault,
              GovResolve, Send, GovRefreshSession
<1>3. ASSUME NEW u \in Users, GovHandlerStep(u)
      PROVE  UNCHANGED regs
  BY <1>3 DEF GovHandlerStep, GovAccept, GovReadRegistrations, GovReadPolicies, GovReadRow,
              GovWritePolicy, GovWriteDefault, GovDeleteDefault, GovLoad, Rest, Conflict, Success
<1> QED BY <1>1, <1>2, <1>3 DEF GovNext

LEMMA AcceptanceStep ==
    ASSUME Types, ApiNeverAccepts, GovNext, NEW k \in Keys,
           regs[k].revision > 0, regs'[k].ident # regs[k].ident
    PROVE  \E p \in Tools : recon[p].accept /\ recon[p].phase = "write" /\ recon'[p].phase = "off"
<1>1. PICK p \in Procs : GovReconcile(p)
  BY OnlyReconcileRegisters
<1> DEFINE copy == recon[p].copy
           accept == recon[p].accept
           want == [j \in Keys |-> Wanted(copy[j], config[p][j], accept)]
<1>2. /\ regs[k] \in Registration /\ copy[k] \in Registration
      /\ config[p][k] \in Idents \cup {NoIdent} /\ accept \in BOOLEAN
  BY DEF Types, Reconciliation
<1>3. ~InsertsTwice(p) /\ regs' = [j \in Keys |-> WriteColumns(regs[j], copy[j], want[j])]
  BY <1>1 DEF GovReconcile
<1>4. want[k] \in Registration /\ want[k] = Wanted(copy[k], config[p][k], accept)
  BY <1>2, WantedType
<1>5. want[k].ident # copy[k].ident
  <2>1. WriteColumns(regs[k], copy[k], want[k]).ident =
            IF want[k].ident = copy[k].ident THEN regs[k].ident ELSE want[k].ident
    BY <1>2, <1>4, ColumnsType
  <2> QED BY <1>3, <2>1
<1>6. accept
  <2>1. config[p][k] = NoIdent \/ copy[k].revision # 0
    BY <1>3 DEF InsertsTwice
  <2>2. copy[k].revision \in Nat
    BY <1>2 DEF Registration
  <2> QED BY <1>2, <1>4, <1>5, <2>1, <2>2, WantedIdentity
<1>7. p \in Tools
  BY <1>6 DEF ApiNeverAccepts, Procs
<1>8. recon[p].phase = "write" /\ recon' = [recon EXCEPT ![p] = Off]
  BY <1>1, <1>3, <1>7, GovernanceAssumption DEF GovReconcile, Exit
<1> QED BY <1>6, <1>7, <1>8 DEF Types, Off

\* A registered provider gets another identity only from a command told to accept
\* drift, whatever reconciliations overlap.
THEOREM DriftNeedsAcceptance == GovSpec => IdentityNeedsAcceptance
<1> DEFINE Inv == IInv /\ ApiNeverAccepts
<1>1. GovInit => Inv
  BY InitIInv DEF GovInit, ApiNeverAccepts, Off, Procs
<1>2. Inv /\ [GovNext]_govVars => Inv'
  BY NextIInv, ApiNeverAcceptsKept DEF IInv, ApiNeverAccepts, govVars
<1>3. Inv /\ [GovNext]_govVars =>
        [\A k \in Keys :
            regs[k].revision > 0 /\ regs'[k].ident # regs[k].ident =>
                \E p \in Tools : recon[p].accept /\ recon[p].phase = "write"
                                 /\ recon'[p].phase = "off"]_govVars
  BY AcceptanceStep DEF IInv
<1> QED BY <1>1, <1>2, <1>3, PTL DEF GovSpec, IdentityNeedsAcceptance

-----------------------------------------------------------------------------
(* Revisions.  A workspace and a request hold a revision and the row it    *)
(* was shown with.  A policy's revision only grows; a default's grows      *)
(* while its row lives, and no later row has the id of an earlier one.     *)

PolicySeen(e, row, p) ==
    /\ row \in Policy /\ e = row.revision
    /\ row.revision <= p.revision
    /\ row.revision = p.revision => row = p

DefaultSeen(e, row, d, n) ==
    /\ row \in Default /\ row.id <= n
    /\ row.id = 0 => row = NoDefault
    /\ row.id # 0 /\ row.id = d.id =>
           /\ e = row.revision /\ row.revision <= d.revision
           /\ row.revision = d.revision => row = d

\* Given the policies, the defaults and the ids used.
ItemSeen(e, row, i, ps, ds, n) ==
    /\ i \in Keys => PolicySeen(e, row, ps[i])
    /\ i \in Capabilities => DefaultSeen(e, row, ds[i], n)

SeenNow(e, row, i) == ItemSeen(e, row, i, policies, defaults, ids)
SeenNext(e, row, i) == ItemSeen(e, row, i, policies', defaults', ids')

\* A row of defaults has an id of its own; the id zero is of no row.
RowsNumbered ==
    \A c \in Capabilities : defaults[c].id <= ids /\ (defaults[c].id = 0 => defaults[c] = NoDefault)

PinsSeen ==
    \A u \in Users, i \in Items : pins[u][i] # Unpinned => SeenNow(pins[u][i], shown[u][i], i)

MutationsSeen ==
    \A u \in Users : req[u].op \in {"policy", "default", "clear"} =>
        SeenNow(req[u].expected, req[u].shown, req[u].item)

RevisionInv == RowsNumbered /\ PinsSeen /\ MutationsSeen

\* How a row of defaults changes.
DefaultMoves(c) ==
    \/ defaults'[c] \in {defaults[c], NoDefault}
    \/ /\ defaults'[c].id = defaults[c].id /\ defaults[c].id # 0
       /\ defaults'[c].revision = defaults[c].revision + 1
    \/ defaults'[c].id = ids + 1 /\ ids' = ids + 1

\* The writer of a row: its request ends, and what its workspace showed is compared.
Writes(u) ==
    /\ Ends(u) /\ req[u].step = "write"
    /\ \/ /\ req[u].op = "policy" /\ req[u].expected = policies[req[u].item].revision
          /\ policies' = [policies EXCEPT ![req[u].item] =
                             [enabled |-> req[u].enabled, revision |-> req[u].expected + 1]]
          /\ Success(u, req[u].expected + 1,
                     [enabled |-> req[u].enabled, revision |-> req[u].expected + 1])
          /\ UNCHANGED <<defaults, ids>>
       \/ /\ req[u].op \in {"default", "clear"} /\ req[u].expected = defaults[req[u].item].revision
          /\ \E row : /\ defaults' = [defaults EXCEPT ![req[u].item] = row]
                      /\ \/ row = NoDefault /\ ids' = ids /\ Success(u, req[u].expected, row)
                         \/ /\ row.revision = req[u].expected + 1
                            /\ IF req[u].expected = 0 THEN row.id = ids + 1 /\ ids' = ids + 1
                               ELSE row.id = defaults[req[u].item].id /\ ids' = ids
                            /\ Success(u, row.revision, row)
          /\ UNCHANGED policies

LEMMA Writers ==
    ASSUME Types, RequestsFit, GovNext
    PROVE  \/ UNCHANGED <<policies, defaults, ids>>
           \/ \E u \in Users : GovHandlerStep(u) /\ Writes(u)
<1>1. ASSUME NEW u \in Users, GovWritePolicy(u), ~Conflict(u)
      PROVE  Writes(u)
  BY <1>1 DEF GovWritePolicy, Writes, Unchanged, Success, Finish, Ends
<1>2. ASSUME NEW u \in Users, GovWriteDefault(u), ~Conflict(u)
      PROVE  Writes(u)
  BY <1>2 DEF GovWriteDefault, Writes, Unchanged, Success, Finish, Ends
<1>3. ASSUME NEW u \in Users, GovDeleteDefault(u), ~Conflict(u)
      PROVE  Writes(u)
  BY <1>3 DEF GovDeleteDefault, Writes, Unchanged, Success, Finish, Ends
<1>4. ASSUME NEW u \in Users, Conflict(u) \/ UNCHANGED Rest
      PROVE  UNCHANGED <<policies, defaults, ids>>
  BY <1>4 DEF Conflict, Rest
<1>5. ASSUME NEW u \in Users, GovHandlerStep(u)
      PROVE  UNCHANGED <<policies, defaults, ids>> \/ Writes(u)
  BY <1>1, <1>2, <1>3, <1>4, <1>5
     DEF GovHandlerStep, GovAccept, GovReadRegistrations, GovReadPolicies, GovReadRow, GovLoad, Rest
<1>6. ASSUME NEW u \in Users, (\E i \in Items : GovPin(u, i)) \/ GovRefreshSession(u)
      PROVE  UNCHANGED <<policies, defaults, ids>>
  BY <1>6 DEF GovPin, GovRefreshSession
<1>7. ASSUME NEW u \in Users, Sends(u)
      PROVE  UNCHANGED <<policies, defaults, ids>>
  BY <1>7, Sent DEF Rest
<1> QED BY <1>5, <1>6, <1>7, StepKinds

LEMMA RowsMove ==
    ASSUME Types, RequestsFit, RowsNumbered, GovNext
    PROVE  /\ \A k \in Keys : \/ policies'[k] = policies[k]
                              \/ policies'[k].revision = policies[k].revision + 1
           /\ \A c \in Capabilities : DefaultMoves(c)
           /\ ids <= ids'
           /\ RowsNumbered'
<1>1. /\ policies \in [Keys -> Policy] /\ defaults \in [Capabilities -> Default] /\ ids \in Nat
      /\ NoDefault.id = 0
  BY DEF Types, NoDefault
<1>2. CASE UNCHANGED <<policies, defaults, ids>>
  BY <1>1, <1>2 DEF DefaultMoves, RowsNumbered
<1>3. ASSUME NEW u \in Users, Writes(u), req[u].op = "policy"
      PROVE  /\ \A k \in Keys : \/ policies'[k] = policies[k]
                                \/ policies'[k].revision = policies[k].revision + 1
             /\ UNCHANGED <<defaults, ids>>
  BY <1>1, <1>3 DEF Writes
<1>4. ASSUME NEW u \in Users, Writes(u), req[u].op # "policy"
      PROVE  /\ UNCHANGED policies
             /\ \A c \in Capabilities : DefaultMoves(c)
             /\ ids <= ids'
             /\ RowsNumbered'
  <2>1. PICK row : /\ defaults' = [defaults EXCEPT ![req[u].item] = row]
                   /\ \/ row = NoDefault /\ ids' = ids
                      \/ /\ row.revision = req[u].expected + 1
                         /\ IF req[u].expected = 0 THEN row.id = ids + 1 /\ ids' = ids + 1
                            ELSE row.id = defaults[req[u].item].id /\ ids' = ids
    BY <1>4 DEF Writes
  <2>2. /\ req[u].item \in Capabilities /\ req[u].expected = defaults[req[u].item].revision
        /\ UNCHANGED policies
    BY <1>4 DEF Writes, RequestsFit
  <2>3. /\ defaults[req[u].item].id \in Nat /\ defaults[req[u].item].revision \in Nat
        /\ NoDefault.revision = 0
    BY <1>1, <2>2 DEF Default, NoDefault
  <2>4. req[u].expected # 0 => defaults[req[u].item].id # 0
    BY <2>2, <2>3 DEF RowsNumbered
  <2>5. \A c \in Capabilities : DefaultMoves(c)
    BY <1>1, <2>1, <2>2, <2>3, <2>4 DEF DefaultMoves
  <2>6. ids <= ids'
    BY <1>1, <2>1
  <2>7. row.id <= ids' /\ (row.id = 0 => row = NoDefault)
    BY <1>1, <2>1, <2>2, <2>3, <2>4 DEF RowsNumbered
  <2>8. \A c \in Capabilities : defaults[c].id \in Nat
    BY <1>1 DEF Default
  <2>9. RowsNumbered'
    BY <1>1, <2>1, <2>2, <2>6, <2>7, <2>8 DEF RowsNumbered
  <2> QED BY <2>2, <2>5, <2>6, <2>9
<1>5. UNCHANGED <<defaults, ids>> => (\A c \in Capabilities : DefaultMoves(c)) /\ ids <= ids' /\ RowsNumbered'
  BY <1>1 DEF DefaultMoves, RowsNumbered
<1> QED BY <1>2, <1>3, <1>4, <1>5, Writers

\* What was shown stays what it was when the rows move on.
LEMMA StaysSeen ==
    ASSUME Types, RequestsFit, RowsNumbered, GovNext,
           NEW e, NEW row, NEW i, SeenNow(e, row, i)
    PROVE  SeenNext(e, row, i)
<1>1. ASSUME i \in Keys PROVE PolicySeen(e, row, policies'[i])
  <2>1. policies[i].revision \in Nat /\ row \in Policy /\ row.revision \in Nat
    BY <1>1 DEF Types, Policy, ItemSeen, SeenNow, SeenNext, PolicySeen
  <2> QED BY <1>1, <2>1, RowsMove DEF ItemSeen, SeenNow, SeenNext, PolicySeen
<1>2. ASSUME i \in Capabilities PROVE DefaultSeen(e, row, defaults'[i], ids')
  <2>1. /\ defaults[i].revision \in Nat /\ defaults[i].id \in Nat /\ ids \in Nat /\ ids' \in Nat
        /\ row \in Default /\ row.revision \in Nat /\ row.id \in Nat /\ NoDefault.id = 0
    BY <1>2, TypesKept DEF Types, Default, ItemSeen, SeenNow, SeenNext, DefaultSeen, NoDefault
  <2>2. DefaultMoves(i) /\ ids <= ids' /\ DefaultSeen(e, row, defaults[i], ids)
    BY <1>2, RowsMove DEF ItemSeen, SeenNow, SeenNext
  <2>3. CASE defaults'[i] = defaults[i]
    BY <2>1, <2>2, <2>3 DEF DefaultSeen
  <2>4. CASE defaults'[i] = NoDefault
    BY <2>1, <2>2, <2>4 DEF DefaultSeen
  <2>5. CASE /\ defaults'[i].id = defaults[i].id /\ defaults[i].id # 0
             /\ defaults'[i].revision = defaults[i].revision + 1
    BY <2>1, <2>2, <2>5 DEF DefaultSeen
  <2>6. CASE defaults'[i].id = ids + 1 /\ ids' = ids + 1
    BY <2>1, <2>2, <2>6 DEF DefaultSeen
  <2> QED BY <2>2, <2>3, <2>4, <2>5, <2>6 DEF DefaultMoves
<1> QED BY <1>1, <1>2 DEF ItemSeen, SeenNow, SeenNext

\* The pin and the row of one item after a step: kept, dropped, or just read.
PinMoves(u, i) ==
    \/ pins'[u][i] = Unpinned
    \/ pins[u][i] # Unpinned /\ pins'[u][i] = pins[u][i] /\ shown'[u][i] = shown[u][i]
    \/ SeenNext(pins'[u][i], shown'[u][i], i)

\* An answer's revision and row are those of the row just written.
LEMMA AnswerSeen ==
    ASSUME Types, RequestsFit, RowsNumbered, GovNext, NEW u \in Users, Writes(u),
           NEW n, NEW row, Success(u, n, row),
           \/ /\ req[u].op = "policy" /\ row = [enabled |-> req[u].enabled, revision |-> n]
              /\ n = req[u].expected + 1 /\ policies'[req[u].item] = row
           \/ /\ req[u].op \in {"default", "clear"} /\ defaults'[req[u].item] = row
              /\ row = NoDefault \/ n = row.revision
    PROVE  SeenNext(n, row, req[u].item)
<1>1. Types' /\ RowsNumbered'
  BY TypesKept, RowsMove
<1>2. CASE req[u].op = "policy"
  <2>1. req[u].item \in Keys /\ req[u].item \notin Capabilities
    BY <1>2, GovernanceAssumption DEF RequestsFit
  <2>2. row \in Policy /\ row.revision \in Nat /\ n = row.revision
    BY <1>1, <1>2, <2>1 DEF Types, Policy
  <2> QED BY <1>2, <2>1, <2>2 DEF ItemSeen, SeenNow, SeenNext, PolicySeen
<1>3. CASE req[u].op \in {"default", "clear"}
  <2>1. req[u].item \in Capabilities /\ req[u].item \notin Keys
    BY <1>3, GovernanceAssumption DEF RequestsFit
  <2>2. row \in Default /\ row.revision \in Nat /\ NoDefault.id = 0
    BY <1>1, <1>3, <2>1 DEF Types, Default, NoDefault
  <2> QED BY <1>1, <1>3, <2>1, <2>2 DEF ItemSeen, SeenNow, SeenNext, DefaultSeen, RowsNumbered
<1> QED BY <1>2, <1>3

LEMMA SuccessPins ==
    ASSUME Types, NEW u \in Users, NEW n, NEW row, Success(u, n, row), NEW w \in Users, NEW i \in Items
    PROVE  \/ pins'[w][i] = pins[w][i] /\ shown'[w][i] = shown[w][i]
           \/ w = u /\ i = req[u].item /\ pins'[w][i] = n /\ shown'[w][i] = row
  BY DEF Success, Types

LEMMA PinsMove ==
    ASSUME Types, RequestsFit, RowsNumbered, PinsSeen, GovNext,
           NEW w \in Users, NEW i \in Items
    PROVE  PinMoves(w, i)
<1>1. /\ pins \in [Users -> [Items -> Int]] /\ shown \in [Users -> [Items -> Policy \cup Default]]
      /\ i \in Keys => i \notin Capabilities
  BY GovernanceAssumption DEF Types
<1>2. CASE UNCHANGED <<pins, shown>>
  BY <1>2 DEF PinMoves
<1>3. ASSUME NEW u \in Users, NEW j \in Items, GovPin(u, j)
      PROVE  PinMoves(w, i)
  <2>1. UNCHANGED <<policies, defaults, ids>>
    BY <1>3 DEF GovPin
  <2>2. CASE w = u /\ i = j
    <3>1. pins'[w][i] = Row(i).revision /\ shown'[w][i] = Row(i)
      BY <1>1, <1>3, <2>2 DEF GovPin
    <3>2. SeenNow(Row(i).revision, Row(i), i)
      <4>1. i \in Keys => PolicySeen(Row(i).revision, Row(i), policies[i])
        BY DEF Row, Types, Policy, PolicySeen
      <4>2. i \in Capabilities => DefaultSeen(Row(i).revision, Row(i), defaults[i], ids)
        BY <1>1 DEF Row, Types, Default, DefaultSeen, RowsNumbered
      <4> QED BY <4>1, <4>2 DEF ItemSeen, SeenNow, SeenNext
    <3> QED BY <2>1, <3>1, <3>2 DEF PinMoves, ItemSeen, SeenNow, SeenNext, PolicySeen, DefaultSeen
  <2>3. CASE w # u \/ i # j
    BY <1>1, <1>3, <2>3 DEF GovPin, PinMoves
  <2> QED BY <2>2, <2>3
<1>4. ASSUME NEW u \in Users, GovRefreshSession(u)
      PROVE  PinMoves(w, i)
  BY <1>1, <1>4 DEF GovRefreshSession, PinMoves
<1>5. ASSUME NEW u \in Users, Writes(u)
      PROVE  PinMoves(w, i)
  <2>1. CASE req[u].op = "policy"
    <3> DEFINE row == [enabled |-> req[u].enabled, revision |-> req[u].expected + 1]
    <3>1. Success(u, req[u].expected + 1, row) /\ policies' = [policies EXCEPT ![req[u].item] = row]
      BY <1>5, <2>1 DEF Writes
    <3>2. policies'[req[u].item] = row
      BY <2>1, <3>1 DEF Types, RequestsFit
    <3> HIDE DEF row
    <3>3. SeenNext(req[u].expected + 1, row, req[u].item)
      BY <1>5, <2>1, <3>1, <3>2, AnswerSeen DEF row
    <3> QED BY <3>1, <3>3, SuccessPins DEF PinMoves
  <2>2. CASE req[u].op # "policy"
    <3>1. PICK row : /\ defaults' = [defaults EXCEPT ![req[u].item] = row]
                     /\ \/ row = NoDefault /\ Success(u, req[u].expected, row)
                        \/ Success(u, row.revision, row)
                     /\ req[u].op \in {"default", "clear"}
      BY <1>5, <2>2 DEF Writes
    <3>2. defaults'[req[u].item] = row
      BY <3>1 DEF Types, RequestsFit
    <3>3. ASSUME NEW n, Success(u, n, row), row = NoDefault \/ n = row.revision
          PROVE  PinMoves(w, i)
      <4>1. SeenNext(n, row, req[u].item)
        BY <1>5, <3>1, <3>2, <3>3, AnswerSeen
      <4> QED BY <3>3, <4>1, SuccessPins DEF PinMoves
    <3> QED BY <3>1, <3>3
  <2> QED BY <2>1, <2>2
<1>6. ASSUME NEW u \in Users, Conflict(u)
      PROVE  PinMoves(w, i)
  BY <1>1, <1>6 DEF Conflict, PinMoves
<1>7. ASSUME NEW u \in Users, GovHandlerStep(u)
      PROVE  UNCHANGED <<pins, shown>> \/ Writes(u) \/ Conflict(u)
  BY <1>7 DEF GovHandlerStep, GovAccept, GovReadRegistrations, GovReadPolicies, GovReadRow, GovLoad,
              Rest, GovWritePolicy, GovWriteDefault, GovDeleteDefault, Writes, Unchanged,
              Success, Finish, Ends
<1>8. ASSUME NEW u \in Users, Sends(u)
      PROVE  UNCHANGED <<pins, shown>>
  BY <1>8, Sent DEF Rest
<1> QED BY <1>2, <1>3, <1>4, <1>5, <1>6, <1>7, <1>8, StepKinds

LEMMA RevisionKept ==
    ASSUME Types, RequestsFit, RevisionInv, GovNext
    PROVE  RevisionInv'
<1>1. PinsSeen'
  <2> SUFFICES ASSUME NEW u \in Users, NEW i \in Items, pins'[u][i] # Unpinned
               PROVE  SeenNext(pins'[u][i], shown'[u][i], i)
    BY DEF PinsSeen, SeenNow, SeenNext
  <2>1. CASE pins[u][i] # Unpinned /\ pins'[u][i] = pins[u][i] /\ shown'[u][i] = shown[u][i]
    <3>1. SeenNow(pins[u][i], shown[u][i], i)
      BY <2>1 DEF RevisionInv, PinsSeen
    <3>2. ASSUME NEW e, NEW row, SeenNow(e, row, i)
          PROVE  SeenNext(e, row, i)
      BY <3>2, StaysSeen DEF RevisionInv
    <3> QED BY <2>1, <3>1, <3>2
  <2> QED BY <2>1, PinsMove DEF PinMoves, RevisionInv
<1>2. MutationsSeen'
  <2> SUFFICES ASSUME NEW u \in Users, req'[u].op \in {"policy", "default", "clear"}
               PROVE  SeenNext(req'[u].expected, req'[u].shown, req'[u].item)
    BY DEF MutationsSeen, SeenNow, SeenNext
  <2>1. ASSUME NEW e, NEW row, NEW i, SeenNow(e, row, i)
        PROVE  SeenNext(e, row, i)
    BY <2>1, StaysSeen DEF RevisionInv
  <2>2. CASE /\ req'[u].op = req[u].op /\ req'[u].item = req[u].item
             /\ req'[u].expected = req[u].expected /\ req'[u].shown = req[u].shown
    <3>1. SeenNow(req[u].expected, req[u].shown, req[u].item)
      BY <2>2 DEF RevisionInv, MutationsSeen
    <3> QED BY <2>1, <2>2, <3>1
  <2>3. ASSUME NEW w \in Users, Sends(w)
        PROVE  \/ req'[u] = req[u]
               \/ /\ req'[u].item \in Items /\ pins[u][req'[u].item] # Unpinned
                  /\ req'[u].expected = pins[u][req'[u].item]
                  /\ req'[u].shown = shown[u][req'[u].item]
    BY <2>3, Sent DEF Items
  <2>4. CASE /\ req'[u].item \in Items /\ pins[u][req'[u].item] # Unpinned
             /\ req'[u].expected = pins[u][req'[u].item]
             /\ req'[u].shown = shown[u][req'[u].item]
    <3>1. SeenNow(pins[u][req'[u].item], shown[u][req'[u].item], req'[u].item)
      BY <2>4 DEF RevisionInv, PinsSeen
    <3> QED BY <2>1, <2>4, <3>1
  <2>5. ASSUME NEW w \in Users, GovHandlerStep(w)
        PROVE  \/ req'[u] = NoRequest
               \/ /\ req'[u].op = req[u].op /\ req'[u].item = req[u].item
                  /\ req'[u].expected = req[u].expected /\ req'[u].shown = req[u].shown
    BY <2>5, HandlerSteps DEF Ends, MovesOn, Types
  <2>6. req'[u] # NoRequest
    BY DEF NoRequest
  <2>7. ASSUME NEW w \in Users, (\E i \in Items : GovPin(w, i)) \/ GovRefreshSession(w)
        PROVE  UNCHANGED req
    BY <2>7 DEF GovPin, GovRefreshSession
  <2>8. CASE UNCHANGED req \/ req' = [w \in Users |-> NoRequest]
    BY <2>2, <2>6, <2>8
  <2> QED BY <2>2, <2>3, <2>4, <2>5, <2>6, <2>7, <2>8, StepKinds
<1> QED BY <1>1, <1>2, RowsMove DEF RevisionInv

LEMMA InitRevisions == GovInit => RevisionInv
<1> SUFFICES ASSUME GovInit PROVE RevisionInv
  OBVIOUS
<1>1. RowsNumbered
  BY DEF GovInit, RowsNumbered, NoDefault
<1>2. PinsSeen /\ MutationsSeen
  BY DEF GovInit, PinsSeen, MutationsSeen, NoRequest
<1> QED BY <1>1, <1>2 DEF RevisionInv

LEMMA RevisionsHold == GovSpec => [](IInv /\ RevisionInv)
<1>1. IInv /\ RevisionInv /\ [GovNext]_govVars => (IInv /\ RevisionInv)'
  <2> SUFFICES ASSUME IInv, RevisionInv, [GovNext]_govVars PROVE IInv' /\ RevisionInv'
    OBVIOUS
  <2>1. CASE GovNext
    BY <2>1, NextIInv, RevisionKept DEF IInv
  <2>2. CASE UNCHANGED govVars
    BY <2>2, NextIInv DEF govVars, RevisionInv, RowsNumbered, PinsSeen, MutationsSeen,
                          SeenNow, SeenNext
  <2> QED BY <2>1, <2>2
<1> QED BY <1>1, InitIInv, InitRevisions, PTL DEF GovSpec

\* What the writer's workspace showed is what it replaces.
LEMMA WriterSaw ==
    ASSUME Types, RequestsFit, RevisionInv, NEW u \in Users, Writes(u)
    PROVE  /\ req'[u].op = "none"
           /\ req[u].op = "policy" => /\ req[u].item \in Keys
                                      /\ req[u].shown = policies[req[u].item]
           /\ req[u].op \in {"default", "clear"} =>
                  /\ req[u].item \in Capabilities
                  /\ req[u].shown.id = defaults[req[u].item].id =>
                         req[u].shown = defaults[req[u].item]
<1>1. req'[u].op = "none" /\ req[u].op \in {"policy", "default", "clear"}
  BY DEF Writes, Ends, NoRequest, Types
<1>2. SeenNow(req[u].expected, req[u].shown, req[u].item)
  BY <1>1 DEF RevisionInv, MutationsSeen
<1>3. CASE req[u].op = "policy"
  <2>1. req[u].item \in Keys /\ req[u].expected = policies[req[u].item].revision
    BY <1>3 DEF RequestsFit, Writes
  <2> QED BY <1>1, <1>2, <1>3, <2>1 DEF SeenNow, ItemSeen, PolicySeen
<1>4. CASE req[u].op \in {"default", "clear"}
  <2>1. req[u].item \in Capabilities /\ req[u].expected = defaults[req[u].item].revision
    BY <1>4 DEF RequestsFit, Writes
  <2>2. DefaultSeen(req[u].expected, req[u].shown, defaults[req[u].item], ids)
    BY <1>2, <2>1 DEF SeenNow, ItemSeen
  <2>3. req[u].shown.id = 0 /\ defaults[req[u].item].id = 0 => req[u].shown = defaults[req[u].item]
    BY <2>1, <2>2 DEF DefaultSeen, RevisionInv, RowsNumbered
  <2> QED BY <1>1, <1>4, <2>1, <2>2, <2>3 DEF DefaultSeen
<1> QED BY <1>1, <1>3, <1>4

\* A policy is replaced only by an administrator who was shown the policy replaced,
\* whatever pages, refreshes, lost answers and other administrators come between.
THEOREM PolicyNeverOverwrittenUnseen == GovSpec => PolicyReplacedAsShown
<1> DEFINE Replaced ==
        \A k \in Keys : policies'[k] # policies[k] =>
            \E u \in Users : /\ req[u].op = "policy" /\ req[u].item = k
                             /\ req[u].step = "write" /\ req'[u].op = "none"
                             /\ req[u].shown = policies[k]
<1>1. IInv /\ RevisionInv /\ [GovNext]_govVars => [Replaced]_govVars
  <2> SUFFICES ASSUME IInv, RevisionInv, GovNext, NEW k \in Keys, policies'[k] # policies[k]
               PROVE  \E u \in Users : /\ req[u].op = "policy" /\ req[u].item = k
                                       /\ req[u].step = "write" /\ req'[u].op = "none"
                                       /\ req[u].shown = policies[k]
    OBVIOUS
  <2>1. Types /\ RequestsFit
    BY DEF IInv
  <2>2. PICK u \in Users : Writes(u)
    BY <2>1, Writers
  <2>3. req[u].op = "policy" /\ req[u].item = k /\ req[u].step = "write"
    BY <2>1, <2>2 DEF Writes, Types
  <2> QED BY <2>1, <2>2, <2>3, WriterSaw
<1> QED BY <1>1, RevisionsHold, PTL DEF GovSpec, PolicyReplacedAsShown

\* The same of a default while its row lives: a row that was cleared and made anew
\* is another row.
THEOREM DefaultNeverOverwrittenUnseen == GovSpec => DefaultReplacedAsShown
<1> DEFINE Replaced ==
        \A c \in Capabilities : defaults'[c] # defaults[c] =>
            \E u \in Users :
                /\ req[u].op \in {"default", "clear"} /\ req[u].item = c
                /\ req[u].step = "write" /\ req'[u].op = "none"
                /\ req[u].shown.id = defaults[c].id => req[u].shown = defaults[c]
<1>1. IInv /\ RevisionInv /\ [GovNext]_govVars => [Replaced]_govVars
  <2> SUFFICES ASSUME IInv, RevisionInv, GovNext, NEW c \in Capabilities, defaults'[c] # defaults[c]
               PROVE  \E u \in Users :
                          /\ req[u].op \in {"default", "clear"} /\ req[u].item = c
                          /\ req[u].step = "write" /\ req'[u].op = "none"
                          /\ req[u].shown.id = defaults[c].id => req[u].shown = defaults[c]
    OBVIOUS
  <2>1. Types /\ RequestsFit
    BY DEF IInv
  <2>2. PICK u \in Users : Writes(u)
    BY <2>1, Writers
  <2>3. req[u].op \in {"default", "clear"} /\ req[u].item = c /\ req[u].step = "write"
    BY <2>1, <2>2 DEF Writes, Types
  <2> QED BY <2>1, <2>2, <2>3, WriterSaw
<1> QED BY <1>1, RevisionsHold, PTL DEF GovSpec, DefaultReplacedAsShown

\* The three together, as the runs check them.
THEOREM GovernanceStaysReviewed == GovSpec => GovernanceIsReviewed
  BY DriftNeedsAcceptance, PolicyNeverOverwrittenUnseen, DefaultNeverOverwrittenUnseen
     DEF GovernanceIsReviewed

=============================================================================
