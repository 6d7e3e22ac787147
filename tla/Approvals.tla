------------------------------ MODULE Approvals ------------------------------
(***************************************************************************)
(* Human approvals and one-use capability claims: ApprovalService and      *)
(* ApprovalAuthorityService over the JSON store, with the reconciliation   *)
(* the store performs when the server restarts.                            *)
(*                                                                         *)
(* Every action below is one call of JsonStore.mutate, which the store     *)
(* serialises, so it is atomic; an operation made of two mutations         *)
(* (ApprovalAuthorityService.revoke) is two actions, and a failed write or *)
(* a restart may fall between them.                                        *)
(*                                                                         *)
(* A request is the key (requestId, agentId, runId) under which an         *)
(* approval is looked up.  A binding is everything else that               *)
(* normalizeBinding fixes: action, resource, payload digest, destination,  *)
(* revisions, risk and evidence.  Only well-formed bindings are modelled:  *)
(* for any other one both operations return before touching the store.     *)
(***************************************************************************)
EXTENDS Integers, Sequences

CONSTANTS
  Requests,      \* approval keys: requestId, agentId, runId
  Bindings,      \* the exact operations a request can be presented with
  NoBinding,     \* the binding of an approval that does not exist yet
  Critical,      \* the bindings whose risk tier is "critical"
  Scopes,        \* runs, grants, resources and destinations
  Destinations,  \* the scopes that are registered destinations
  RunOf,         \* the run of a request
  ScopesOf,      \* the grant, resource and destination a binding names
  Humans,
  Authorities,   \* rows of approvalAuthorities
  HumanOf,       \* the human an authority belongs to
  RoleOf,        \* its role
  Covers,        \* bindings in its actions, risk tiers, organization, account
  TTL,           \* ttlMs
  MaxTime,       \* bound on the clock
  Unlucky        \* authorities whose revocation may fail between its two writes

Roles == {"owner", "independent_reviewer"}

ASSUME ApprovalsAssumption ==
  /\ NoBinding \notin Bindings
  /\ Critical \subseteq Bindings
  /\ Destinations \subseteq Scopes
  /\ RunOf \in [Requests -> Scopes]
  /\ ScopesOf \in [Bindings -> SUBSET Scopes]
  /\ HumanOf \in [Authorities -> Humans]
  /\ RoleOf \in [Authorities -> Roles]
  /\ Covers \in [Authorities -> SUBSET Bindings]
  /\ TTL \in Nat \ {0}
  /\ MaxTime \in Nat
  /\ Unlucky \subseteq Authorities

VARIABLES
  now,           \* the clock the expiry checks read
  authority,     \* approvalAuthorities: status and revision
  approval,      \* approvals, by request
  claim,         \* capabilityClaims, by the request of their approval
  revoking,      \* authorities revoked whose approvals are not yet revoked
  consumptions   \* how often "consumed" was returned for a request

vars == <<now, authority, approval, claim, revoking, consumptions>>

Statuses == {"none", "pending", "approved", "denied", "expired", "consumed", "revoked"}

Decision ==
  [human: Humans, authority: Authorities, revision: Nat, role: Roles,
   verdict: {"approve", "deny"}]

Approval ==
  [status: Statuses, binding: Bindings \cup {NoBinding}, expiresAt: Nat,
   decisions: Seq(Decision)]

Claim ==
  [issued: BOOLEAN, remainingUses: {0, 1}, binding: Bindings \cup {NoBinding},
   expiresAt: Nat, decisions: Seq(Decision)]

NoApproval ==
  [status |-> "none", binding |-> NoBinding, expiresAt |-> 0, decisions |-> <<>>]

NoClaim ==
  [issued |-> FALSE, remainingUses |-> 0, binding |-> NoBinding, expiresAt |-> 0,
   decisions |-> <<>>]

TypeOK ==
  /\ now \in Nat
  /\ authority \in [Authorities -> [active: BOOLEAN, revision: Nat]]
  /\ approval \in [Requests -> Approval]
  /\ claim \in [Requests -> Claim]
  /\ revoking \subseteq Authorities
  /\ consumptions \in [Requests -> Nat]

Init ==
  /\ now = 0
  /\ authority = [a \in Authorities |-> [active |-> TRUE, revision |-> 1]]
  /\ approval = [r \in Requests |-> NoApproval]
  /\ claim = [r \in Requests |-> NoClaim]
  /\ revoking = {}
  /\ consumptions = [r \in Requests |-> 0]

-----------------------------------------------------------------------------
(* What a binding requires, and which decisions still count.               *)

RequiredRoles(b) ==
  IF b \in Critical THEN <<"owner", "independent_reviewer">> ELSE <<"owner">>

\* Variant: a revoked authority keeps its role.
EligibleByRole(a, h, b, role) ==
  /\ HumanOf[a] = h
  /\ RoleOf[a] = role
  /\ b \in Covers[a]

Eligible(a, h, b, role) ==
  /\ authority[a].active
  /\ HumanOf[a] = h
  /\ RoleOf[a] = role
  /\ b \in Covers[a]
  /\ authority[a].revision > 0

IsCurrent(d, b) ==
  /\ authority[d.authority].revision = d.revision
  /\ Eligible(d.authority, d.human, b, d.role)

\* Variant: one current signature vouches for the others.
SomeCurrent(r) ==
  LET ds == approval[r].decisions
  IN  ds = <<>> \/ \E i \in DOMAIN ds : IsCurrent(ds[i], approval[r].binding)

AllCurrent(r) ==
  \A i \in DOMAIN approval[r].decisions :
    IsCurrent(approval[r].decisions[i], approval[r].binding)

ValidDecisions(r) ==
  LET ds    == approval[r].decisions
      roles == RequiredRoles(approval[r].binding)
  IN  /\ Len(ds) <= Len(roles)
      /\ \A i, j \in DOMAIN ds :
           i # j => ds[i].human # ds[j].human /\ ds[i].authority # ds[j].authority
      /\ \A i \in DOMAIN ds : ds[i].role = roles[i]

FullyDecided(r) ==
  Len(approval[r].decisions) = Len(RequiredRoles(approval[r].binding))

\* The first required role that no decision has filled yet.
IsOpenRole(r, role) ==
  LET ds    == approval[r].decisions
      roles == RequiredRoles(approval[r].binding)
      open(i) == \A k \in DOMAIN ds : ds[k].role # roles[i]
  IN  \E i \in DOMAIN roles :
        /\ role = roles[i]
        /\ open(i)
        /\ \A j \in 1 .. (i - 1) : ~open(j)

Expired(x) == x.expiresAt <= now

ClaimMatches(r) ==
  /\ claim[r].issued
  /\ claim[r].binding = approval[r].binding
  /\ claim[r].decisions = approval[r].decisions

Touches(r, b, s) == s = RunOf[r] \/ (b \in Bindings /\ s \in ScopesOf[b])

-----------------------------------------------------------------------------
(* A pending approval expires the next time any operation looks at it.     *)

\* Variant: an approval expires whatever has become of it.
LapsingAnyhow(r) == approval[r].status # "none" /\ Expired(approval[r])

Lapsing(r) == approval[r].status = "pending" /\ Expired(approval[r])

ExpirePending(r) ==
  /\ Lapsing(r)
  /\ approval' = [approval EXCEPT ![r].status = "expired"]
  /\ UNCHANGED <<now, authority, claim, revoking, consumptions>>

\* A later call names the operation the approval was created for, in every
\* field of the binding.
SameRequest(r, b) == approval[r].binding = b

GetOrCreate(r, b) ==
  \/ /\ approval[r].status = "none"
     /\ approval' = [approval EXCEPT ![r] =
          [status |-> "pending", binding |-> b, expiresAt |-> now + TTL,
           decisions |-> <<>>]]
     /\ UNCHANGED <<now, authority, claim, revoking, consumptions>>
  \/ /\ SameRequest(r, b)
     /\ ExpirePending(r)

Get(r) == ExpirePending(r)

\* Variant: a human may fill every role they hold an authority for.
MayDecideTwice(r, h, a, role) ==
  /\ approval[r].status = "pending"
  /\ ~Expired(approval[r])
  /\ ValidDecisions(r)
  /\ AllCurrent(r)
  /\ IsOpenRole(r, role)
  /\ Eligible(a, h, approval[r].binding, role)

\* Variant: an approval that was denied can still be signed.
MayDecideAgain(r, h, a, role) ==
  /\ approval[r].status \in {"pending", "denied"}
  /\ ~Expired(approval[r])
  /\ ValidDecisions(r)
  /\ AllCurrent(r)
  /\ \A i \in DOMAIN approval[r].decisions : approval[r].decisions[i].human # h
  /\ IsOpenRole(r, role)
  /\ Eligible(a, h, approval[r].binding, role)

\* The checks that approve and deny share before a human fills a role.
MayDecide(r, h, a, role) ==
  /\ approval[r].status = "pending"
  /\ ~Expired(approval[r])
  /\ ValidDecisions(r)
  /\ AllCurrent(r)
  /\ \A i \in DOMAIN approval[r].decisions : approval[r].decisions[i].human # h
  /\ IsOpenRole(r, role)
  /\ Eligible(a, h, approval[r].binding, role)

DecisionOf(h, a, role, verdict) ==
  [human |-> h, authority |-> a, revision |-> authority[a].revision, role |-> role,
   verdict |-> verdict]

Approve(r, h) ==
  \/ ExpirePending(r)
  \/ \E a \in Authorities, role \in Roles :
       LET ds   == Append(approval[r].decisions, DecisionOf(h, a, role, "approve"))
           done == Len(ds) >= Len(RequiredRoles(approval[r].binding))
       IN  /\ MayDecide(r, h, a, role)
           /\ approval' = [approval EXCEPT
                ![r].decisions = ds,
                ![r].status = IF done THEN "approved" ELSE "pending"]
           /\ claim' = [claim EXCEPT ![r] =
                IF done
                THEN [issued |-> TRUE, remainingUses |-> 1,
                      binding |-> approval[r].binding, expiresAt |-> now + TTL,
                      decisions |-> ds]
                ELSE @]
           /\ UNCHANGED <<now, authority, revoking, consumptions>>

Deny(r, h) ==
  \/ ExpirePending(r)
  \/ \E a \in Authorities, role \in Roles :
       /\ MayDecide(r, h, a, role)
       /\ approval' = [approval EXCEPT
            ![r].decisions = Append(@, DecisionOf(h, a, role, "deny")),
            ![r].status = "denied"]
       /\ UNCHANGED <<now, authority, claim, revoking, consumptions>>

-----------------------------------------------------------------------------
(* consumeCapability, in the order of its checks.                          *)

Consumable(r, b) ==
  /\ approval[r].status = "approved"
  /\ SameRequest(r, b)
  /\ ValidDecisions(r)
  /\ FullyDecided(r)

ClaimUsable(r) ==
  /\ ClaimMatches(r)
  /\ claim[r].remainingUses = 1

\* Whether consumeCapability changes anything.
Consumes(r, b) ==
  \/ SameRequest(r, b) /\ Lapsing(r)
  \/ Consumable(r, b) /\ (~AllCurrent(r) \/ ClaimUsable(r))

ConsumeCapability(r, b) ==
  \/ /\ SameRequest(r, b)
     /\ ExpirePending(r)
  \/ /\ Consumable(r, b)
     /\ ~AllCurrent(r)
     /\ claim' = [claim EXCEPT ![r].remainingUses = 0]
     /\ approval' = [approval EXCEPT ![r].status = "revoked"]
     /\ UNCHANGED <<now, authority, revoking, consumptions>>
  \/ /\ Consumable(r, b)
     /\ AllCurrent(r)
     /\ ClaimUsable(r)
     /\ Expired(claim[r])
     /\ claim' = [claim EXCEPT ![r].remainingUses = 0]
     /\ approval' = [approval EXCEPT ![r].status = "expired"]
     /\ UNCHANGED <<now, authority, revoking, consumptions>>
  \/ /\ Consumable(r, b)
     /\ AllCurrent(r)
     /\ ClaimUsable(r)
     /\ ~Expired(claim[r])
     /\ claim' = [claim EXCEPT ![r].remainingUses = 0]
     /\ approval' = [approval EXCEPT ![r].status = "consumed"]
     /\ consumptions' = [consumptions EXCEPT ![r] = @ + 1]
     /\ UNCHANGED <<now, authority, revoking>>

\* The recheck next to the side effect: the claim this request consumed is
\* still backed by current authorities.
IsConsumedClaimValid(r, b) ==
  /\ approval[r].status = "consumed"
  /\ SameRequest(r, b)
  /\ ClaimMatches(r)
  /\ claim[r].remainingUses = 0
  /\ ValidDecisions(r)
  /\ FullyDecided(r)
  /\ AllCurrent(r)

-----------------------------------------------------------------------------
(* Revocation.  A claim that matches loses its use whatever the status of  *)
(* its approval; an approval already decided otherwise keeps its status.   *)

\* Variant: revocation leaves the use alone.
Kept(c) == c

Drained(c) == [c EXCEPT !.remainingUses = 0]

RevokeClaims(approvals, claims) ==
  /\ claim' = [r \in Requests |->
       IF claim[r].issued /\ r \in claims
       THEN Drained(claim[r]) ELSE claim[r]]
  /\ approval' = [r \in Requests |->
       IF approval[r].status \in {"pending", "approved"} /\ r \in approvals
       THEN [approval[r] EXCEPT !.status = "revoked"] ELSE approval[r]]

\* revokeForRun, revokeForGrant, revokeForResource, revokeForDestination.
RevokeForScope(s) ==
  /\ RevokeClaims({r \in Requests : Touches(r, approval[r].binding, s)},
                  {r \in Requests : Touches(r, claim[r].binding, s)})
  /\ UNCHANGED <<now, authority, revoking, consumptions>>

SignedBy(x, a) == \E i \in DOMAIN x.decisions : x.decisions[i].authority = a

RevokeAuthority(a) ==
  /\ a \notin revoking
  /\ authority' = [authority EXCEPT ![a] =
       IF @.active THEN [active |-> FALSE, revision |-> @.revision + 1] ELSE @]
  /\ revoking' = revoking \cup {a}
  /\ UNCHANGED <<now, approval, claim, consumptions>>

RevokeForAuthority(a) ==
  /\ a \in revoking
  /\ RevokeClaims({r \in Requests : SignedBy(approval[r], a)},
                  {r \in Requests : SignedBy(claim[r], a)})
  /\ revoking' = revoking \ {a}
  /\ UNCHANGED <<now, authority, consumptions>>

RevokeForAuthorityFails(a) ==
  /\ a \in Unlucky
  /\ a \in revoking
  /\ revoking' = revoking \ {a}
  /\ UNCHANGED <<now, authority, approval, claim, consumptions>>

-----------------------------------------------------------------------------
(* A restart loses the second half of a revocation in progress.  Loading   *)
(* the file keeps only the claims that still prove their approval, then    *)
(* terminates the approvals that have lost their authorities or claim, and *)
(* those bound to a destination that has changed since (the stale ones).   *)

ClaimConsistent(r) ==
  /\ ClaimMatches(r)
  /\ AllCurrent(r)
  /\ \/ approval[r].status = "approved" /\ claim[r].remainingUses = 1
     \/ approval[r].status = "consumed" /\ claim[r].remainingUses = 0

Reconciled(r) ==
  CASE approval[r].status = "pending" -> AllCurrent(r)
    [] approval[r].status \in {"approved", "consumed"} -> ClaimConsistent(r)
    [] OTHER -> TRUE

\* Only an approval that names a destination can be stale.
BoundToDestination(b) == b \in Bindings /\ ScopesOf[b] \cap Destinations # {}

Reload(stale) ==
  /\ claim' = [r \in Requests |->
       IF ~ClaimConsistent(r) THEN NoClaim
       ELSE IF r \in stale THEN Drained(claim[r])
       ELSE claim[r]]
  /\ approval' = [r \in Requests |->
       IF \/ ~Reconciled(r)
          \/ r \in stale /\ approval[r].status \in {"pending", "approved"}
       THEN [approval[r] EXCEPT !.status = "revoked"]
       ELSE approval[r]]
  /\ revoking' = {}
  /\ UNCHANGED <<now, authority, consumptions>>

Restart ==
  \E stale \in SUBSET {r \in Requests : BoundToDestination(approval[r].binding)} :
    Reload(stale)

Tick ==
  /\ now < MaxTime
  /\ now' = now + 1
  /\ UNCHANGED <<authority, approval, claim, revoking, consumptions>>

Next ==
  \/ \E r \in Requests, b \in Bindings : GetOrCreate(r, b) \/ ConsumeCapability(r, b)
  \/ \E r \in Requests : Get(r)
  \/ \E r \in Requests, h \in Humans : Approve(r, h) \/ Deny(r, h)
  \/ \E s \in Scopes : RevokeForScope(s)
  \/ \E a \in Authorities :
       RevokeAuthority(a) \/ RevokeForAuthority(a) \/ RevokeForAuthorityFails(a)
  \/ Restart
  \/ Tick

Spec == Init /\ [][Next]_vars

\* revoke awaits revokeForAuthority as its next statement.
FairSpec == Spec /\ \A a \in Authorities : WF_vars(RevokeForAuthority(a))

-----------------------------------------------------------------------------
(* Safety.                                                                 *)

\* No interleaving of consumers, revocations, failed writes and restarts
\* makes consumeCapability return "consumed" twice for one request, and a
\* request that was consumed can never again be decided or consumed.
ConsumedOnce ==
  \A r \in Requests :
    /\ consumptions[r] <= 1
    /\ consumptions[r] = 1 => approval[r].status \in {"consumed", "revoked"}

\* A claim carries its use exactly while its approval is approved, and then
\* it is the claim of that approval: revokeClaims, consumeCapability and the
\* reconciliation at start never leave the two records disagreeing.
ClaimFollowsApproval ==
  \A r \in Requests :
    /\ (claim[r].remainingUses = 1) <=> (approval[r].status = "approved")
    /\ approval[r].status = "approved" => ClaimMatches(r)

\* Whatever was approved or consumed was signed by as many humans as its risk
\* requires, all different, each through an authority of their own that holds
\* the required role and covers exactly this operation; none of them denied.
DualControl ==
  \A r \in Requests :
    \/ approval[r].status \notin {"approved", "consumed"}
    \/ /\ FullyDecided(r)
       /\ ValidDecisions(r)
       /\ \A i \in DOMAIN approval[r].decisions :
            LET d == approval[r].decisions[i]
            IN  /\ d.verdict = "approve"
                /\ HumanOf[d.authority] = d.human
                /\ RoleOf[d.authority] = d.role
                /\ approval[r].binding \in Covers[d.authority]

\* A use is handed out only while every human who signed still holds the very
\* authority they signed with and the claim has not outlived its TTL, even
\* when the revocation of the approvals themselves has not happened yet.
ConsumesOnlyCurrent ==
  [][\A r \in Requests :
       consumptions'[r] # consumptions[r] =>
         /\ claim[r].remainingUses = 1
         /\ now < claim[r].expiresAt
         /\ \A i \in DOMAIN claim[r].decisions :
              LET d == claim[r].decisions[i]
              IN  authority[d.authority].active
                    /\ authority[d.authority].revision = d.revision
    ]_vars

\* The operation a human approved is the operation that is used: from the
\* moment an approval exists its binding never changes, and its decisions are
\* only ever extended while it is pending.
BindingIsFixed ==
  [][\A r \in Requests :
       approval[r].status # "none" =>
         /\ approval'[r].binding = approval[r].binding
         /\ approval'[r].decisions # approval[r].decisions =>
              approval[r].status = "pending"
    ]_vars

\* The service implements the one-use capability.  A request whose use was
\* returned stays used, even when a later restart relabels its approval.
phaseOf ==
  [r \in Requests |->
     IF consumptions[r] > 0 THEN "used"
     ELSE CASE approval[r].status = "none" -> "unissued"
            [] approval[r].status = "pending" -> "open"
            [] approval[r].status = "approved" -> "usable"
            [] OTHER -> "void"]

neededOf ==
  [r \in Requests |->
     IF approval[r].status = "none" THEN 0 ELSE Len(RequiredRoles(approval[r].binding))]

\* The signatures; a denial is not one.
signersOf ==
  [r \in Requests |->
     LET ds   == approval[r].decisions
         last == Len(ds)
         n    == IF last > 0 /\ ds[last].verdict = "deny" THEN last - 1 ELSE last
     IN  [i \in 1 .. n |-> ds[i].human]]

Promise == INSTANCE OneUseCapability WITH
  Capabilities <- Requests,
  phase <- phaseOf, needed <- neededOf, signers <- signersOf

ImplementsOneUse == Promise!CapSpec

\* Once an authority is revoked, every pending or approved approval it signed
\* is eventually terminated, whether the second mutation of revoke runs or a
\* restart takes its place, unless the write of that mutation fails.
RevokedAuthorityDrains ==
  \A a \in Authorities \ Unlucky :
    ~authority[a].active ~>
      \A r \in Requests :
        approval[r].status \in {"pending", "approved"} => ~SignedBy(approval[r], a)
=============================================================================
