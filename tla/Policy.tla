------------------------------- MODULE Policy -------------------------------
(***************************************************************************)
(* DeterministicPolicyEngine.evaluate, DeterministicRiskEngine.assess and  *)
(* what the gateway makes of the two: a request is denied, allowed, or     *)
(* waits for so many signatures.                                           *)
(*                                                                         *)
(* A tenant stands for the organisation, business centre and account that  *)
(* are always compared together.  The reason codes and the risk named in a *)
(* policy decision are left out: the gateway decides by the outcome and by *)
(* the tier of the risk engine.                                            *)
(***************************************************************************)
EXTENDS Integers, Sequences

CONSTANTS
  None,   \* null or undefined
  Teams   \* the registered teams

Rank == [viewer |-> 1, editor |-> 2, admin |-> 3]

Roles == DOMAIN Rank

GrantActions == {"resource.read", "file.read", "deploy.staging", "deploy.production"}

ContentActions == {"content.moderate", "content.disclose", "content.publish", "content.export"}

Actions == GrantActions \cup ContentActions

PurposeOf ==
  [a \in ContentActions |->
     CASE a = "content.moderate" -> "safety_moderation"
       [] a = "content.publish"  -> "creator_requested_publish"
       [] a = "content.disclose" -> "approved_analytics"
       [] a = "content.export"   -> "compliance_archive"]

EnvironmentFor(action) ==
  CASE action = "deploy.staging"    -> "staging"
    [] action = "deploy.production" -> "production"
    [] OTHER                        -> "local"

Deny == "deny"
Allow == "allow"
Approve == "require_approval"

-----------------------------------------------------------------------------
(* The policy engine.  A request q has the human, agent, memberships,      *)
(* grants (by position) and scopes of its subject, a resource, and an      *)
(* action with its binding, destination and the registration of the        *)
(* destination.                                                            *)

ResourceShape(r) ==
  CASE r.type = "team_file" ->
         r.owner = None /\ r.classification \in {"internal", "restricted"}
           /\ r.minimumRole \in Roles
    [] r.type = "content_asset" ->
         r.owner # None /\ r.classification \in {"sensitive", "restricted"}
    [] r.type \in {"project_profile", "deployment_target"} ->
         r.owner # None /\ r.classification \in {"internal", "sensitive"}
    [] OTHER -> FALSE

GrantShape(g, agent) ==
  /\ g.agent = agent
  /\ g.team \in Teams
  /\ g.role \in Roles
  /\ g.actions \subseteq GrantActions
  /\ g.status \in {"active", "revoked"}
  /\ g.bundleVersion > 0

\* What the human brings along is their own, and a content action is bound.
SubjectShape(q) ==
  /\ \A m \in q.memberships : m.human = q.human /\ m.team \in Teams /\ m.role \in Roles
  /\ \A s \in q.scopes : s.human = q.human
  /\ q.action \in ContentActions => q.binding # None

AttributeShape(q) ==
  /\ SubjectShape(q)
  /\ \A i \in DOMAIN q.grants : GrantShape(q.grants[i], q.agent)
  /\ ResourceShape(q.resource)

\* Variant: the enrolment that is looked at is the first there has been.
FirstGrants(q) == {i \in DOMAIN q.grants : q.grants[i].team = q.resource.team}

ActiveGrants(q) ==
  {i \in DOMAIN q.grants : q.grants[i].team = q.resource.team /\ q.grants[i].status = "active"}

IsMember(q) ==
  \E m \in q.memberships :
    m.team = q.resource.team /\ Rank[m.role] >= Rank[q.resource.minimumRole]

Covers(g, now) ==
  /\ g.status = "active"
  /\ g.expiresAt # None => g.expiresAt > now
  /\ "file.read" \in g.actions

\* What the agent needs: a restricted file asks for an editor at least.
AgentRank(f) ==
  IF f.classification = "restricted" /\ Rank[f.minimumRole] < Rank.editor
  THEN Rank.editor ELSE Rank[f.minimumRole]

TeamFileDecision(q, now) ==
  LET f == q.resource
      active == ActiveGrants(q)
      grant == q.grants[CHOOSE i \in active : \A j \in active : i <= j]
  IN  IF ~ /\ q.action = "file.read"
           /\ f.team \in Teams
           /\ IsMember(q)
           /\ active # {}
           /\ Covers(grant, now)
      THEN Deny
      ELSE IF Rank[grant.role] >= AgentRank(f) THEN Allow
      ELSE IF f.classification = "restricted" THEN Approve
      ELSE Deny

IsBound(q) ==
  /\ q.resource.type = "content_asset"
  /\ q.human = q.resource.owner
  /\ q.binding.tenant = q.resource.tenant
  /\ q.binding.asset = q.resource.asset
  /\ q.binding.version = q.resource.version
  /\ q.binding.purpose = PurposeOf[q.action]

Accepts(d, q) ==
  /\ d.id = q.destination
  /\ d.status = "enabled"
  /\ q.action \in d.actions
  /\ q.binding.purpose \in d.purposes
  /\ d.classification = IF q.action = "content.disclose" THEN "sensitive" ELSE "restricted"
  /\ d.environment = EnvironmentFor(q.action)
  /\ d.tenant = q.resource.tenant

InScope(q) ==
  \E s \in q.scopes :
    /\ s.tenant = q.resource.tenant
    /\ q.resource.asset \in s.assets
    /\ q.destination \in s.destinations

ContentDecision(q) ==
  IF ~IsBound(q) THEN Deny
  ELSE IF q.action = "content.moderate" THEN IF q.destination = None THEN Allow ELSE Deny
  ELSE IF q.destination = None \/ q.registered = None THEN Deny
  ELSE IF ~Accepts(q.registered, q) THEN Deny
  ELSE IF q.action # "content.disclose" THEN Approve
  ELSE IF InScope(q) THEN Allow ELSE Deny

Evaluate(q, now) ==
  LET type == q.resource.type
  IN  IF ~AttributeShape(q) \/ q.action \notin Actions THEN Deny
      ELSE IF type = "team_file" THEN TeamFileDecision(q, now)
      ELSE IF q.action \in ContentActions THEN ContentDecision(q)
      ELSE IF q.human # q.resource.owner THEN Deny
      ELSE IF q.action = "resource.read" /\ type = "project_profile" THEN Allow
      ELSE IF q.action = "deploy.staging" /\ type = "deployment_target" THEN Allow
      ELSE IF q.action = "deploy.production" /\ type = "deployment_target" THEN Approve
      ELSE Deny

-----------------------------------------------------------------------------
(* The risk engine and the gateway.                                        *)

\* The facts of a content action can be stated.
HasRiskFacts(q) ==
  q.action \in ContentActions =>
    /\ q.resource.type = "content_asset"
    /\ IF q.action = "content.moderate" THEN q.destination = None
       ELSE q.registered # None /\ q.registered.id = q.destination

ExternalBroad(q) == q.registered.audience = "external" /\ q.registered.reach = "broad"

CrossRegion(q) == q.registered.region # q.resource.region

\* Variant: only what is broad and goes to another region counts.
TierForBoth(q) ==
  CASE q.action \in {"resource.read", "content.moderate"} -> "low"
    [] q.action = "file.read" -> IF q.resource.classification = "restricted" THEN "high" ELSE "low"
    [] q.action = "deploy.staging" -> "medium"
    [] q.action = "deploy.production" -> "high"
    [] q.action = "content.disclose" ->
         IF ExternalBroad(q) /\ CrossRegion(q) THEN "medium" ELSE "low"
    [] OTHER ->
         IF q.resource.classification = "sensitive"
              /\ ((ExternalBroad(q) /\ CrossRegion(q)) \/ q.action = "content.export")
         THEN "critical" ELSE "high"

TierFor(q) ==
  CASE q.action \in {"resource.read", "content.moderate"} -> "low"
    [] q.action = "file.read" -> IF q.resource.classification = "restricted" THEN "high" ELSE "low"
    [] q.action = "deploy.staging" -> "medium"
    [] q.action = "deploy.production" -> "high"
    [] q.action = "content.disclose" ->
         IF ExternalBroad(q) \/ CrossRegion(q) THEN "medium" ELSE "low"
    [] OTHER ->
         IF q.resource.classification = "sensitive"
              /\ (ExternalBroad(q) \/ CrossRegion(q) \/ q.action = "content.export")
         THEN "critical" ELSE "high"

Denied == [outcome |-> Deny, signatures |-> 0]

\* Every tier but the lowest asks for a signature, whatever the policy says.
Gate(q, now) ==
  LET decision == Evaluate(q, now)
      needed == IF TierFor(q) = "critical" THEN 2 ELSE 1
  IN  IF decision = Deny \/ ~HasRiskFacts(q) THEN Denied
      ELSE IF decision = Approve \/ TierFor(q) # "low"
           THEN [outcome |-> Approve, signatures |-> needed]
      ELSE [outcome |-> Allow, signatures |-> 0]
=============================================================================
