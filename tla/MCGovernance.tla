---------------------------- MODULE MCGovernance ----------------------------
(* One team of two, one agent, and every kind of content request.           *)
EXTENDS Governance

CONSTANTS alice, bob, alpha, helper, v1, v2

MCOwner == [a \in {helper} |-> alice]

MCFirstMembers ==
  [t \in {alpha} |-> [h \in {alice, bob} |-> IF h = alice THEN "admin" ELSE "viewer"]]

MCAskedTerms ==
  {[role |-> "viewer", expiresAt |-> None], [role |-> "admin", expiresAt |-> 1]}

File(classification, minimumRole) ==
  [type |-> "team_file", owner |-> None, team |-> alpha,
   classification |-> classification, minimumRole |-> minimumRole]

MCFiles == {File("internal", "editor"), File("restricted", "viewer")}

Asset(classification) ==
  [type |-> "content_asset", owner |-> alice, classification |-> classification,
   tenant |-> alice, asset |-> "video", version |-> v1, region |-> "SG"]

Target(classification) ==
  [type |-> "deployment_target", owner |-> alice, classification |-> classification]

DestinationsFor(action) ==
  [id : {"registered"}, status : {"enabled", "disabled"}, tenant : {alice, bob},
   actions : {{action}}, purposes : {{PurposeOf[action]}},
   classification : {"sensitive", "restricted"}, environment : {"local"},
   audience : {"team", "external"}, reach : {"narrow", "broad"},
   region : {"SG", "GLOBAL"}]

Bound(h, version, action) ==
  [tenant |-> h, asset |-> "video", version |-> version, purpose |-> PurposeOf[action]]

AnalyticsScope ==
  [human |-> alice, tenant |-> alice, assets |-> {"video"}, destinations |-> {"registered"}]

Plain(h, resource, action) ==
  [human |-> h, agent |-> helper, resource |-> resource, action |-> action,
   memberships |-> {}, grants |-> <<>>, scopes |-> {}, binding |-> None,
   destination |-> None, registered |-> None]

Sent(q, version, d) ==
  [q EXCEPT !.binding = Bound(q.human, version, q.action),
            !.scopes = IF q.human = alice THEN {AnalyticsScope} ELSE {},
            !.destination = IF d = None THEN None ELSE "registered",
            !.registered = d]

MCContentRequests ==
  {Plain(h, Target(c), action) :
     h \in {alice, bob}, c \in {"internal", "sensitive"},
     action \in {"deploy.staging", "deploy.production", "resource.read"}}
  \cup UNION {
    {Sent(Plain(h, Asset(c), action), version, d) :
       h \in {alice, bob}, c \in {"sensitive", "restricted"}, version \in {v1, v2},
       d \in DestinationsFor(action) \cup {None}} : action \in ContentActions}
=============================================================================
