----------------------------- MODULE MCTeamRuns -----------------------------
(* A team of two.                                                           *)
EXTENDS TeamRuns

CONSTANTS alice, bob, ann, ben

MCTeam == <<alice, bob>>
OneOwner == [a \in {alice, bob} |-> ann]
TwoOwners == [a \in {alice, bob} |-> IF a = alice THEN ann ELSE ben]

Other == [kind |-> "other"]
FullStackPage == [kind |-> "full stack"]
CountFrom(n) == [kind |-> "countdown", start |-> n, end |-> 1]

\* What the model may propose: a graph that can be used, whose last two tasks
\* are for one agent, and one that cannot for each reason there is.
Fork == <<Task(2, alice, {1}), Task(1, bob, {}), Task(3, alice, {1})>>
Unusable == {
  <<>>,
  <<Task(1, alice, {}), Task(1, bob, {})>>,
  <<Task(1, "stranger", {})>>,
  <<Task(1, alice, {2})>>,
  <<Task(1, alice, {1})>>,
  <<Task(1, alice, {}), Task(2, bob, {1, 3}), Task(3, alice, {2})>> }

Asked(proposal, prompt) == [proposal |-> proposal, prompt |-> prompt]

\* The countdown takes a layer more than the loop has iterations, the other
\* graphs just as many.  The second message is for a task of bob's.
Short == Asked(<<Task(2, bob, {})>>, Other)
MCMessages == [r \in Runs |->
  IF r > 1 THEN {Short}
  ELSE {Short} \cup {Asked(g, Other) : g \in Unusable \cup {Fork}}
         \cup {Asked(<<>>, p) : p \in {FullStackPage, CountFrom(MaxTasks), CountFrom(0)}}]
=============================================================================
