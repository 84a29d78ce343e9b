---------------------------- MODULE MCDeployment ----------------------------
\* docker-compose.yml with two nodes, of which `ai` waits for its model only.
EXTENDS Deployment

CONSTANTS ai, regex

\* Both nodes; the regex node taken out; a slug given to the other node.
MCPlans == {[a |-> ai, r |-> regex], [a |-> ai], [a |-> ai, r |-> ai]}
=============================================================================
