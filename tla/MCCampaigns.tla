---------------------------- MODULE MCCampaigns ----------------------------
EXTENDS Campaigns

CONSTANTS c1, r1, r2

\* A campaign to groups that runs once, and one to members that recurs.
GroupOnceMembersAgain ==
    {[groupOnly |-> TRUE, recurs |-> FALSE, totalTarget |-> 2],
     [groupOnly |-> FALSE, recurs |-> TRUE, totalTarget |-> 1]}
=============================================================================
