-------------------------- MODULE MCAzureProvision --------------------------
EXTENDS AzureProvision

CONSTANTS lb1  \* the rule of one LoadBalancer service

\* The route table, the security group and the availability set may be
\* left empty for the provider; the other names are given.
MCFields == {AC!RouteTable, AC!SecurityGroup, AC!AvailabilitySet}

MCForeignRules == {lb1}

=============================================================================
