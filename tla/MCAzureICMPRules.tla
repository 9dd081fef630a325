-------------------------- MODULE MCAzureICMPRules --------------------------
EXTENDS AzureICMPRules

CONSTANTS lb1  \* the rule of one LoadBalancer service

MCForeignRules == {lb1}
=============================================================================
