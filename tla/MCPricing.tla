----------------------------- MODULE MCPricing -----------------------------
EXTENDS Pricing, TLC

CallSymmetry == Permutations(Calls)
MCVersions == <<2, 1>>
MCForms == {{u} : u \in Users}
=============================================================================
