----------------------------- MODULE MC_TSeries -----------------------------
EXTENDS TSeries

\* Arguments: two values, so that min, max and a sum tell updates apart.
MC_Vals == {1, 2}
=============================================================================
