------------------------- MODULE MC_AttachPointLexer -------------------------
EXTENDS AttachPointLexer, AttachPointInputs
=============================================================================
