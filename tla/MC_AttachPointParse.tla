------------------------- MODULE MC_AttachPointParse -------------------------
EXTENDS AttachPointParse, AttachPointInputs
=============================================================================
