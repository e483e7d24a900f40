----------------------------- MODULE MCLoadGen -----------------------------
EXTENDS LoadGen
=============================================================================
