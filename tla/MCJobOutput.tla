---------------------------- MODULE MCJobOutput -----------------------------
EXTENDS JobOutputProps
=============================================================================
