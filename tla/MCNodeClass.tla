---------------------------- MODULE MCNodeClass ----------------------------
EXTENDS NodeClassControllers
CONSTANTS c1, c2
=============================================================================
