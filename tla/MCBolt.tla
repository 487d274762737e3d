------------------------------- MODULE MCBolt -------------------------------
EXTENDS Bolt

MCRequests ==
    {"hello", "run", "begin", "commit", "rollback", "pull", "route", "goodbye", "malformed"}
=============================================================================
