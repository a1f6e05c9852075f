-------------------------------- MODULE MCUsers --------------------------------
\* For TLC: requests and emails are interchangeable; the passwords a client may
\* choose and the others are not.
EXTENDS Users, TLC

Symmetry == Permutations(Requests) \cup Permutations(Emails)
==============================================================================
