------------------------ MODULE MCApplicationDocument ------------------------
\* For TLC: requests, applications and names are interchangeable.
EXTENDS ApplicationDocument, TLC

Symmetry ==
    Permutations(Requests) \cup Permutations(Applications) \cup Permutations(Names)
==============================================================================
