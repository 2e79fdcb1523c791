---------------------------- MODULE MCChatServer ----------------------------
EXTENDS ChatServer, TLC

CONSTANTS a, b, c1, c2, f1, f2

\* Callers and room names are interchangeable, and so are the factories.
Symmetric == Permutations(Names) \cup Permutations(Callers) \cup Permutations(Factories)
=============================================================================
