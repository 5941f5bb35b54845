--------------------------- MODULE MCAuthSessions ---------------------------
EXTENDS AuthSessions, TLC

\* Rows and requests are interchangeable (only safety is checked).
Interchangeable == Permutations(Tokens) \cup Permutations(Sessions)
=============================================================================
