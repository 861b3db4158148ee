--------------------------- MODULE MCMemoryStore ---------------------------
\* Three memories, of which two share a slug, and two types: a file holds one
\* memory or another, and one of them can be in either file.  The line of beta
\* has alpha in brackets, and the index has room for two.
EXTENDS MemoryStore, TLC

CONSTANTS alpha, beta, gamma, project, user, f1, f2, x1, c1, c2

MCFileOf(type, t) ==
  IF t = beta \/ (t = alpha /\ type = project) THEN f1 ELSE f2
MCMentions(m, t) == m.title = beta /\ t = alpha
=============================================================================
