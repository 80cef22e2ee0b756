--------------------------- MODULE MCAuthSessions ---------------------------
(* Model-checking instance of AuthSessions. *)
EXTENDS AuthSessions, TLC

CONSTANTS founder, c1, c2, c3

Alike == Permutations(Calls \ Founders) \cup Permutations(Passwords) \cup Permutations(Emails)
=============================================================================
