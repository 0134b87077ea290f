--------------------------- MODULE MCAdminAccount ---------------------------
(***************************************************************************)
(* Four requests: two setups that race and two requests of the account, or *)
(* any other mix; two emails and two passwords.                            *)
(***************************************************************************)
EXTENDS AdminAccount, TLC
CONSTANTS r1, r2, r3, r4, e1, e2, p1, p2
Sym == Permutations(Requests) \cup Permutations(Emails) \cup Permutations(Passwords)
=============================================================================
