---------------------------- MODULE MCPasswords ----------------------------
(* Two worker threads and the main thread, whose second call nests in the  *)
(* first, over one or two keys.                                            *)
EXTENDS Passwords, TLC
CONSTANTS t1, t2, m1, m2, k1, k2, w
=============================================================================
