----------------------------- MODULE MCSession ------------------------------
(* Two people who want the same name; the page of one of them with three   *)
(* sockets at once, in production or in development.                       *)
EXTENDS Session
CONSTANTS s1, s2, s3, p1, p2
=============================================================================
