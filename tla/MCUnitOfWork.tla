---------------------------- MODULE MCUnitOfWork ----------------------------
(* Two pooled connections, each with the database session it has for life. *)
EXTENDS UnitOfWork

CONSTANTS c1, c2, s1, s2

MCHome(c) == IF c = c1 THEN s1 ELSE s2
=============================================================================
