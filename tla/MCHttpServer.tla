---------------------------- MODULE MCHttpServer ----------------------------
(* Instances of HttpServer for TLC. *)
EXTENDS HttpServer, TLC

(* Connections are interchangeable: no definition distinguishes them. Used *)
(* by the safety run only.                                                 *)
ClientSymmetry == Permutations(Clients)

=============================================================================
