---------------------------- MODULE MCRouteText ----------------------------
(* A small instance of RouteText for TLC.                                  *)
EXTENDS RouteText
=============================================================================
