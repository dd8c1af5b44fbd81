---------------------------- MODULE MCWebServer ----------------------------
(* Two browsers with any two requests, on a queue of one cell.               *)
EXTENDS WebServer

CONSTANTS c1, c2
=============================================================================
