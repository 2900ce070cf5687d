---------------------------- MODULE MCHttpClient ----------------------------
(* Two requests to one host. *)
EXTENDS HttpClient, TLC

CONSTANTS r1, r2, host
MCHostOf == (r1 :> host) @@ (r2 :> host)
=============================================================================
