--------------------------- MODULE MCWebSessions ---------------------------
(***************************************************************************)
(* Two browsers and three requests, of any kind and in any order: a login  *)
(* crossed by a refusal, a logout or another login.                        *)
(***************************************************************************)
EXTENDS WebSessions

MCBrowser == {"laptop", "phone"}
=============================================================================
