--------------------------- MODULE MCChatSession ----------------------------
(***************************************************************************)
(* Small instances of ChatSession.  A history of three and four requests, so*)
(* that a session holds more messages than a prompt takes.                  *)
(***************************************************************************)
EXTENDS ChatSession
=============================================================================
