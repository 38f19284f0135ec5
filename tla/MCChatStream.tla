---------------------------- MODULE MCChatStream -----------------------------
(***************************************************************************)
(* One row whose chat shares its provider with the embedding of a request. *)
(***************************************************************************)
EXTENDS ChatStream
=============================================================================
