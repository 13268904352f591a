-------------------------- MODULE MCChatStream ---------------------------
(***************************************************************************)
(* ChatStream on a small instance: three questions over two threads, so    *)
(* that one waits in the pool, one can resume what another has saved, and  *)
(* two can be answered in the same session at once.                        *)
(***************************************************************************)
EXTENDS ChatStream
=============================================================================
