----------------------------- MODULE MCSession -----------------------------
(***************************************************************************)
(* Model-checking instance of Session: two CPUs, each running at most two  *)
(* clauses, so that a clause can be in flight on one CPU while the other   *)
(* executes exit() and the caller stops the session.                       *)
(***************************************************************************)
EXTENDS Session

\* A bufsize that dtrace_go accepts.
RoomyBufSize == 64
MCMaxRecLen == 16
=============================================================================
