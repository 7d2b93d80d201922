--------------------------- MODULE MCSessionStore ---------------------------
(* A shell and two one-shot commands on one session, which is deleted at    *)
(* any time, one run and one crash or storage error.                        *)
EXTENDS SessionStore

\* The lifecycle commands main.py offers.
UserCommands == {"pause", "resume", "archive"}
=============================================================================
