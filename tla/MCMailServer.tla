---------------------------- MODULE MCMailServer ----------------------------
(* One or two sending threads, one or two POP3 sessions.                   *)
EXTENDS MailServer, TLC
CONSTANTS s1, s2, c1, c2

MCMail == {<<"net", "box">>, <<"net", "none">>, <<"other", "none">>}
=============================================================================
