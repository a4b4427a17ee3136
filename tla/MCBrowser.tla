----------------------------- MODULE MCBrowser -----------------------------
(* One user whose servers answer up to three times, so that redirects,     *)
(* challenges and logins nest, and two users who share my.failed.          *)
EXTENDS Browser, TLC

MCReplies == 1 :> 3 @@ 2 :> 1
=============================================================================
