------------------------ MODULE MCSessionLifecycle ------------------------
(* One session, small queues, short timeouts.                              *)
EXTENDS SessionLifecycle
============================================================================
