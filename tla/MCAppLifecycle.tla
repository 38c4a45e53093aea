--------------------------- MODULE MCAppLifecycle ---------------------------
(* AppLifecycle with agents under a name of their own and under vendors'.  *)
EXTENDS AppLifecycle

=============================================================================
