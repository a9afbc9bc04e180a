-------------------------------- MODULE MCConfig -------------------------------
(* One tuning besides the default and two profiles.                          *)
EXTENDS RuntimeConfig
=============================================================================
