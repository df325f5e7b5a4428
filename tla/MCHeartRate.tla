------------------------------ MODULE MCHeartRate ------------------------------
(* Two sets of Blecon's, one connectable, beside the heart rate monitor's, *)
(* with the three connection objects of coexistence.conf.                  *)
EXTENDS HeartRate
==============================================================================
