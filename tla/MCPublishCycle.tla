--------------------------- MODULE MCPublishCycle ---------------------------
(* Two records, two faults of the hardware; one failed connection is enough *)
(* for radio silence and two for the last-ditch restart.                    *)
EXTENDS PublishCycle
=============================================================================
