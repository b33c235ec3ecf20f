------------------------------ MODULE PiServoMC ------------------------------
(* PiServo for TLC: an error that breaks a hold (2), one that demotes (-4), *)
(* calm ones on both sides of the setpoint, wider gains in wider stages.    *)
EXTENDS PiServo
MCErrors == {-4, -1, 1, 2}
MCGain == [s \in Stages |-> IF s = "acquire" THEN 2 ELSE 1]
MCIntegral == [s \in Stages |-> 1]
=============================================================================
