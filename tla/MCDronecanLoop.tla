----------------------------- MODULE MCDronecanLoop -----------------------------
(* 0.5 m/s on a wheel of 0.215396 m are 22.17 rpm, 0.25 rad/s are 2.39; the *)
(* simulator starts with the pole pairs of the URDF, or with one of the two *)
(* numbers that stood there before.                                         *)
EXTENDS DronecanLoop

MCEscs == 1 .. 2
MCPolePairs == {7, 10, 20}

ASSUME Telling
=============================================================================
