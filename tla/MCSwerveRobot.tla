---------------------------- MODULE MCSwerveRobot ----------------------------
(* The robot's four corners, sixteen directions, wheel speeds up to two.   *)
EXTENDS SwerveRobot, Sequences

MCCorners == {"front_left", "front_right", "rear_left", "rear_right"}
MCPosX == [c \in MCCorners |-> IF c \in {"front_left", "front_right"} THEN 1 ELSE -1]
MCPosY == [c \in MCCorners |-> IF c \in {"front_left", "rear_left"} THEN 1 ELSE -1]
MCSteered == {"front_left", "front_right"}

FirstQuarter == << <<1, 0>>, <<2, 1>>, <<1, 1>>, <<1, 2>> >>

MCDir == [h \in 0 .. 15 |->
            LET p == FirstQuarter[(h % 4) + 1]
            IN  CASE h \div 4 = 0 -> [x |-> p[1],  y |-> p[2]]
                  [] h \div 4 = 1 -> [x |-> -p[2], y |-> p[1]]
                  [] h \div 4 = 2 -> [x |-> -p[1], y |-> -p[2]]
                  [] h \div 4 = 3 -> [x |-> p[2],  y |-> -p[1]]]

Forward  == [Zero EXCEPT !.vx = 1]
Sideways == [Zero EXCEPT !.vy = 1]
InPlace  == [Zero EXCEPT !.wz = 1]
Diagonal == [Sideways EXCEPT !.vx = 1]

MCThreeTwists == {Forward, Sideways, InPlace}
MCOneTwist == {Diagonal}

(* A diagonal pair, for the liveness run. *)
MCPair == {"front_left", "rear_right"}
MCPairX == [c \in MCPair |-> MCPosX[c]]
MCPairY == [c \in MCPair |-> MCPosY[c]]
MCPairSteered == {"front_left"}
MCPairReadings == [deg0 : SUBSET MCPair, deg90 : SUBSET MCPair]

MCReadings == [deg0 : SUBSET MCCorners, deg90 : SUBSET MCCorners]
=============================================================================
