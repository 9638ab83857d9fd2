-------------------------- MODULE MCSwerveSteering --------------------------
(* Four corners one unit from the centre on each axis; 32 directions, all  *)
(* the primitive ones with components up to 3.                             *)
EXTENDS SwerveSteering, Sequences

MCCorners == {"front_left", "front_right", "rear_left", "rear_right"}
MCPosX == [c \in MCCorners |-> IF c \in {"front_left", "front_right"} THEN 1 ELSE -1]
MCPosY == [c \in MCCorners |-> IF c \in {"front_left", "rear_left"} THEN 1 ELSE -1]

FirstQuarter == << <<1, 0>>, <<3, 1>>, <<2, 1>>, <<3, 2>>,
                   <<1, 1>>, <<2, 3>>, <<1, 2>>, <<1, 3>> >>

MCDir == [h \in 0 .. 31 |->
            LET p == FirstQuarter[(h % 8) + 1]
            IN  CASE h \div 8 = 0 -> [x |-> p[1],  y |-> p[2]]
                  [] h \div 8 = 1 -> [x |-> -p[2], y |-> p[1]]
                  [] h \div 8 = 2 -> [x |-> -p[1], y |-> -p[2]]
                  [] h \div 8 = 3 -> [x |-> p[2],  y |-> -p[1]]]

MCSteered == {"front_left", "rear_right"}
MCReadings == { [deg0 |-> MCCorners, deg90 |-> MCCorners],
                [deg0 |-> {"rear_left"}, deg90 |-> {}] }
MCTwists == [vx : {0, 2}, vy : {0, 1}, wz : {0, 1}] \cup [vx : {-1}, vy : {0}, wz : {0, 1}]
=============================================================================
