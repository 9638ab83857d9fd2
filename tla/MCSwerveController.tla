------------------------- MODULE MCSwerveController -------------------------
(* Two corners on a diagonal, one free and one locked in TWO_WHEEL mode:   *)
(* every role a corner can have.  32 directions, as in MCSwerveSteering.   *)
EXTENDS SwerveController, Sequences

MCCorners == {"front_left", "rear_right"}
MCPosX == [c \in MCCorners |-> IF c = "front_left" THEN 1 ELSE -1]
MCPosY == MCPosX

FirstQuarter == << <<1, 0>>, <<3, 1>>, <<2, 1>>, <<3, 2>>,
                   <<1, 1>>, <<2, 3>>, <<1, 2>>, <<1, 3>> >>

MCDir == [h \in 0 .. 31 |->
            LET p == FirstQuarter[(h % 8) + 1]
            IN  CASE h \div 8 = 0 -> [x |-> p[1],  y |-> p[2]]
                  [] h \div 8 = 1 -> [x |-> -p[2], y |-> p[1]]
                  [] h \div 8 = 2 -> [x |-> -p[1], y |-> -p[2]]
                  [] h \div 8 = 3 -> [x |-> p[2],  y |-> -p[1]]]

MCSteered == {"front_left"}

(* A command with all that it takes to go round a corner; every sensor on  *)
(* its 0 degree mark, or none.                                             *)
MCTwists == { [vx |-> 2, vy |-> 0, wz |-> -1] }
MCReadings == [deg0 : {{}, MCCorners}, deg90 : {{}}]
=============================================================================
