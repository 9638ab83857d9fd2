----------------------------- MODULE MCSwerveSim -----------------------------
(* A diagonal pair of wheels, sixteen directions, five twists.             *)
EXTENDS SwerveSim, Sequences

MCPair == {"front_left", "rear_right"}
MCPosX == [c \in MCPair |-> IF c = "front_left" THEN 1 ELSE -1]
MCPosY == MCPosX

FirstQuarter == << <<1, 0>>, <<2, 1>>, <<1, 1>>, <<1, 2>> >>

MCDir == [h \in 0 .. 15 |->
            LET p == FirstQuarter[(h % 4) + 1]
            IN  CASE h \div 4 = 0 -> [x |-> p[1],  y |-> p[2]]
                  [] h \div 4 = 1 -> [x |-> -p[2], y |-> p[1]]
                  [] h \div 4 = 2 -> [x |-> -p[1], y |-> -p[2]]
                  [] h \div 4 = 3 -> [x |-> p[2],  y |-> -p[1]]]

MCSimTwists == { [vx |-> t[1], vy |-> t[2], wz |-> t[3]] :
                   t \in { <<0, 0, 0>>, <<1, 0, 0>>, <<0, -1, 0>>, <<0, 0, 1>>,
                           <<1, 0, 1>> } }
=============================================================================
