------------------------------ MODULE ModeSwitch ------------------------------
(***************************************************************************)
(* What a user of ~/mode is promised (rp1_swerve_controller.hpp, "Mode     *)
(* switch"), without callbacks, staleness, homing, corners or the time a   *)
(* cycle takes: the mode in force changes only while the chassis is        *)
(* measured to stand still.  While another mode has been asked for and the *)
(* chassis moves, it is brought down: a ramp that once begun never         *)
(* accelerates on any axis and never reverses, until the switch is         *)
(* committed or given up.                                                  *)
(***************************************************************************)
EXTENDS Integers

CONSTANTS
    Modes,     \* the modes there are
    Default,   \* the one that is in force after configuring
    Twist,     \* what a ramp may start from
    Zero

VARIABLES
    active_mode, ramping, ramp,
    stopped    \* is the chassis measured to stand still

vars == <<active_mode, ramping, ramp, stopped>>

(* b is a where it has slowed down.                                        *)
Slowed(a, b) == \/ 0 <= b /\ b <= a
                \/ a <= b /\ b <= 0

Init == active_mode = Default /\ ramping = FALSE /\ ramp = Zero /\ stopped = TRUE

Measure ==
    /\ stopped' \in BOOLEAN
    /\ UNCHANGED <<active_mode, ramping, ramp>>

Configure ==
    /\ active_mode' = Default /\ ramping' = FALSE /\ ramp' = Zero
    /\ UNCHANGED stopped

Commit ==
    /\ stopped
    /\ active_mode' \in Modes /\ ramping' = FALSE
    /\ UNCHANGED <<ramp, stopped>>

BringDown ==
    /\ ~stopped
    /\ ramping' = TRUE
    /\ ramp' \in Twist
    /\ ramping => \A axis \in {"vx", "vy", "wz"} : Slowed(ramp[axis], ramp'[axis])
    /\ UNCHANGED <<active_mode, stopped>>

GiveUp ==
    /\ ~stopped
    /\ ramping' = FALSE
    /\ UNCHANGED <<active_mode, ramp, stopped>>

Next == Measure \/ Configure \/ Commit \/ BringDown \/ GiveUp

Spec == Init /\ [][Next]_vars

=============================================================================
