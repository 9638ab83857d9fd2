-------------------------------- MODULE Teleop --------------------------------
(***************************************************************************)
(* The path from the operator's deadman button to the wheels: a joystick   *)
(* node (not in this repository) publishes /joy, teleop_node turns every   *)
(* message into a TwistStamped and lets a periodic watchdog publish zero   *)
(* when /joy has gone quiet, and the controller drops commands that are    *)
(* older than its own timeout.                                             *)
(*                                                                         *)
(* Time is in ticks.  Messages take up to MaxDelay ticks, transport and    *)
(* the executor's backlog together, and keep their order; a full queue     *)
(* loses its oldest message.  Both callbacks of the node run in one thread, *)
(* so each is one step.                                                    *)
(***************************************************************************)
EXTENDS Integers, Sequences, SequencesExt

CONSTANTS
    Twists,          \* what the stick can ask for; 0 is the centre
    Depth,           \* the depth of both subscriptions' queues
    MaxDelay,        \* the longest a message is under way
    JoyPeriod,       \* the joystick node publishes at least this often
    JoyTimeout,      \* joy_timeout_sec
    WatchdogPeriod,  \* the timer's 0.1 s
    CmdVelTimeout,   \* the controller's cmd_vel_timeout
    MaxCount         \* bound: where the history counters stop

Least(a, b) == IF a < b THEN a ELSE b

(* How long the twist of the last message sent with the button held can    *)
(* outlive it: it may be MaxDelay old when it is stamped anew, and then    *)
(* the controller's timeout or the watchdog's zero ends it.                *)
Linger == MaxDelay + Least(CmdVelTimeout, JoyTimeout + WatchdogPeriod + MaxDelay)

(* How long a change at the joystick needs to get through.                 *)
Latency == JoyPeriod + 2 * MaxDelay

ASSUME TeleopAssumption ==
    /\ 0 \in Twists
    /\ Depth \in Nat \ {0} /\ JoyPeriod \in Nat \ {0} /\ WatchdogPeriod \in Nat \ {0}
    /\ MaxDelay \in Nat /\ JoyTimeout \in Nat /\ CmdVelTimeout \in Nat
    /\ MaxCount \in Nat /\ MaxCount > Linger /\ MaxCount > Latency

(* A joystick that publishes often enough for both timeouts.               *)
ASSUME RateAssumption ==
    /\ JoyPeriod + MaxDelay <= JoyTimeout
    /\ Latency <= CmdVelTimeout

None == -1       \* _last_joy_time is None

VARIABLES
    held, stick,     \* the deadman button and the stick, in the operator's hands
    linked,          \* the joystick node is alive and connected
    since_joy,       \* ticks since it last published
    joy,             \* /joy under way to the node: [held, stick, waiting]
    last_joy_time,   \* ticks since _on_joy last ran, or None
    timer,           \* ticks until the watchdog runs
    cmd_vel,         \* cmd_vel under way to the controller: [twist, age, waiting]
    box,             \* the controller's received command: [twist, age]
    steady,          \* history: ticks since held, stick or linked changed
    idle             \* history: ticks since /joy could last ask for motion

vars == <<held, stick, linked, since_joy, joy, last_joy_time, timer, cmd_vel, box,
          steady, idle>>
operator == <<held, stick, linked>>
history  == <<steady, idle>>

-----------------------------------------------------------------------------
(* A full queue loses its oldest message; whoever serves the queue is not  *)
(* put off by that, so the next message inherits the time waited.          *)
Enqueue(queue, message) ==
    IF Len(queue) < Depth THEN Append(queue, message)
    ELSE [Append(Tail(queue), message) EXCEPT ![1].waiting = Head(queue).waiting]

NewTwist(twist) == [twist |-> twist, age |-> 0, waiting |-> 0]

Init ==
    /\ held = FALSE /\ stick = 0 /\ linked = TRUE /\ since_joy = 0
    /\ joy = <<>> /\ cmd_vel = <<>>
    /\ last_joy_time = None
    /\ timer = WatchdogPeriod
    /\ box = [twist |-> 0, age |-> CmdVelTimeout + 1]
    /\ steady = 0 /\ idle = MaxCount

-----------------------------------------------------------------------------
(* The operator and the joystick node.                                     *)
Operate ==
    /\ \E h \in BOOLEAN, s \in Twists, l \in BOOLEAN :
          /\ <<h, s, l>> # operator
          /\ held' = h /\ stick' = s /\ linked' = l
    /\ steady' = 0
    /\ UNCHANGED <<since_joy, joy, last_joy_time, timer, cmd_vel, box, idle>>

PublishJoy ==
    /\ linked
    /\ joy' = Enqueue(joy, [held |-> held, stick |-> stick, waiting |-> 0])
    /\ since_joy' = 0
    /\ idle' = IF held /\ stick # 0 THEN 0 ELSE idle
    /\ UNCHANGED <<operator, last_joy_time, timer, cmd_vel, box, steady>>

-----------------------------------------------------------------------------
(* teleop_node.                                                            *)
Requested(msg) == IF msg.held THEN msg.stick ELSE 0

OnJoySilent ==   \* Mutant: nothing is published while the button is up
    /\ joy # <<>>
    /\ last_joy_time' = 0
    /\ cmd_vel' = IF Head(joy).held THEN Enqueue(cmd_vel, NewTwist(Head(joy).stick))
                  ELSE cmd_vel
    /\ joy' = Tail(joy)
    /\ UNCHANGED <<operator, since_joy, timer, box, history>>

OnJoyOnce ==   \* Mutant: only the first message sets the time
    /\ joy # <<>>
    /\ last_joy_time' = IF last_joy_time = None THEN 0 ELSE last_joy_time
    /\ cmd_vel' = Enqueue(cmd_vel, NewTwist(Requested(Head(joy))))
    /\ joy' = Tail(joy)
    /\ UNCHANGED <<operator, since_joy, timer, box, history>>

(* The twist is stamped with the time of the callback, not of the message. *)
OnJoy ==
    /\ joy # <<>>
    /\ last_joy_time' = 0
    /\ cmd_vel' = Enqueue(cmd_vel, NewTwist(Requested(Head(joy))))
    /\ joy' = Tail(joy)
    /\ UNCHANGED <<operator, since_joy, timer, box, history>>

WatchdogSilent ==   \* Mutant: the watchdog publishes nothing
    /\ timer = 0
    /\ timer' = WatchdogPeriod
    /\ UNCHANGED <<operator, since_joy, joy, last_joy_time, cmd_vel, box, history>>

Watchdog ==
    /\ timer = 0
    /\ timer' = WatchdogPeriod
    /\ cmd_vel' = IF last_joy_time # None /\ last_joy_time > JoyTimeout
                  THEN Enqueue(cmd_vel, NewTwist(0)) ELSE cmd_vel
    /\ UNCHANGED <<operator, since_joy, joy, last_joy_time, box, history>>

-----------------------------------------------------------------------------
(* The controller keeps what it received last, whatever its stamp.         *)
ReceiveCmdVel ==
    /\ cmd_vel # <<>>
    /\ box' = [twist |-> Head(cmd_vel).twist, age |-> Head(cmd_vel).age]
    /\ cmd_vel' = Tail(cmd_vel)
    /\ UNCHANGED <<operator, since_joy, joy, last_joy_time, timer, history>>

(* The twist update() drives with.                                         *)
Driven == IF box.age > CmdVelTimeout THEN 0 ELSE box.twist

-----------------------------------------------------------------------------
Served(queue) == queue # <<>> => Head(queue).waiting < MaxDelay

(* Time does not pass a message that is due, a timer that has run out, or  *)
(* the moment the joystick node must publish again.                        *)
Tick ==
    /\ Served(joy) /\ Served(cmd_vel)
    /\ timer > 0
    /\ linked => since_joy < JoyPeriod
    /\ since_joy' = Least(since_joy + 1, JoyPeriod)
    /\ joy' = [i \in DOMAIN joy |-> [joy[i] EXCEPT !.waiting = @ + 1]]
    /\ cmd_vel' = [i \in DOMAIN cmd_vel |->
                      [cmd_vel[i] EXCEPT !.waiting = @ + 1, !.age = @ + 1]]
    /\ last_joy_time' = IF last_joy_time = None THEN None
                        ELSE Least(last_joy_time + 1, JoyTimeout + 1)
    /\ timer' = timer - 1
    /\ box' = [box EXCEPT !.age = Least(@ + 1, CmdVelTimeout + 1)]
    /\ steady' = Least(steady + 1, MaxCount)
    /\ idle' = Least(idle + 1, MaxCount)
    /\ UNCHANGED operator

Next == Operate \/ PublishJoy \/ OnJoy \/ Watchdog \/ ReceiveCmdVel \/ Tick

Spec == Init /\ [][Next]_vars

-----------------------------------------------------------------------------
(* However a drive ends (the button is let go, the stick centred, the link *)
(* lost, in any order with messages still under way), the wheels have no   *)
(* command left once Linger ticks have passed since the last message that  *)
(* asked for motion.  A delayed message gets a new stamp (teleop:53-72),   *)
(* so its own delay counts on top of either watchdog.                      *)
NoMotionWithoutDeadman == idle > Linger => Driven = 0

(* Letting the button go on a live link stops the robot without waiting    *)
(* for any timeout: every message is answered, with zero when the button   *)
(* is up (teleop:56-66).                                                   *)
ReleaseStopsPromptly ==
    linked /\ ~held /\ steady > Latency => Driven = 0

(* A button held on a live link drives, and goes on driving: neither       *)
(* watchdog ever interrupts a joystick that meets RateAssumption.          *)
HoldKeepsDriving ==
    linked /\ held /\ steady > Latency => Driven = stick

=============================================================================
