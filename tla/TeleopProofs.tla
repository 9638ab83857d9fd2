------------------------------ MODULE TeleopProofs ------------------------------
(***************************************************************************)
(* Theorems about Teleop, for every queue depth, delay, period and timeout *)
(* that meet its assumptions: no motion outlives the operator's wish by    *)
(* more than Linger, and on a live link every change of the button or the  *)
(* stick has its effect within Latency.                                    *)
(***************************************************************************)
EXTENDS Teleop, TLAPS

JoyMsg == [held : BOOLEAN, stick : Twists, waiting : Nat]
CmdMsg == [twist : Twists, age : Nat, waiting : Nat]

Ordered(q) == \A i, j \in 1 .. Len(q) : i <= j => q[i].waiting >= q[j].waiting
Timely(q)  == \A i \in 1 .. Len(q) : q[i].waiting <= MaxDelay

TypeOK ==
    /\ held \in BOOLEAN /\ stick \in Twists /\ linked \in BOOLEAN
    /\ since_joy \in 0 .. JoyPeriod
    /\ joy \in Seq(JoyMsg) /\ Ordered(joy) /\ Timely(joy)
    /\ last_joy_time = None \/ last_joy_time \in 0 .. JoyTimeout + 1
    /\ timer \in 0 .. WatchdogPeriod
    /\ cmd_vel \in Seq(CmdMsg) /\ Ordered(cmd_vel) /\ Timely(cmd_vel)
    /\ box \in [twist : Twists, age : Nat]
    /\ steady \in 0 .. MaxCount /\ idle \in 0 .. MaxCount

LEMMA Constants ==
    /\ Depth \in Nat \ {0} /\ JoyPeriod \in Nat \ {0} /\ WatchdogPeriod \in Nat \ {0}
    /\ MaxDelay \in Nat /\ JoyTimeout \in Nat /\ CmdVelTimeout \in Nat
    /\ MaxCount \in Nat /\ None = -1 /\ 0 \in Twists
    /\ JoyPeriod + MaxDelay <= JoyTimeout /\ JoyPeriod + 2 * MaxDelay <= CmdVelTimeout
    /\ Linger \in Nat /\ MaxCount > Linger /\ MaxCount > Latency
  BY TeleopAssumption, RateAssumption DEF Latency, Linger, Least, None

LEMMA LeastFacts ==
    ASSUME NEW a \in Nat, NEW b \in Nat
    PROVE  /\ Least(a, b) \in 0 .. b /\ Least(a, b) <= a
           /\ Least(a, b) = a \/ Least(a, b) = b
  BY DEF Least

(* The same message, however long it has been under way.                   *)
Like(x, y) == DOMAIN x = DOMAIN y /\ \A f \in DOMAIN x \ {"waiting"} : x[f] = y[f]

(* The queue after one more message: the oldest may be gone, and with it   *)
(* all places move up by one; nobody waits less than before.               *)
Joins(q, m, r, k) ==
    /\ k \in {0, 1} /\ Len(q) >= k /\ Len(r) = (Len(q) + 1) - k
    /\ \A i \in 1 .. Len(r) - 1 : /\ Like(r[i], q[i + k])
                                  /\ i > 1 => r[i].waiting = q[i + k].waiting
    /\ Like(r[Len(r)], m)
    /\ Len(r) > 1 => r[Len(r)].waiting = m.waiting
    /\ Len(q) > 0 => r[1].waiting = q[1].waiting
    /\ Len(q) = 0 => r[1].waiting = m.waiting

LEMMA QueueFacts ==
    ASSUME NEW S, NEW q \in Seq(S), NEW m \in S
    PROVE  /\ Len(q) \in Nat
           /\ Append(q, m) \in Seq(S) /\ Len(Append(q, m)) = Len(q) + 1
           /\ \A i \in 1 .. Len(q) : Append(q, m)[i] = q[i]
           /\ Append(q, m)[Len(q) + 1] = m
           /\ Len(q) > 0 => /\ Tail(q) \in Seq(S) /\ Len(Tail(q)) = Len(q) - 1
                            /\ \A i \in 1 .. Len(q) - 1 : Tail(q)[i] = q[i + 1]
                            /\ Head(q) = q[1] /\ q[1] \in S
           /\ q # <<>> <=> Len(q) > 0
  OBVIOUS

(* Messages that wait.                                                     *)
Waits(S) ==
    /\ \A x \in S, w \in Nat : [x EXCEPT !.waiting = w] \in S
    /\ \A x \in S : x.waiting \in Nat /\ "waiting" \in DOMAIN x

LEMMA Enqueued ==
    ASSUME NEW S, Waits(S), NEW q \in Seq(S), NEW m \in S
    PROVE  LET r == Enqueue(q, m) IN r \in Seq(S) /\ \E k \in {0, 1} : Joins(q, m, r, k)
<1> DEFINE r == Enqueue(q, m)
<1>1. CASE Len(q) < Depth
  <2>1. r = Append(q, m)
    BY <1>1 DEF Enqueue
  <2>2. r \in Seq(S) /\ Len(r) = Len(q) + 1 /\ Len(q) \in Nat
        /\ (\A i \in 1 .. Len(q) : r[i] = q[i]) /\ r[Len(q) + 1] = m
    BY <2>1, QueueFacts
  <2> HIDE DEF r
  <2>3. \A i \in 1 .. Len(q) : q[i] \in S
    OBVIOUS
  <2>4. Joins(q, m, r, 0)
    BY <2>2, <2>3 DEF Joins, Like
  <2> QED BY <2>2, <2>4 DEF r
<1>2. CASE ~(Len(q) < Depth)
  <2> DEFINE a == Append(Tail(q), m)
  <2>1. Len(q) \in Nat /\ Len(q) >= 1
    <3>1. Len(q) \in Nat
      BY QueueFacts
    <3>2. Depth \in Nat /\ Depth >= 1
      BY TeleopAssumption
    <3> QED BY <1>2, <3>1, <3>2
  <2>2. /\ Tail(q) \in Seq(S) /\ Len(Tail(q)) = Len(q) - 1
        /\ (\A i \in 1 .. Len(q) - 1 : Tail(q)[i] = q[i + 1]) /\ Head(q) = q[1] /\ q[1] \in S
    BY <2>1, QueueFacts
  <2>3. /\ a \in Seq(S) /\ Len(a) = Len(q)
        /\ (\A i \in 1 .. Len(q) - 1 : a[i] = q[i + 1]) /\ a[Len(q)] = m
    BY <2>1, <2>2, QueueFacts
  <2> HIDE DEF a
  <2>4. r = [a EXCEPT ![1].waiting = q[1].waiting]
    BY <1>2, <2>2 DEF Enqueue, a
  <2>5. a[1] \in S /\ q[1].waiting \in Nat
    BY <2>1, <2>2, <2>3 DEF Waits
  <2>6. /\ r \in Seq(S) /\ Len(r) = Len(q)
        /\ Like(r[1], a[1]) /\ r[1].waiting = q[1].waiting
        /\ \A i \in 2 .. Len(q) : r[i] = a[i]
    BY <2>1, <2>3, <2>4, <2>5 DEF Like, Waits
  <2> HIDE DEF r
  <2>8. \A i \in 1 .. Len(r) - 1 : /\ Like(r[i], q[i + 1])
                                   /\ i > 1 => r[i].waiting = q[i + 1].waiting
    <3> SUFFICES ASSUME NEW i \in 1 .. Len(r) - 1
                 PROVE  /\ Like(r[i], q[i + 1])
                        /\ i > 1 => r[i].waiting = q[i + 1].waiting
      OBVIOUS
    <3>0. i \in 1 .. Len(q) - 1
      BY <2>6
    <3>1. a[i] = q[i + 1]
      BY <2>3, <3>0
    <3>2. CASE i = 1
      BY <2>6, <3>1, <3>2
    <3>3. CASE i > 1
      <4>1. i \in 2 .. Len(q)
        BY <2>1, <2>6, <3>3
      <4>2. r[i] = q[i + 1]
        BY <2>6, <3>1, <4>1
      <4> QED BY <3>1, <3>3, <4>2 DEF Like
    <3> QED BY <2>1, <2>6, <3>2, <3>3
  <2>9. Like(r[Len(r)], m)
        /\ (Len(r) > 1 => r[Len(r)].waiting = m.waiting)
    <3>1. CASE Len(q) = 1
      BY <2>3, <2>6, <3>1
    <3>2. CASE Len(q) > 1
      <4>1. Len(q) \in 2 .. Len(q)
        BY <2>1, <3>2
      <4>2. r[Len(r)] = m
        BY <2>3, <2>6, <4>1
      <4> QED BY <4>2 DEF Like
    <3> QED BY <2>1, <3>1, <3>2
  <2>10. Joins(q, m, r, 1)
    BY <2>1, <2>6, <2>8, <2>9 DEF Joins
  <2> QED BY <2>6, <2>10 DEF r
<1> QED BY <1>1, <1>2

LEMMA EnqueueKeepsOrder ==
    ASSUME NEW S, Waits(S), NEW q \in Seq(S), Ordered(q), Timely(q),
           NEW m \in S, m.waiting = 0
    PROVE  LET r == Enqueue(q, m) IN
           /\ r \in Seq(S) /\ Ordered(r) /\ Timely(r)
           /\ \E k \in {0, 1} : Joins(q, m, r, k)
<1> DEFINE r == Enqueue(q, m)
<1>1. r \in Seq(S) /\ \E k \in {0, 1} : Joins(q, m, r, k)
  BY Enqueued
<1> HIDE DEF r
<1>2. PICK k \in {0, 1} : Joins(q, m, r, k)
  BY <1>1
<1>3. /\ Len(r) \in Nat /\ Len(q) \in Nat /\ Len(r) = (Len(q) + 1) - k /\ Len(q) >= k
      /\ \A i \in 1 .. Len(r) : r[i].waiting \in Nat
  <2>1. Len(r) \in Nat /\ Len(q) \in Nat
    BY <1>1, QueueFacts
  <2>2. \A i \in 1 .. Len(r) : r[i] \in S
    BY <1>1
  <2> QED BY <1>2, <2>1, <2>2 DEF Waits, Joins
<1>4. ASSUME NEW i \in 1 .. Len(r), NEW j \in 1 .. Len(r), i <= j
      PROVE  r[i].waiting >= r[j].waiting
  <2>1. CASE i = j
    BY <1>3, <2>1
  <2>2. CASE i < j /\ j = Len(r)
    BY <1>2, <1>3, <2>2 DEF Joins
  <2>3. CASE i < j /\ j < Len(r)
    <3>1. /\ r[j].waiting = q[j + k].waiting
          /\ i + k \in 1 .. Len(q) /\ j + k \in 1 .. Len(q) /\ Len(q) > 0
      BY <1>2, <1>3, <2>3 DEF Joins
    <3>2. CASE i > 1
      <4>1. r[i].waiting = q[i + k].waiting
        BY <1>2, <1>3, <2>3, <3>2 DEF Joins
      <4>2. i + k <= j + k
        BY <1>4
      <4>3. q[i + k].waiting >= q[j + k].waiting
        BY <3>1, <4>2 DEF Ordered
      <4> QED BY <3>1, <4>1, <4>3
    <3>3. CASE i = 1
      <4>1. r[i].waiting = q[1].waiting
        BY <1>2, <3>1, <3>3 DEF Joins
      <4>2. 1 \in 1 .. Len(q) /\ 1 <= j + k
        BY <1>3, <3>1
      <4>3. q[1].waiting >= q[j + k].waiting
        BY <3>1, <4>2 DEF Ordered
      <4> QED BY <3>1, <4>1, <4>3
    <3>4. i = 1 \/ i > 1
      OBVIOUS
    <3> QED BY <3>2, <3>3, <3>4
  <2>4. i = j \/ (i < j /\ j = Len(r)) \/ (i < j /\ j < Len(r))
    BY <1>3, <1>4
  <2> QED BY <2>1, <2>2, <2>3, <2>4
<1>5. Ordered(r)
  BY <1>4 DEF Ordered
<1>6. ASSUME NEW i \in 1 .. Len(r) PROVE r[i].waiting <= MaxDelay
  <2>1. 1 \in 1 .. Len(r) /\ r[1].waiting >= r[i].waiting
    BY <1>3, <1>4
  <2>2. r[1].waiting <= MaxDelay
    <3>1. CASE Len(q) = 0
      <4>1. r[1].waiting = 0 /\ MaxDelay \in Nat
        BY <1>2, <3>1, Constants DEF Joins
      <4> QED BY <4>1
    <3>2. CASE Len(q) > 0
      <4>1. r[1].waiting = q[1].waiting /\ 1 \in 1 .. Len(q)
        BY <1>2, <1>3, <3>2 DEF Joins
      <4> QED BY <4>1 DEF Timely
    <3>3. Len(q) = 0 \/ Len(q) > 0
      BY <1>3
    <3> QED BY <3>1, <3>2, <3>3
  <2>3. r[1].waiting \in Nat /\ r[i].waiting \in Nat /\ MaxDelay \in Nat
    BY <1>3, <2>1, Constants
  <2> QED BY <2>1, <2>2, <2>3
<1>7. Timely(r)
  BY <1>6 DEF Timely
<1> QED BY <1>1, <1>5, <1>7 DEF r

LEMMA MessagesWait == Waits(JoyMsg) /\ Waits(CmdMsg)
  BY DEF Waits, JoyMsg, CmdMsg

(* A queue without its head.                                               *)
LEMMA Served1 ==
    ASSUME NEW S, Waits(S), NEW q \in Seq(S), Ordered(q), Timely(q), q # <<>>
    PROVE  /\ Tail(q) \in Seq(S) /\ Ordered(Tail(q)) /\ Timely(Tail(q))
           /\ Len(q) \in Nat \ {0} /\ Head(q) = q[1] /\ q[1] \in S
           /\ Len(Tail(q)) = Len(q) - 1
           /\ \A i \in 1 .. Len(q) - 1 : Tail(q)[i] = q[i + 1]
<1>1. /\ Len(q) \in Nat /\ Len(q) > 0 /\ Tail(q) \in Seq(S) /\ Len(Tail(q)) = Len(q) - 1
      /\ \A i \in 1 .. Len(q) - 1 : Tail(q)[i] = q[i + 1]
      /\ Head(q) = q[1] /\ q[1] \in S
  BY QueueFacts
<1>2. Timely(Tail(q))
  BY <1>1 DEF Timely
<1>3. Ordered(Tail(q))
  BY <1>1 DEF Ordered
<1> QED BY <1>1, <1>2, <1>3

-----------------------------------------------------------------------------
(* What was sent, from the command in the box to the one sent last.        *)
Sent(i) == IF i = 0 THEN box ELSE cmd_vel[i]
Newest == Len(cmd_vel)

(* A twist other than zero is still answered for: /joy has asked for it    *)
(* not long ago, it will be replaced when the command behind it gets       *)
(* through, and if there is none then the watchdog is going to send one.   *)
Answered(age) ==
    \/ last_joy_time \in 0 .. JoyTimeout /\ age <= last_joy_time
    \/ last_joy_time = JoyTimeout + 1 /\ age + timer <= JoyTimeout + WatchdogPeriod

JoyAsks ==
    \A i \in 1 .. Len(joy) : Requested(joy[i]) # 0 => idle <= joy[i].waiting

SentAsks ==
    \A i \in 0 .. Newest :
       Sent(i).twist # 0 /\ Sent(i).age <= CmdVelTimeout => idle <= MaxDelay + Sent(i).age

SentEnds ==
    \A i \in 0 .. Newest - 1 :
       Sent(i).twist # 0 =>
          Sent(i).age <= (JoyTimeout + WatchdogPeriod) + cmd_vel[i + 1].waiting

NewestEnds == Sent(Newest).twist # 0 => Answered(Sent(Newest).age)

Asking == JoyAsks /\ SentAsks /\ SentEnds /\ NewestEnds

(* On a live link, what does not yet follow the button and the stick as    *)
(* they have been for steady ticks will be replaced when the message       *)
(* behind it gets through, or when the next one is published.              *)
Asked == IF held THEN stick ELSE 0

Due == IF joy = <<>> THEN since_joy ELSE JoyPeriod + joy[1].waiting

Behind(i) == IF i = Len(joy) THEN since_joy ELSE JoyPeriod + joy[i + 1].waiting

Through(i) == (JoyPeriod + MaxDelay) + cmd_vel[i + 1].waiting

JoyFollows ==
    \A i \in 1 .. Len(joy) : steady <= Behind(i) \/ Requested(joy[i]) = Asked

NodeFollows == steady <= Due \/ (last_joy_time # None /\ last_joy_time <= Due)

SentFollows ==
    \A i \in 0 .. Newest - 1 :
       steady <= Through(i) \/ (Sent(i).twist = Asked /\ Sent(i).age <= Through(i))

NewestFollows == steady <= Due \/ (Sent(Newest).twist = Asked /\ Sent(Newest).age <= Due)

Follows == linked => JoyFollows /\ NodeFollows /\ SentFollows /\ NewestFollows

IInv == TypeOK /\ Asking /\ Follows

LEMMA FunctionsAreSequences ==
    ASSUME NEW n \in Nat, NEW S, NEW f \in [1 .. n -> S]
    PROVE  f \in Seq(S) /\ Len(f) = n
  OBVIOUS

LEMMA HeadFacts ==
    ASSUME NEW S, NEW q \in Seq(S), NEW i \in 1 .. Len(q)
    PROVE  q # <<>> /\ Head(q) = q[1] /\ 1 \in 1 .. Len(q)
  OBVIOUS

(* What the actions make of the queues.                                    *)
LEMMA Aged ==
    ASSUME TypeOK, Tick
    PROVE  /\ joy' \in Seq(JoyMsg) /\ Len(joy') = Len(joy) /\ Len(joy) \in Nat
           /\ \A i \in 1 .. Len(joy) : /\ joy'[i].held = joy[i].held /\ joy'[i].stick = joy[i].stick
                                       /\ joy'[i].waiting = joy[i].waiting + 1
                                       /\ joy[i].waiting \in Nat /\ joy'[i].waiting <= MaxDelay
           /\ cmd_vel' \in Seq(CmdMsg) /\ Len(cmd_vel') = Len(cmd_vel) /\ Len(cmd_vel) \in Nat
           /\ \A i \in 1 .. Len(cmd_vel) : /\ cmd_vel'[i].twist = cmd_vel[i].twist
                                           /\ cmd_vel'[i].age = cmd_vel[i].age + 1
                                           /\ cmd_vel'[i].waiting = cmd_vel[i].waiting + 1
                                           /\ cmd_vel[i].age \in Nat /\ cmd_vel[i].waiting \in Nat
                                           /\ cmd_vel'[i].waiting <= MaxDelay
           /\ Ordered(joy)' /\ Timely(joy)' /\ Ordered(cmd_vel)' /\ Timely(cmd_vel)'
<1>1. /\ joy \in Seq(JoyMsg) /\ Len(joy) \in Nat /\ DOMAIN joy = 1 .. Len(joy)
      /\ \A i \in 1 .. Len(joy) : joy[i] \in JoyMsg
  BY DEF TypeOK
<1>2. /\ cmd_vel \in Seq(CmdMsg) /\ Len(cmd_vel) \in Nat /\ DOMAIN cmd_vel = 1 .. Len(cmd_vel)
      /\ \A i \in 1 .. Len(cmd_vel) : cmd_vel[i] \in CmdMsg
  BY DEF TypeOK
<1>3. /\ joy' = [i \in 1 .. Len(joy) |-> [joy[i] EXCEPT !.waiting = @ + 1]]
      /\ cmd_vel' = [i \in 1 .. Len(cmd_vel) |->
                        [cmd_vel[i] EXCEPT !.waiting = @ + 1, !.age = @ + 1]]
  BY <1>1, <1>2 DEF Tick
<1>4. \A i \in 1 .. Len(joy) :
         /\ joy'[i] \in JoyMsg
         /\ joy'[i].held = joy[i].held /\ joy'[i].stick = joy[i].stick
         /\ joy'[i].waiting = joy[i].waiting + 1 /\ joy[i].waiting \in Nat
  <2>1. ASSUME NEW x \in JoyMsg, NEW y, y = [x EXCEPT !.waiting = @ + 1]
        PROVE  /\ y \in JoyMsg /\ y.held = x.held /\ y.stick = x.stick
               /\ y.waiting = x.waiting + 1 /\ x.waiting \in Nat
    BY <2>1 DEF JoyMsg
  <2>2. \A i \in 1 .. Len(joy) : joy'[i] = [joy[i] EXCEPT !.waiting = @ + 1]
    BY <1>3
  <2> QED BY <1>1, <2>1, <2>2
<1>5. \A i \in 1 .. Len(cmd_vel) :
         /\ cmd_vel'[i] \in CmdMsg /\ cmd_vel'[i].twist = cmd_vel[i].twist
         /\ cmd_vel'[i].age = cmd_vel[i].age + 1 /\ cmd_vel'[i].waiting = cmd_vel[i].waiting + 1
         /\ cmd_vel[i].age \in Nat /\ cmd_vel[i].waiting \in Nat
  <2>1. ASSUME NEW x \in CmdMsg, NEW y, y = [x EXCEPT !.waiting = @ + 1, !.age = @ + 1]
        PROVE  /\ y \in CmdMsg /\ y.twist = x.twist /\ y.age = x.age + 1
               /\ y.waiting = x.waiting + 1 /\ x.age \in Nat /\ x.waiting \in Nat
    <3> DEFINE z == [x EXCEPT !.waiting = x.waiting + 1]
    <3>1. z \in CmdMsg /\ z.twist = x.twist /\ z.age = x.age /\ z.waiting = x.waiting + 1
      BY DEF CmdMsg
    <3>2. y = [z EXCEPT !.age = z.age + 1]
      BY <2>1
    <3> HIDE DEF z
    <3>3. y \in CmdMsg /\ y.twist = z.twist /\ y.age = z.age + 1 /\ y.waiting = z.waiting
      BY <3>1, <3>2 DEF CmdMsg
    <3> QED BY <3>1, <3>3 DEF CmdMsg
  <2>2. \A i \in 1 .. Len(cmd_vel) :
           cmd_vel'[i] = [cmd_vel[i] EXCEPT !.waiting = @ + 1, !.age = @ + 1]
    BY <1>3
  <2> QED BY <1>2, <2>1, <2>2
<1>6. /\ joy' \in Seq(JoyMsg) /\ Len(joy') = Len(joy)
      /\ cmd_vel' \in Seq(CmdMsg) /\ Len(cmd_vel') = Len(cmd_vel)
  <2>1. joy' \in [1 .. Len(joy) -> JoyMsg]
    BY <1>3, <1>4
  <2>2. cmd_vel' \in [1 .. Len(cmd_vel) -> CmdMsg]
    BY <1>3, <1>5
  <2> QED BY <1>1, <1>2, <2>1, <2>2, FunctionsAreSequences
<1>7. ASSUME NEW i \in 1 .. Len(joy) PROVE joy'[i].waiting <= MaxDelay
  <2>1. joy # <<>> /\ Head(joy) = joy[1] /\ 1 \in 1 .. Len(joy)
    BY <1>1, HeadFacts
  <2>2. joy[1].waiting < MaxDelay
    BY <2>1 DEF Tick, Served
  <2>3. joy[1].waiting >= joy[i].waiting
    BY <1>1, <2>1 DEF TypeOK, Ordered
  <2>4. /\ joy'[i].waiting = joy[i].waiting + 1 /\ joy[i].waiting \in Nat
        /\ joy[1].waiting \in Nat /\ MaxDelay \in Nat
    BY <1>4, <2>1, Constants
  <2> QED BY <2>2, <2>3, <2>4
<1>8. ASSUME NEW i \in 1 .. Len(cmd_vel) PROVE cmd_vel'[i].waiting <= MaxDelay
  <2>1. cmd_vel # <<>> /\ Head(cmd_vel) = cmd_vel[1] /\ 1 \in 1 .. Len(cmd_vel)
    BY <1>2, HeadFacts
  <2>2. cmd_vel[1].waiting < MaxDelay
    BY <2>1 DEF Tick, Served
  <2>3. cmd_vel[1].waiting >= cmd_vel[i].waiting
    BY <1>2, <2>1 DEF TypeOK, Ordered
  <2>4. /\ cmd_vel'[i].waiting = cmd_vel[i].waiting + 1 /\ cmd_vel[i].waiting \in Nat
        /\ cmd_vel[1].waiting \in Nat /\ MaxDelay \in Nat
    BY <1>5, <2>1, Constants
  <2> QED BY <2>2, <2>3, <2>4
<1>9. Timely(joy)' /\ Timely(cmd_vel)'
  BY <1>6, <1>7, <1>8 DEF Timely
<1>10. Ordered(joy)' /\ Ordered(cmd_vel)'
  <2>1. ASSUME NEW i \in 1 .. Len(joy), NEW j \in 1 .. Len(joy), i <= j
        PROVE  joy'[i].waiting >= joy'[j].waiting
    <3>1. joy[i].waiting >= joy[j].waiting
      BY <2>1 DEF TypeOK, Ordered
    <3> QED BY <1>4, <3>1
  <2>2. ASSUME NEW i \in 1 .. Len(cmd_vel), NEW j \in 1 .. Len(cmd_vel), i <= j
        PROVE  cmd_vel'[i].waiting >= cmd_vel'[j].waiting
    <3>1. cmd_vel[i].waiting >= cmd_vel[j].waiting
      BY <2>2 DEF TypeOK, Ordered
    <3> QED BY <1>5, <3>1
  <2> QED BY <1>6, <2>1, <2>2 DEF Ordered
<1> QED BY <1>1, <1>2, <1>4, <1>5, <1>6, <1>7, <1>8, <1>9, <1>10

LEMMA SentFacts ==
    ASSUME TypeOK
    PROVE  /\ Newest \in Nat /\ Sent(0) = box
           /\ \A i \in 1 .. Newest : /\ Sent(i) = cmd_vel[i] /\ cmd_vel[i] \in CmdMsg
                                     /\ cmd_vel[i].waiting \in 0 .. MaxDelay
           /\ \A i \in 0 .. Newest : Sent(i).twist \in Twists /\ Sent(i).age \in Nat
<1>1. Newest \in Nat /\ Sent(0) = box
  BY DEF TypeOK, Newest, Sent
<1>2. ASSUME NEW i \in 1 .. Newest
      PROVE  /\ Sent(i) = cmd_vel[i] /\ cmd_vel[i] \in CmdMsg
             /\ cmd_vel[i].waiting \in 0 .. MaxDelay
             /\ Sent(i).twist \in Twists /\ Sent(i).age \in Nat
  <2>1. Sent(i) = cmd_vel[i]
    BY <1>1 DEF Sent
  <2>2. cmd_vel[i] \in CmdMsg /\ cmd_vel[i].waiting <= MaxDelay
    BY DEF TypeOK, Newest, Timely
  <2> QED BY <2>1, <2>2, Constants DEF CmdMsg
<1>3. Sent(0).twist \in Twists /\ Sent(0).age \in Nat
  BY <1>1, Constants DEF TypeOK
<1>4. \A i \in 0 .. Newest : i = 0 \/ i \in 1 .. Newest
  BY <1>1
<1> QED BY <1>1, <1>2, <1>3, <1>4

(* A command is sent: it is the newest; every other one is as before, and  *)
(* the one behind it waits as long as before unless that is the new one.   *)
LEMMA CommandJoins ==
    ASSUME TypeOK, NEW t \in Twists, cmd_vel' = Enqueue(cmd_vel, NewTwist(t)), box' = box
    PROVE  /\ cmd_vel' \in Seq(CmdMsg) /\ Ordered(cmd_vel)' /\ Timely(cmd_vel)'
           /\ Newest' \in Nat \ {0} /\ Sent(Newest)'.twist = t /\ Sent(Newest)'.age = 0
           /\ \A i \in 0 .. Newest' - 1 :
                /\ cmd_vel'[i + 1].waiting \in Nat
                /\ \E j \in 0 .. Newest :
                     /\ Sent(i)'.twist = Sent(j).twist /\ Sent(i)'.age = Sent(j).age
                     /\ j < Newest => cmd_vel'[i + 1].waiting = cmd_vel[j + 1].waiting
<1> DEFINE q == cmd_vel
           r == cmd_vel'
           m == NewTwist(t)
<1>1. m \in CmdMsg /\ m.waiting = 0 /\ m.twist = t /\ m.age = 0 /\ DOMAIN m = {"twist", "age", "waiting"}
  BY DEF NewTwist, CmdMsg
<1>2. q \in Seq(CmdMsg) /\ Ordered(q) /\ Timely(q) /\ Newest = Len(q) /\ Len(q) \in Nat
  BY DEF TypeOK, Newest
<1>3. r \in Seq(CmdMsg) /\ Ordered(r) /\ Timely(r) /\ \E k \in {0, 1} : Joins(q, m, r, k)
  BY <1>1, <1>2, MessagesWait, EnqueueKeepsOrder
<1>4. PICK k \in {0, 1} : Joins(q, m, r, k)
  BY <1>3
<1>5. Newest' = Len(r)
  BY DEF Newest
<1> HIDE DEF q, r, m
<1>6. /\ Len(r) \in Nat \ {0} /\ Len(r) = (Len(q) + 1) - k
      /\ \A i \in 1 .. Len(r) : r[i] \in CmdMsg
  BY <1>2, <1>3, <1>4 DEF Joins
<1>7. ASSUME NEW x \in CmdMsg, NEW y \in CmdMsg, Like(x, y)
      PROVE  x.twist = y.twist /\ x.age = y.age
  BY <1>7 DEF Like, CmdMsg
<1>8. r[Len(r)].twist = t /\ r[Len(r)].age = 0
  BY <1>1, <1>4, <1>6, <1>7 DEF Joins
<1>9. /\ \A i \in 1 .. Newest : Sent(i) = q[i]
      /\ \A i \in 1 .. Len(r) : Sent(i)' = r[i]
      /\ Sent(0)' = Sent(0)
  BY DEF Sent, q, r
<1>10. Sent(Newest)' = r[Len(r)]
  BY <1>5, <1>6 DEF Sent, r
<1>11. ASSUME NEW i \in 0 .. Len(r) - 1
       PROVE  /\ r[i + 1].waiting \in Nat
              /\ \E j \in 0 .. Newest :
                   /\ Sent(i)'.twist = Sent(j).twist /\ Sent(i)'.age = Sent(j).age
                   /\ j < Newest => r[i + 1].waiting = q[j + 1].waiting
  <2>1. i + 1 \in 1 .. Len(r)
    BY <1>6
  <2>2. r[i + 1].waiting \in Nat
    BY <1>6, <2>1 DEF CmdMsg
  <2>3. CASE i = 0
    <3>1. Len(q) > 0 => r[i + 1].waiting = q[0 + 1].waiting
      BY <1>4, <2>3 DEF Joins
    <3>2. 0 \in 0 .. Newest /\ Sent(i)' = Sent(0)
      BY <1>2, <1>9, <2>3
    <3> QED BY <1>2, <2>2, <3>1, <3>2
  <2>4. CASE i # 0
    <3>1. /\ i \in 1 .. Len(r) - 1 /\ i \in 1 .. Len(r) /\ i + k \in 1 .. Len(q)
          /\ i + k \in 0 .. Newest
      BY <1>2, <1>6, <2>4
    <3>2. Like(r[i], q[i + k]) /\ r[i] \in CmdMsg /\ q[i + k] \in CmdMsg
      BY <1>2, <1>4, <1>6, <3>1 DEF Joins
    <3>3. r[i].twist = q[i + k].twist /\ r[i].age = q[i + k].age
      BY <1>7, <3>2
    <3>4. Sent(i)' = r[i] /\ Sent(i + k) = q[i + k]
      BY <1>2, <1>9, <3>1
    <3>5. ASSUME i + k < Newest PROVE r[i + 1].waiting = q[(i + k) + 1].waiting
      <4>1. i + 1 \in 1 .. Len(r) - 1 /\ i + 1 > 1 /\ (i + 1) + k = (i + k) + 1
        BY <1>2, <1>6, <3>1, <3>5
      <4> QED BY <1>4, <4>1 DEF Joins
    <3> QED BY <2>2, <3>1, <3>3, <3>4, <3>5
  <2> QED BY <2>3, <2>4
<1> QED BY <1>3, <1>5, <1>6, <1>8, <1>10, <1>11 DEF q, r

(* The controller receives a command: all move up.                         *)
LEMMA CommandArrives ==
    ASSUME TypeOK, ReceiveCmdVel
    PROVE  /\ cmd_vel' \in Seq(CmdMsg) /\ Ordered(cmd_vel)' /\ Timely(cmd_vel)'
           /\ Newest \in Nat \ {0} /\ Newest' = Newest - 1
           /\ Sent(Newest)'.twist = Sent(Newest).twist /\ Sent(Newest)'.age <= Sent(Newest).age
           /\ \A i \in 0 .. Newest - 1 :
                Sent(i)'.twist = Sent(i + 1).twist /\ Sent(i)'.age = Sent(i + 1).age
           /\ \A i \in 0 .. Newest - 2 : cmd_vel'[i + 1].waiting = cmd_vel[(i + 1) + 1].waiting
<1>1. /\ cmd_vel \in Seq(CmdMsg) /\ Ordered(cmd_vel) /\ Timely(cmd_vel) /\ cmd_vel # <<>>
      /\ cmd_vel' = Tail(cmd_vel)
      /\ box' = [twist |-> Head(cmd_vel).twist, age |-> Head(cmd_vel).age]
  BY DEF TypeOK, ReceiveCmdVel
<1>2. /\ cmd_vel' \in Seq(CmdMsg) /\ Ordered(cmd_vel') /\ Timely(cmd_vel')
      /\ Len(cmd_vel) \in Nat \ {0} /\ Head(cmd_vel) = cmd_vel[1] /\ cmd_vel[1] \in CmdMsg
      /\ Len(cmd_vel') = Len(cmd_vel) - 1
      /\ \A i \in 1 .. Len(cmd_vel) - 1 : cmd_vel'[i] = cmd_vel[i + 1]
  BY <1>1, MessagesWait, Served1
<1>3. Newest = Len(cmd_vel) /\ Newest' = Newest - 1
  BY <1>2 DEF Newest
<1>4. ASSUME NEW i \in 0 .. Newest - 1
      PROVE  /\ Sent(i)'.twist = Sent(i + 1).twist /\ Sent(i)'.age = Sent(i + 1).age
             /\ Sent(i + 1).age \in Nat
  <2>1. Sent(i + 1) = cmd_vel[i + 1] /\ cmd_vel[i + 1] \in CmdMsg
    BY <1>2, <1>3 DEF Sent
  <2>2. CASE i = 0
    BY <1>1, <1>2, <2>1, <2>2 DEF Sent, CmdMsg
  <2>3. CASE i # 0
    <3>1. i \in 1 .. Len(cmd_vel) - 1
      BY <1>2, <1>3, <2>3
    <3> QED BY <1>2, <2>1, <2>3, <3>1 DEF Sent, CmdMsg
  <2> QED BY <2>2, <2>3
<1>5. /\ Sent(Newest)'.twist = Sent(Newest).twist /\ Sent(Newest)'.age <= Sent(Newest).age
  <2>1. \A n : n = Newest' => /\ Sent(n)'.twist = Sent(Newest).twist
                              /\ Sent(n)'.age = Sent(Newest).age /\ Sent(Newest).age \in Nat
    <3> SUFFICES ASSUME NEW n, n = Newest'
                 PROVE  /\ Sent(n)'.twist = Sent(Newest).twist
                        /\ Sent(n)'.age = Sent(Newest).age /\ Sent(Newest).age \in Nat
      OBVIOUS
    <3>1. n \in 0 .. Newest - 1 /\ n + 1 = Newest
      BY <1>2, <1>3
    <3> QED BY <1>4, <3>1
  <2>2. \A n : n = Newest' => Sent(n)' = Sent(Newest)'
    BY DEF Sent
  <2> QED BY <2>1, <2>2
<1>6. \A i \in 0 .. Newest - 2 : cmd_vel'[i + 1].waiting = cmd_vel[(i + 1) + 1].waiting
  <2> SUFFICES ASSUME NEW i \in 0 .. Newest - 2
               PROVE  cmd_vel'[i + 1] = cmd_vel[(i + 1) + 1]
    OBVIOUS
  <2>1. i + 1 \in 1 .. Len(cmd_vel) - 1
    BY <1>2, <1>3
  <2> QED BY <1>2, <2>1
<1> QED BY <1>2, <1>3, <1>4, <1>5, <1>6

(* A tick: all that was sent is one tick older, or too old to tell.        *)
LEMMA SentAged ==
    ASSUME TypeOK, Tick
    PROVE  /\ Newest' = Newest
           /\ \A i \in 0 .. Newest :
                /\ Sent(i)'.twist = Sent(i).twist /\ Sent(i)'.age \in Nat
                /\ Sent(i)'.age <= Sent(i).age + 1
                /\ Sent(i)'.age = Sent(i).age + 1 \/ (i = 0 /\ Sent(i)'.age = CmdVelTimeout + 1)
           /\ Sent(Newest)'.twist = Sent(Newest).twist
           /\ Sent(Newest)'.age <= Sent(Newest).age + 1 /\ Sent(Newest)'.age \in Nat
<1>1. /\ Newest = Len(cmd_vel) /\ Newest' = Newest /\ Newest \in Nat
      /\ \A i \in 1 .. Newest : /\ cmd_vel'[i].twist = cmd_vel[i].twist
                                /\ cmd_vel'[i].age = cmd_vel[i].age + 1
                                /\ cmd_vel[i].age \in Nat
  BY Aged DEF Newest
<1>2. /\ box' = [box EXCEPT !.age = Least(box.age + 1, CmdVelTimeout + 1)]
      /\ box \in [twist : Twists, age : Nat]
  BY DEF Tick, TypeOK
<1>3. /\ box'.twist = box.twist /\ box'.age \in Nat /\ box'.age <= box.age + 1
      /\ box'.age = box.age + 1 \/ box'.age = CmdVelTimeout + 1
  <2>1. box'.twist = box.twist /\ box'.age = Least(box.age + 1, CmdVelTimeout + 1)
    BY <1>2
  <2>2. box.age \in Nat /\ CmdVelTimeout \in Nat
    BY <1>2, Constants
  <2> QED BY <2>1, <2>2 DEF Least
<1>4. ASSUME NEW i \in 0 .. Newest
      PROVE  /\ Sent(i)'.twist = Sent(i).twist /\ Sent(i)'.age \in Nat
             /\ Sent(i)'.age <= Sent(i).age + 1
             /\ Sent(i)'.age = Sent(i).age + 1 \/ (i = 0 /\ Sent(i)'.age = CmdVelTimeout + 1)
  <2>1. CASE i = 0
    BY <1>3, <2>1 DEF Sent
  <2>2. CASE i # 0
    <3>1. i \in 1 .. Newest /\ Sent(i)' = cmd_vel'[i] /\ Sent(i) = cmd_vel[i]
      BY <1>1, <2>2 DEF Sent
    <3> QED BY <1>1, <3>1
  <2> QED BY <2>1, <2>2
<1>5. \A n : n = Newest => Sent(n)' = Sent(Newest)' /\ Sent(n) = Sent(Newest)
  BY <1>1 DEF Sent
<1> QED BY <1>1, <1>4, <1>5

(* The joystick node publishes: what waits for the node is as before, or   *)
(* has lost its oldest, and the newest asks for what is asked now.         *)
LEMMA JoyJoins ==
    ASSUME TypeOK, PublishJoy
    PROVE  /\ joy' \in Seq(JoyMsg) /\ Ordered(joy)' /\ Timely(joy)'
           /\ joy' # <<>> /\ Len(joy') \in Nat \ {0} /\ Len(joy) \in Nat
           /\ joy # <<>> => joy'[1].waiting = joy[1].waiting
           /\ joy = <<>> => joy'[1].waiting = 0
           /\ Requested(joy'[Len(joy')]) = Asked
           /\ \A i \in 1 .. Len(joy') : joy'[i].waiting \in Nat
           /\ \A i \in 1 .. Len(joy') - 1 : \E j \in 1 .. Len(joy) :
                /\ Requested(joy'[i]) = Requested(joy[j]) /\ joy'[i].waiting >= joy[j].waiting
                /\ j = Len(joy) <=> i = Len(joy') - 1
                /\ j < Len(joy) => joy'[i + 1].waiting = joy[j + 1].waiting
<1> DEFINE q == joy
           r == joy'
           m == [held |-> held, stick |-> stick, waiting |-> 0]
<1>1. m \in JoyMsg /\ m.waiting = 0 /\ Requested(m) = Asked
  BY DEF TypeOK, JoyMsg, Requested, Asked
<1>2. q \in Seq(JoyMsg) /\ Ordered(q) /\ Timely(q) /\ Len(q) \in Nat /\ r = Enqueue(q, m)
  BY DEF TypeOK, PublishJoy
<1> HIDE DEF q, r, m
<1>3. r \in Seq(JoyMsg) /\ Ordered(r) /\ Timely(r) /\ \E k \in {0, 1} : Joins(q, m, r, k)
  BY <1>1, <1>2, MessagesWait, EnqueueKeepsOrder
<1>4. PICK k \in {0, 1} : Joins(q, m, r, k)
  BY <1>3
<1>5. /\ Len(r) \in Nat \ {0} /\ Len(r) = (Len(q) + 1) - k
      /\ \A i \in 1 .. Len(r) : r[i] \in JoyMsg /\ r[i].waiting \in Nat
      /\ \A i \in 1 .. Len(q) : q[i] \in JoyMsg /\ q[i].waiting \in Nat
  <2>1. Len(r) \in Nat \ {0} /\ Len(r) = (Len(q) + 1) - k
    BY <1>2, <1>4 DEF Joins
  <2>2. (\A i \in 1 .. Len(r) : r[i] \in JoyMsg) /\ (\A i \in 1 .. Len(q) : q[i] \in JoyMsg)
    BY <1>2, <1>3
  <2>3. \A x \in JoyMsg : x.waiting \in Nat
    BY DEF JoyMsg
  <2> QED BY <2>1, <2>2, <2>3
<1>6. ASSUME NEW x \in JoyMsg, NEW y \in JoyMsg, Like(x, y)
      PROVE  Requested(x) = Requested(y)
  <2>1. x.held = y.held /\ x.stick = y.stick
    BY <1>6 DEF Like, JoyMsg
  <2> QED BY <2>1 DEF Requested
<1>7. Requested(r[Len(r)]) = Asked
  BY <1>1, <1>4, <1>5, <1>6 DEF Joins
<1>8. r # <<>> /\ (q # <<>> <=> Len(q) > 0)
  BY <1>1, <1>2, <1>3, <1>5, QueueFacts
<1>9. /\ q # <<>> => r[1].waiting = q[1].waiting
      /\ q = <<>> => r[1].waiting = 0
  <2>1. Len(q) = 0 \/ Len(q) > 0
    BY <1>2
  <2> QED BY <1>1, <1>4, <1>8, <2>1 DEF Joins
<1>10. ASSUME NEW i \in 1 .. Len(r) - 1
       PROVE  \E j \in 1 .. Len(q) :
                /\ Requested(r[i]) = Requested(q[j]) /\ r[i].waiting >= q[j].waiting
                /\ j = Len(q) <=> i = Len(r) - 1
                /\ j < Len(q) => r[i + 1].waiting = q[j + 1].waiting
  <2>1. i + k \in 1 .. Len(q) /\ i \in 1 .. Len(r) /\ (i + k = Len(q) <=> i = Len(r) - 1)
    BY <1>2, <1>5
  <2>2. Requested(r[i]) = Requested(q[i + k])
    BY <1>4, <1>5, <1>6, <2>1 DEF Joins
  <2>3. ASSUME i + k < Len(q) PROVE r[i + 1].waiting = q[(i + k) + 1].waiting
    <3>1. i + 1 \in 1 .. Len(r) - 1 /\ i + 1 > 1 /\ (i + 1) + k = (i + k) + 1
      BY <1>2, <1>5, <2>1, <2>3
    <3> QED BY <1>4, <3>1 DEF Joins
  <2>4. r[i].waiting >= q[i + k].waiting
    <3>1. CASE i > 1
      <4>1. r[i].waiting = q[i + k].waiting /\ q[i + k].waiting \in Nat
        BY <1>4, <1>5, <2>1, <3>1 DEF Joins
      <4> QED BY <4>1
    <3>2. CASE i = 1
      <4>1. r[i].waiting = q[1].waiting
        BY <1>2, <1>4, <2>1, <3>2 DEF Joins
      <4>2. 1 \in 1 .. Len(q) /\ 1 <= i + k
        BY <1>2, <2>1
      <4>3. q[1].waiting >= q[i + k].waiting
        BY <1>2, <2>1, <4>2 DEF Ordered
      <4> QED BY <4>1, <4>3
    <3>3. i > 1 \/ i = 1
      OBVIOUS
    <3> QED BY <3>1, <3>2, <3>3
  <2> QED BY <2>1, <2>2, <2>3, <2>4
<1> QED BY <1>2, <1>3, <1>5, <1>7, <1>8, <1>9, <1>10 DEF q, r

LEMMA TypeStep == TypeOK /\ [Next]_vars => TypeOK'
<1> SUFFICES ASSUME TypeOK, [Next]_vars PROVE TypeOK'
  OBVIOUS
<1>1. CASE Operate
  BY <1>1, Constants DEF Operate, TypeOK
<1>2. CASE PublishJoy
  <2>1. joy' \in Seq(JoyMsg) /\ Ordered(joy)' /\ Timely(joy)'
    BY <1>2, JoyJoins
  <2>2. /\ UNCHANGED <<held, stick, linked, last_joy_time, timer, cmd_vel, box, steady>>
        /\ since_joy' = 0 /\ idle' \in 0 .. MaxCount
    BY <1>2, Constants DEF PublishJoy, TypeOK, operator
  <2> QED BY <2>1, <2>2, Constants DEF TypeOK
<1>3. CASE OnJoy
  <2>1. /\ Tail(joy) \in Seq(JoyMsg) /\ Ordered(Tail(joy)) /\ Timely(Tail(joy))
        /\ Head(joy) \in JoyMsg
    BY <1>3, MessagesWait, Served1 DEF OnJoy, TypeOK
  <2>2. Requested(Head(joy)) \in Twists
    BY <2>1, Constants DEF Requested, JoyMsg
  <2>3. cmd_vel' \in Seq(CmdMsg) /\ Ordered(cmd_vel)' /\ Timely(cmd_vel)'
    BY <1>3, <2>2, CommandJoins DEF OnJoy
  <2> QED BY <1>3, <2>1, <2>3, Constants DEF OnJoy, TypeOK, operator, history
<1>4. CASE Watchdog
  <2>1. cmd_vel' \in Seq(CmdMsg) /\ Ordered(cmd_vel)' /\ Timely(cmd_vel)'
    <3>1. CASE cmd_vel' = Enqueue(cmd_vel, NewTwist(0))
      BY <1>4, <3>1, CommandJoins, Constants DEF Watchdog
    <3>2. CASE cmd_vel' = cmd_vel
      BY <3>2 DEF TypeOK
    <3> QED BY <1>4, <3>1, <3>2 DEF Watchdog
  <2> QED BY <1>4, <2>1, Constants DEF Watchdog, TypeOK, operator, history
<1>5. CASE ReceiveCmdVel
  <2>1. cmd_vel' \in Seq(CmdMsg) /\ Ordered(cmd_vel)' /\ Timely(cmd_vel)'
    BY <1>5, CommandArrives
  <2>2. box' \in [twist : Twists, age : Nat]
    <3>1. Head(cmd_vel) \in CmdMsg
      BY <1>5, MessagesWait, Served1 DEF ReceiveCmdVel, TypeOK
    <3> QED BY <1>5, <3>1 DEF ReceiveCmdVel, CmdMsg
  <2> QED BY <1>5, <2>1, <2>2 DEF ReceiveCmdVel, TypeOK, operator, history
<1>6. CASE Tick
  <2>1. /\ joy' \in Seq(JoyMsg) /\ Ordered(joy)' /\ Timely(joy)'
        /\ cmd_vel' \in Seq(CmdMsg) /\ Ordered(cmd_vel)' /\ Timely(cmd_vel)'
    BY <1>6, Aged
  <2>2. box' \in [twist : Twists, age : Nat]
    <3>0. box' = [box EXCEPT !.age = Least(box.age + 1, CmdVelTimeout + 1)]
      BY <1>6 DEF Tick
    <3>1. box \in [twist : Twists, age : Nat] /\ box.age + 1 \in Nat /\ CmdVelTimeout + 1 \in Nat
      BY Constants DEF TypeOK
    <3>2. Least(box.age + 1, CmdVelTimeout + 1) \in Nat
      BY <3>1, LeastFacts
    <3> QED BY <3>0, <3>1, <3>2
  <2>3. /\ since_joy' \in 0 .. JoyPeriod /\ steady' \in 0 .. MaxCount /\ idle' \in 0 .. MaxCount
        /\ timer' \in 0 .. WatchdogPeriod
    <3>1. /\ since_joy + 1 \in Nat /\ steady + 1 \in Nat /\ idle + 1 \in Nat
          /\ JoyPeriod \in Nat /\ MaxCount \in Nat
      BY Constants DEF TypeOK
    <3>2. /\ since_joy' = Least(since_joy + 1, JoyPeriod) /\ steady' = Least(steady + 1, MaxCount)
          /\ idle' = Least(idle + 1, MaxCount) /\ timer > 0 /\ timer' = timer - 1
      BY <1>6 DEF Tick
    <3>3. timer' \in 0 .. WatchdogPeriod
      BY <3>2, Constants DEF TypeOK
    <3> QED BY <3>1, <3>2, <3>3, LeastFacts
  <2>4. last_joy_time' = None \/ last_joy_time' \in 0 .. JoyTimeout + 1
    <3>1. CASE last_joy_time = None
      BY <1>6, <3>1 DEF Tick
    <3>2. CASE last_joy_time # None
      <4>1. last_joy_time + 1 \in Nat /\ JoyTimeout + 1 \in Nat
        BY <3>2, Constants DEF TypeOK
      <4>2. last_joy_time' = Least(last_joy_time + 1, JoyTimeout + 1)
        BY <1>6, <3>2 DEF Tick
      <4> QED BY <4>1, <4>2, LeastFacts
    <3> QED BY <3>1, <3>2
  <2> QED BY <1>6, <2>1, <2>2, <2>3, <2>4 DEF Tick, TypeOK, operator
<1>7. CASE UNCHANGED vars
  BY <1>7 DEF vars, TypeOK
<1> QED BY <1>1, <1>2, <1>3, <1>4, <1>5, <1>6, <1>7 DEF Next

LEMMA Ranges ==
    ASSUME TypeOK
    PROVE  /\ since_joy \in 0 .. JoyPeriod /\ timer \in 0 .. WatchdogPeriod
           /\ steady \in 0 .. MaxCount /\ idle \in 0 .. MaxCount
           /\ last_joy_time = None \/ last_joy_time \in 0 .. JoyTimeout + 1
           /\ Len(joy) \in Nat /\ (joy # <<>> <=> Len(joy) > 0)
           /\ \A i \in 1 .. Len(joy) : joy[i].waiting \in 0 .. MaxDelay
           /\ Due \in 0 .. JoyPeriod + MaxDelay
           /\ \A i \in 1 .. Len(joy) : Behind(i) \in Nat
           /\ \A i \in 0 .. Newest - 1 :
                 /\ cmd_vel[i + 1].waiting \in 0 .. MaxDelay
                 /\ Through(i) \in (JoyPeriod + MaxDelay) .. JoyPeriod + 2 * MaxDelay
<1>1. /\ since_joy \in 0 .. JoyPeriod /\ timer \in 0 .. WatchdogPeriod
      /\ steady \in 0 .. MaxCount /\ idle \in 0 .. MaxCount
      /\ last_joy_time = None \/ last_joy_time \in 0 .. JoyTimeout + 1
      /\ Len(joy) \in Nat /\ (joy # <<>> <=> Len(joy) > 0)
  BY DEF TypeOK
<1>2. \A i \in 1 .. Len(joy) : joy[i].waiting \in 0 .. MaxDelay
  <2>1. \A i \in 1 .. Len(joy) : joy[i] \in JoyMsg /\ joy[i].waiting <= MaxDelay
    BY DEF TypeOK, Timely
  <2> QED BY <2>1, Constants DEF JoyMsg
<1>3. Due \in 0 .. JoyPeriod + MaxDelay
  <2>1. CASE joy = <<>>
    BY <1>1, <2>1, Constants DEF Due
  <2>2. CASE joy # <<>>
    <3>1. joy[1].waiting \in 0 .. MaxDelay
      BY <1>1, <1>2, <2>2
    <3>2. Due = JoyPeriod + joy[1].waiting
      BY <2>2 DEF Due
    <3> QED BY <3>1, <3>2, Constants
  <2> QED BY <2>1, <2>2
<1>4. ASSUME NEW i \in 1 .. Len(joy) PROVE Behind(i) \in Nat
  <2>1. CASE i = Len(joy)
    BY <1>1, <2>1, Constants DEF Behind
  <2>2. CASE i # Len(joy)
    <3>1. joy[i + 1].waiting \in 0 .. MaxDelay
      BY <1>1, <1>2, <2>2
    <3>2. Behind(i) = JoyPeriod + joy[i + 1].waiting
      BY <2>2 DEF Behind
    <3> QED BY <3>1, <3>2, Constants
  <2> QED BY <2>1, <2>2
<1>5. ASSUME NEW i \in 0 .. Newest - 1
      PROVE  /\ cmd_vel[i + 1].waiting \in 0 .. MaxDelay
             /\ Through(i) \in (JoyPeriod + MaxDelay) .. JoyPeriod + 2 * MaxDelay
  <2>1. i + 1 \in 1 .. Newest
    BY SentFacts
  <2>2. cmd_vel[i + 1].waiting \in 0 .. MaxDelay
    BY <2>1, SentFacts
  <2> QED BY <2>2, Constants DEF Through
<1> QED BY <1>1, <1>2, <1>3, <1>4, <1>5

LEMMA AnsweredFacts ==
    ASSUME TypeOK, NEW a \in Nat, Answered(a)
    PROVE  /\ a <= JoyTimeout + WatchdogPeriod
           /\ \A b \in 0 .. a : Answered(b)
<1>1. timer \in Nat /\ JoyTimeout \in Nat /\ WatchdogPeriod \in Nat
  BY Constants DEF TypeOK
<1>2. CASE last_joy_time \in 0 .. JoyTimeout /\ a <= last_joy_time
  <2>1. a <= JoyTimeout + WatchdogPeriod
    BY <1>1, <1>2
  <2>2. \A b \in 0 .. a : b <= last_joy_time
    BY <1>2
  <2> QED BY <1>2, <2>1, <2>2 DEF Answered
<1>3. CASE last_joy_time = JoyTimeout + 1 /\ a + timer <= JoyTimeout + WatchdogPeriod
  <2>1. a <= JoyTimeout + WatchdogPeriod
    BY <1>1, <1>3
  <2>2. \A b \in 0 .. a : b + timer <= JoyTimeout + WatchdogPeriod
    BY <1>1, <1>3
  <2> QED BY <1>3, <2>1, <2>2 DEF Answered
<1> QED BY <1>2, <1>3 DEF Answered

(* What is sent anew disturbs no command that was sent before.             *)
LEMMA SendingAsks ==
    ASSUME TypeOK, Asking, NEW t \in Twists, cmd_vel' = Enqueue(cmd_vel, NewTwist(t)),
           box' = box, idle' = idle, t # 0 => idle <= MaxDelay
    PROVE  SentAsks' /\ SentEnds'
<1>1. /\ Newest' \in Nat \ {0} /\ Sent(Newest)'.twist = t /\ Sent(Newest)'.age = 0
      /\ \A i \in 0 .. Newest' - 1 :
           /\ cmd_vel'[i + 1].waiting \in Nat
           /\ \E j \in 0 .. Newest :
                /\ Sent(i)'.twist = Sent(j).twist /\ Sent(i)'.age = Sent(j).age
                /\ j < Newest => cmd_vel'[i + 1].waiting = cmd_vel[j + 1].waiting
  BY CommandJoins
<1>2. \A i : i = Newest' => Sent(i)' = Sent(Newest)'
  BY DEF Sent
<1>3. ASSUME NEW i \in 0 .. Newest', Sent(i)'.twist # 0, Sent(i)'.age <= CmdVelTimeout
      PROVE  idle' <= MaxDelay + Sent(i)'.age
  <2>1. CASE i = Newest'
    BY <1>1, <1>2, <1>3, <2>1, Constants
  <2>2. CASE i # Newest'
    <3>1. i \in 0 .. Newest' - 1
      BY <1>1, <2>2
    <3>2. PICK j \in 0 .. Newest : Sent(i)'.twist = Sent(j).twist /\ Sent(i)'.age = Sent(j).age
      BY <1>1, <3>1
    <3>3. idle <= MaxDelay + Sent(j).age
      BY <1>3, <3>2 DEF Asking, SentAsks
    <3> QED BY <3>2, <3>3
  <2> QED BY <2>1, <2>2
<1>4. ASSUME NEW i \in 0 .. Newest' - 1, Sent(i)'.twist # 0
      PROVE  Sent(i)'.age <= (JoyTimeout + WatchdogPeriod) + cmd_vel'[i + 1].waiting
  <2>1. PICK j \in 0 .. Newest :
           /\ Sent(i)'.twist = Sent(j).twist /\ Sent(i)'.age = Sent(j).age
           /\ j < Newest => cmd_vel'[i + 1].waiting = cmd_vel[j + 1].waiting
    BY <1>1
  <2>2. CASE j < Newest
    <3>1. j \in 0 .. Newest - 1
      BY <2>2, SentFacts
    <3> QED BY <1>4, <2>1, <2>2, <3>1 DEF Asking, SentEnds
  <2>3. CASE j = Newest
    <3>1. Answered(Sent(j).age) /\ Sent(j).age \in Nat /\ cmd_vel'[i + 1].waiting \in Nat
      BY <1>1, <1>4, <2>1, <2>3, SentFacts DEF Asking, NewestEnds
    <3>2. Sent(j).age <= JoyTimeout + WatchdogPeriod
      BY <3>1, AnsweredFacts
    <3> QED BY <2>1, <3>1, <3>2, Constants
  <2>4. j < Newest \/ j = Newest
    BY SentFacts
  <2> QED BY <2>2, <2>3, <2>4
<1> QED BY <1>3, <1>4 DEF SentAsks, SentEnds

LEMMA AskingStep == TypeOK /\ Asking /\ [Next]_vars => Asking'
<1> SUFFICES ASSUME TypeOK, Asking, [Next]_vars PROVE Asking'
  OBVIOUS
<1>1. ASSUME UNCHANGED <<joy, last_joy_time, timer, cmd_vel, box, idle>> PROVE Asking'
  BY <1>1 DEF Asking, JoyAsks, SentAsks, SentEnds, NewestEnds, Sent, Newest, Answered, Requested
<1>2. CASE PublishJoy
  <2>1. /\ UNCHANGED <<held, stick, last_joy_time, timer, cmd_vel, box>>
        /\ idle' = IF held /\ stick # 0 THEN 0 ELSE idle
    BY <1>2 DEF PublishJoy, operator
  <2>2. idle' \in Nat /\ idle \in Nat /\ idle' <= idle
    BY <2>1, Ranges
  <2>3. JoyAsks'
    <3> SUFFICES ASSUME NEW i \in 1 .. Len(joy'), Requested(joy'[i]) # 0
                 PROVE  idle' <= joy'[i].waiting
      BY DEF JoyAsks, Requested
    <3>1. joy'[i].waiting \in Nat /\ Len(joy') \in Nat
      BY <1>2, JoyJoins
    <3>2. CASE i = Len(joy')
      <4>1. Asked # 0
        BY <1>2, <3>2, JoyJoins
      <4>2. idle' = 0
        BY <2>1, <4>1 DEF Asked
      <4> QED BY <3>1, <4>2
    <3>3. CASE i # Len(joy')
      <4>1. i \in 1 .. Len(joy') - 1
        BY <3>1, <3>3
      <4>2. PICK j \in 1 .. Len(joy) :
               Requested(joy'[i]) = Requested(joy[j]) /\ joy'[i].waiting >= joy[j].waiting
        BY <1>2, <4>1, JoyJoins
      <4>3. idle <= joy[j].waiting /\ joy[j].waiting \in 0 .. MaxDelay
        BY <4>2, Ranges DEF Asking, JoyAsks
      <4> QED BY <2>2, <3>1, <4>2, <4>3, Constants, SMTT(30)
    <3> QED BY <3>2, <3>3
  <2>4. SentAsks'
    <3> SUFFICES ASSUME NEW i \in 0 .. Newest, Sent(i).twist # 0, Sent(i).age <= CmdVelTimeout
                 PROVE  idle' <= MaxDelay + Sent(i).age
      BY <2>1 DEF SentAsks, Sent, Newest
    <3>1. idle <= MaxDelay + Sent(i).age
      BY DEF Asking, SentAsks
    <3> QED BY <2>2, <3>1, SentFacts, Constants
  <2>5. SentEnds' /\ NewestEnds'
    BY <2>1 DEF Asking, SentEnds, NewestEnds, Sent, Newest, Answered
  <2> QED BY <2>3, <2>4, <2>5 DEF Asking
<1>3. CASE OnJoy
  <2>1. /\ joy # <<>> /\ joy' = Tail(joy) /\ last_joy_time' = 0
        /\ cmd_vel' = Enqueue(cmd_vel, NewTwist(Requested(Head(joy))))
        /\ UNCHANGED <<timer, box, idle>>
    BY <1>3 DEF OnJoy, history
  <2>2. /\ Len(joy) \in Nat \ {0} /\ Head(joy) = joy[1] /\ joy[1] \in JoyMsg
        /\ Len(joy') = Len(joy) - 1
        /\ \A i \in 1 .. Len(joy) - 1 : joy'[i] = joy[i + 1]
    BY <2>1, MessagesWait, Served1 DEF TypeOK
  <2>3. Requested(joy[1]) \in Twists
    BY <2>2, Constants DEF Requested, JoyMsg
  <2>4. Requested(joy[1]) # 0 => idle <= MaxDelay
    <3>1. 1 \in 1 .. Len(joy)
      BY <2>2
    <3>2. joy[1].waiting \in 0 .. MaxDelay /\ idle \in Nat
      BY <3>1, Ranges
    <3>3. Requested(joy[1]) # 0 => idle <= joy[1].waiting
      BY <3>1 DEF Asking, JoyAsks
    <3> QED BY <3>2, <3>3, Constants
  <2>5. SentAsks' /\ SentEnds' /\ Sent(Newest)'.age = 0
    BY <2>1, <2>2, <2>3, <2>4, SendingAsks, CommandJoins
  <2>6. NewestEnds'
    BY <2>1, <2>5, Constants DEF NewestEnds, Answered
  <2>7. JoyAsks'
    <3> SUFFICES ASSUME NEW i \in 1 .. Len(joy'), Requested(joy'[i]) # 0
                 PROVE  idle' <= joy'[i].waiting
      BY DEF JoyAsks, Requested
    <3>1. i \in 1 .. Len(joy) - 1 /\ i + 1 \in 1 .. Len(joy)
      BY <2>2
    <3>2. joy'[i] = joy[i + 1]
      BY <2>2, <3>1
    <3> QED BY <2>1, <3>1, <3>2 DEF Asking, JoyAsks
  <2> QED BY <2>5, <2>6, <2>7 DEF Asking
<1>4. CASE Watchdog
  <2>1. /\ UNCHANGED <<joy, last_joy_time, box, idle>> /\ timer' = WatchdogPeriod
        /\ cmd_vel' = IF last_joy_time # None /\ last_joy_time > JoyTimeout
                      THEN Enqueue(cmd_vel, NewTwist(0)) ELSE cmd_vel
    BY <1>4 DEF Watchdog, history
  <2>2. JoyAsks'
    BY <2>1 DEF Asking, JoyAsks, Requested
  <2>3. CASE last_joy_time # None /\ last_joy_time > JoyTimeout
    <3>1. SentAsks' /\ SentEnds' /\ Sent(Newest)'.twist = 0
      BY <2>1, <2>3, SendingAsks, CommandJoins, Constants
    <3>2. NewestEnds'
      BY <3>1 DEF NewestEnds
    <3> QED BY <2>2, <3>1, <3>2 DEF Asking
  <2>4. CASE ~(last_joy_time # None /\ last_joy_time > JoyTimeout)
    <3>1. cmd_vel' = cmd_vel
      BY <2>1, <2>4
    <3>2. last_joy_time # JoyTimeout + 1
      BY <2>4, Constants
    <3>3. SentAsks' /\ SentEnds'
      BY <2>1, <3>1 DEF Asking, SentAsks, SentEnds, Sent, Newest
    <3>4. Sent(Newest)' = Sent(Newest)
      BY <2>1, <3>1 DEF Sent, Newest
    <3>5. NewestEnds'
      BY <2>1, <3>2, <3>4 DEF Asking, NewestEnds, Answered
    <3> QED BY <2>2, <3>3, <3>5 DEF Asking
  <2> QED BY <2>3, <2>4
<1>5. CASE ReceiveCmdVel
  <2>1. UNCHANGED <<joy, last_joy_time, timer, idle>>
    BY <1>5 DEF ReceiveCmdVel, history
  <2>2. JoyAsks'
    BY <2>1 DEF Asking, JoyAsks, Requested
  <2>3. /\ Newest \in Nat \ {0} /\ Newest' = Newest - 1
        /\ Sent(Newest)'.twist = Sent(Newest).twist /\ Sent(Newest)'.age <= Sent(Newest).age
        /\ \A i \in 0 .. Newest - 1 :
             Sent(i)'.twist = Sent(i + 1).twist /\ Sent(i)'.age = Sent(i + 1).age
        /\ \A i \in 0 .. Newest - 2 : cmd_vel'[i + 1].waiting = cmd_vel[(i + 1) + 1].waiting
    BY <1>5, CommandArrives
  <2>4. SentAsks'
    <3> SUFFICES ASSUME NEW i \in 0 .. Newest',
                        Sent(i)'.twist # 0, Sent(i)'.age <= CmdVelTimeout
                 PROVE  idle' <= MaxDelay + Sent(i)'.age
      BY DEF SentAsks
    <3>1. i \in 0 .. Newest - 1 /\ i + 1 \in 0 .. Newest
      BY <2>3
    <3> QED BY <2>1, <2>3, <3>1 DEF Asking, SentAsks
  <2>5. SentEnds'
    <3> SUFFICES ASSUME NEW i \in 0 .. Newest' - 1, Sent(i)'.twist # 0
                 PROVE  Sent(i)'.age <= (JoyTimeout + WatchdogPeriod) + cmd_vel'[i + 1].waiting
      BY DEF SentEnds
    <3>1. i \in 0 .. Newest - 2 /\ i \in 0 .. Newest - 1 /\ i + 1 \in 0 .. Newest - 1
      BY <2>3
    <3> QED BY <2>3, <3>1 DEF Asking, SentEnds
  <2>6. NewestEnds'
    <3>1. Sent(Newest)'.age \in Nat /\ Sent(Newest).age \in Nat
      <4>1. TypeOK'
        BY TypeStep
      <4>2. \A n : n = Newest' => Sent(n)' = Sent(Newest)' /\ n + 1 = Newest /\ n \in 0 .. Newest - 1
        BY <2>3 DEF Sent
      <4> QED BY <2>3, <4>2, SentFacts
    <3>2. ASSUME Sent(Newest)'.twist # 0 PROVE Answered(Sent(Newest).age)
      BY <2>3, <3>2 DEF Asking, NewestEnds
    <3>3. ASSUME Answered(Sent(Newest).age) PROVE Answered(Sent(Newest)'.age)
      BY <2>3, <3>1, <3>3, AnsweredFacts
    <3> QED BY <2>1, <3>2, <3>3 DEF NewestEnds, Answered
  <2> QED BY <2>2, <2>4, <2>5, <2>6 DEF Asking
<1>6. CASE Tick
  <2>1. /\ idle' \in Nat /\ idle \in Nat /\ idle' <= idle + 1
        /\ timer > 0 /\ timer' = timer - 1
        /\ last_joy_time' = IF last_joy_time = None THEN None
                            ELSE Least(last_joy_time + 1, JoyTimeout + 1)
    <3>1. idle' = Least(idle + 1, MaxCount)
      BY <1>6 DEF Tick
    <3>2. idle \in Nat /\ MaxCount \in Nat
      BY Ranges, Constants
    <3>3. idle' \in Nat /\ idle' <= idle + 1
      BY <3>1, <3>2 DEF Least
    <3> QED BY <1>6, <3>2, <3>3 DEF Tick
  <2>2. /\ Len(joy') = Len(joy)
        /\ \A i \in 1 .. Len(joy) : /\ joy'[i].held = joy[i].held /\ joy'[i].stick = joy[i].stick
                                    /\ joy'[i].waiting = joy[i].waiting + 1
                                    /\ joy[i].waiting \in Nat
        /\ Newest' = Newest
        /\ \A i \in 1 .. Newest : /\ cmd_vel'[i].waiting = cmd_vel[i].waiting + 1
                                  /\ cmd_vel[i].waiting \in Nat
    BY <1>6, Aged DEF Newest
  <2>3. JoyAsks'
    <3> SUFFICES ASSUME NEW i \in 1 .. Len(joy), Requested(joy'[i]) # 0
                 PROVE  idle' <= joy'[i].waiting
      BY <2>2 DEF JoyAsks, Requested
    <3>1. Requested(joy[i]) # 0
      BY <2>2 DEF Requested
    <3>2. idle <= joy[i].waiting
      BY <3>1 DEF Asking, JoyAsks
    <3> QED BY <2>1, <2>2, <3>2
  <2>4. SentAsks'
    <3> SUFFICES ASSUME NEW i \in 0 .. Newest,
                        Sent(i)'.twist # 0, Sent(i)'.age <= CmdVelTimeout
                 PROVE  idle' <= MaxDelay + Sent(i)'.age
      BY <2>2 DEF SentAsks
    <3>1. /\ Sent(i)'.twist = Sent(i).twist /\ Sent(i)'.age = Sent(i).age + 1
          /\ Sent(i).age \in Nat
      BY <1>6, SentAged, SentFacts, Constants
    <3>2. Sent(i).age <= CmdVelTimeout
      BY <3>1, Constants
    <3>3. idle <= MaxDelay + Sent(i).age
      BY <3>1, <3>2 DEF Asking, SentAsks
    <3> QED BY <2>1, <3>1, <3>3, Constants
  <2>5. SentEnds'
    <3> SUFFICES ASSUME NEW i \in 0 .. Newest - 1, Sent(i)'.twist # 0
                 PROVE  Sent(i)'.age <= (JoyTimeout + WatchdogPeriod) + cmd_vel'[i + 1].waiting
      BY <2>2 DEF SentEnds
    <3>1. i \in 0 .. Newest /\ i + 1 \in 1 .. Newest
      BY SentFacts
    <3>2. /\ Sent(i)'.twist = Sent(i).twist /\ Sent(i)'.age <= Sent(i).age + 1
          /\ Sent(i).age \in Nat /\ Sent(i)'.age \in Nat
      BY <1>6, <3>1, SentAged, SentFacts
    <3>3. cmd_vel'[i + 1].waiting = cmd_vel[i + 1].waiting + 1 /\ cmd_vel[i + 1].waiting \in Nat
      BY <2>2, <3>1
    <3>4. Sent(i).age <= (JoyTimeout + WatchdogPeriod) + cmd_vel[i + 1].waiting
      BY <3>2 DEF Asking, SentEnds
    <3> QED BY <3>2, <3>3, <3>4, Constants
  <2>6. NewestEnds'
    <3>1. /\ Sent(Newest)'.twist = Sent(Newest).twist /\ Sent(Newest)'.age <= Sent(Newest).age + 1
          /\ Sent(Newest)'.age \in Nat /\ Sent(Newest).age \in Nat
      BY <1>6, SentAged, SentFacts
    <3>0. timer \in 0 .. WatchdogPeriod /\ JoyTimeout \in Nat /\ WatchdogPeriod \in Nat
      BY Ranges, Constants
    <3> SUFFICES ASSUME NEW a, a = Sent(Newest)'.age, Sent(Newest)'.twist # 0
                 PROVE  Answered(a)'
      BY DEF NewestEnds, Answered
    <3>2. Answered(Sent(Newest).age)
      BY <3>1 DEF Asking, NewestEnds
    <3>3. CASE last_joy_time \in 0 .. JoyTimeout /\ Sent(Newest).age <= last_joy_time
      <4>1. last_joy_time' = last_joy_time + 1
        BY <2>1, <3>3, Constants DEF Least
      <4>2. CASE last_joy_time = JoyTimeout
        <5>1. last_joy_time' = JoyTimeout + 1 /\ a + timer' <= JoyTimeout + WatchdogPeriod
          BY <2>1, <3>0, <3>1, <3>3, <4>1, <4>2
        <5> QED BY <5>1 DEF Answered
      <4>3. CASE last_joy_time # JoyTimeout
        <5>1. last_joy_time' \in 0 .. JoyTimeout /\ a <= last_joy_time'
          BY <3>0, <3>1, <3>3, <4>1, <4>3
        <5> QED BY <5>1 DEF Answered
      <4> QED BY <4>2, <4>3
    <3>4. CASE /\ last_joy_time = JoyTimeout + 1
               /\ Sent(Newest).age + timer <= JoyTimeout + WatchdogPeriod
      <4>1. last_joy_time' = JoyTimeout + 1
        BY <2>1, <3>4, Constants DEF Least
      <4>2. a + timer' <= JoyTimeout + WatchdogPeriod
        BY <2>1, <3>0, <3>1, <3>4
      <4> QED BY <4>1, <4>2 DEF Answered
    <3> QED BY <3>2, <3>3, <3>4 DEF Answered
  <2> QED BY <2>3, <2>4, <2>5, <2>6 DEF Asking
<1>7. CASE Operate
  BY <1>1, <1>7 DEF Operate
<1>8. CASE UNCHANGED vars
  BY <1>1, <1>8 DEF vars
<1> QED BY <1>2, <1>3, <1>4, <1>5, <1>6, <1>7, <1>8 DEF Next


(* What is sent anew while the node follows disturbs no command before it. *)
LEMMA SendingFollows ==
    ASSUME TypeOK, SentFollows, NewestFollows, NEW t \in Twists,
           cmd_vel' = Enqueue(cmd_vel, NewTwist(t)),
           UNCHANGED <<held, stick, steady, box>>
    PROVE  SentFollows'
<1>1. /\ Newest' \in Nat \ {0}
      /\ \A i \in 0 .. Newest' - 1 :
           /\ cmd_vel'[i + 1].waiting \in Nat
           /\ \E j \in 0 .. Newest :
                /\ Sent(i)'.twist = Sent(j).twist /\ Sent(i)'.age = Sent(j).age
                /\ j < Newest => cmd_vel'[i + 1].waiting = cmd_vel[j + 1].waiting
  BY CommandJoins
<1>2. Asked' = Asked /\ steady' = steady
  BY DEF Asked
<1>3. SUFFICES ASSUME NEW i \in 0 .. Newest' - 1,
                      NEW th, th = (JoyPeriod + MaxDelay) + cmd_vel'[i + 1].waiting
               PROVE  steady <= th \/ (Sent(i)'.twist = Asked /\ Sent(i)'.age <= th)
  BY <1>2 DEF SentFollows, Through
<1>4. PICK j \in 0 .. Newest :
         /\ Sent(i)'.twist = Sent(j).twist /\ Sent(i)'.age = Sent(j).age
         /\ j < Newest => cmd_vel'[i + 1].waiting = cmd_vel[j + 1].waiting
  BY <1>1
<1>5. CASE j < Newest
  <2>1. j \in 0 .. Newest - 1
    BY <1>5, SentFacts
  <2>2. th = Through(j)
    BY <1>3, <1>4, <1>5 DEF Through
  <2>3. steady <= Through(j) \/ (Sent(j).twist = Asked /\ Sent(j).age <= Through(j))
    BY <2>1 DEF SentFollows
  <2> QED BY <1>4, <2>2, <2>3
<1>6. CASE j = Newest
  <2>1. steady <= Due \/ (Sent(j).twist = Asked /\ Sent(j).age <= Due)
    BY <1>6 DEF NewestFollows
  <2>2. Due \in 0 .. JoyPeriod + MaxDelay /\ cmd_vel'[i + 1].waiting \in Nat
    BY <1>1, Ranges
  <2>3. Due \in Nat /\ th \in Nat /\ Due <= th /\ steady \in Nat /\ Sent(j).age \in Nat
    <3>1. Due \in Nat /\ th \in Nat /\ Due <= th
      BY <1>3, <2>2, Constants
    <3>2. steady \in Nat /\ Sent(j).age \in Nat
      BY Ranges, SentFacts
    <3> QED BY <3>1, <3>2
  <2>4. steady <= Due => steady <= th
    BY <2>3
  <2>5. Sent(j).age <= Due => Sent(j).age <= th
    BY <2>3
  <2> QED BY <1>4, <2>1, <2>4, <2>5
<1>7. j < Newest \/ j = Newest
  BY SentFacts
<1> QED BY <1>5, <1>6, <1>7

LEMMA FollowsStep == TypeOK /\ Follows /\ [Next]_vars => Follows'
<1> SUFFICES ASSUME TypeOK, Follows, [Next]_vars, linked' PROVE Follows'
  BY DEF Follows
<1> USE DEF Follows
<1>1. CASE Operate
  <2>1. /\ UNCHANGED <<since_joy, joy, last_joy_time, cmd_vel, box>> /\ steady' = 0
    BY <1>1 DEF Operate
  <2>2. /\ Due' \in Nat /\ \A i \in 1 .. Len(joy) : Behind(i)' \in Nat
    BY <2>1, Ranges DEF Due, Behind
  <2>3. \A i \in 0 .. Newest - 1 : Through(i)' \in Nat
    <3>1. \A i \in 0 .. Newest - 1 : Through(i) \in Nat
      BY Ranges, Constants
    <3> QED BY <2>1, <3>1 DEF Through
  <2>4. JoyFollows'
    BY <2>1, <2>2 DEF JoyFollows
  <2>5. NodeFollows' /\ NewestFollows'
    BY <2>1, <2>2 DEF NodeFollows, NewestFollows
  <2>6. SentFollows'
    BY <2>1, <2>3 DEF SentFollows, Newest
  <2> QED BY <2>4, <2>5, <2>6
<1>2. CASE PublishJoy
  <2>1. /\ linked /\ since_joy' = 0
        /\ UNCHANGED <<held, stick, last_joy_time, cmd_vel, box, steady>>
    BY <1>2 DEF PublishJoy, operator
  <2>2. /\ joy' # <<>> /\ Len(joy') \in Nat \ {0} /\ Len(joy) \in Nat
        /\ joy # <<>> => joy'[1].waiting = joy[1].waiting
        /\ joy = <<>> => joy'[1].waiting = 0
        /\ Requested(joy'[Len(joy')]) = Asked
        /\ \A i \in 1 .. Len(joy') : joy'[i].waiting \in Nat
    BY <1>2, JoyJoins
  <2>3. Due \in Nat /\ Due' \in Nat /\ Due <= Due' /\ steady \in Nat
    <3>1. Due' = JoyPeriod + joy'[1].waiting /\ joy'[1].waiting \in Nat
      BY <2>2 DEF Due
    <3>2. Due \in Nat /\ steady \in Nat /\ since_joy \in 0 .. JoyPeriod /\ JoyPeriod \in Nat
      BY Ranges, Constants
    <3>3. Due <= Due'
      <4>1. CASE joy = <<>>
        BY <2>2, <3>1, <3>2, <4>1 DEF Due
      <4>2. CASE joy # <<>>
        BY <2>2, <3>1, <3>2, <4>2 DEF Due
      <4> QED BY <4>1, <4>2
    <3> QED BY <3>1, <3>2, <3>3
  <2>4. JoyFollows'
    <3> SUFFICES ASSUME NEW i \in 1 .. Len(joy')
                 PROVE  steady' <= Behind(i)' \/ Requested(joy'[i]) = Asked
      BY <2>1 DEF JoyFollows, Requested, Asked
    <3>1. CASE i = Len(joy')
      BY <2>2, <3>1
    <3>2. CASE i # Len(joy')
      <4>1. i \in 1 .. Len(joy') - 1
        BY <2>2, <3>2
      <4>2. PICK j \in 1 .. Len(joy) :
               /\ Requested(joy'[i]) = Requested(joy[j])
               /\ j < Len(joy) => joy'[i + 1].waiting = joy[j + 1].waiting
        BY <1>2, <4>1, JoyJoins
      <4>3. steady <= Behind(j) \/ Requested(joy[j]) = Asked
        BY <2>1 DEF JoyFollows
      <4>4. Behind(i)' = JoyPeriod + joy'[i + 1].waiting /\ joy'[i + 1].waiting \in Nat
        BY <2>2, <3>2, <4>1 DEF Behind
      <4>5. Behind(j) <= Behind(i)' /\ Behind(i)' \in Nat /\ Behind(j) \in Nat /\ steady \in Nat
        <5>1. Behind(j) \in Nat /\ since_joy \in 0 .. JoyPeriod /\ JoyPeriod \in Nat /\ steady \in Nat
          BY Ranges, Constants
        <5>2. CASE j = Len(joy)
          BY <4>4, <5>1, <5>2 DEF Behind
        <5>3. CASE j # Len(joy)
          <6>1. j < Len(joy)
            BY <2>2, <5>3
          <6> QED BY <4>2, <4>4, <5>1, <5>3, <6>1 DEF Behind
        <5> QED BY <5>2, <5>3
      <4>6. steady <= Behind(j) => steady' <= Behind(i)'
        BY <2>1, <4>5
      <4> QED BY <4>2, <4>3, <4>6
    <3> QED BY <3>1, <3>2
  <2>5. NodeFollows'
    <3>1. steady <= Due => steady' <= Due'
      BY <2>1, <2>3
    <3>2. last_joy_time # None /\ last_joy_time <= Due =>
             last_joy_time' # None /\ last_joy_time' <= Due'
      BY <2>1, <2>3, Ranges, Constants
    <3> QED BY <2>1, <3>1, <3>2 DEF NodeFollows
  <2>6. SentFollows'
    BY <2>1 DEF SentFollows, Sent, Newest, Through, Asked
  <2>7. NewestFollows'
    <3>1. steady <= Due => steady' <= Due'
      BY <2>1, <2>3
    <3>2. Sent(Newest).age <= Due => Sent(Newest).age <= Due'
      BY <2>3, SentFacts
    <3>3. Sent(Newest)' = Sent(Newest) /\ Asked' = Asked
      BY <2>1 DEF Sent, Newest, Asked
    <3> QED BY <2>1, <3>1, <3>2, <3>3 DEF NewestFollows
  <2> QED BY <2>4, <2>5, <2>6, <2>7
<1>3. CASE OnJoy
  <2>1. /\ linked /\ joy # <<>> /\ joy' = Tail(joy) /\ last_joy_time' = 0
        /\ cmd_vel' = Enqueue(cmd_vel, NewTwist(Requested(Head(joy))))
        /\ UNCHANGED <<held, stick, since_joy, box, steady>>
    BY <1>3 DEF OnJoy, history, operator
  <2>2. /\ Len(joy) \in Nat \ {0} /\ Head(joy) = joy[1] /\ joy[1] \in JoyMsg
        /\ Len(joy') = Len(joy) - 1 /\ joy' \in Seq(JoyMsg)
        /\ \A i \in 1 .. Len(joy) - 1 : joy'[i] = joy[i + 1]
    BY <2>1, MessagesWait, Served1 DEF TypeOK
  <2>3. Requested(joy[1]) \in Twists
    BY <2>2, Constants DEF Requested, JoyMsg
  <2>4. Asked' = Asked
    BY <2>1 DEF Asked
  <2>5. \A i \in 1 .. Len(joy') : Behind(i)' = Behind(i + 1)
    <3> SUFFICES ASSUME NEW i \in 1 .. Len(joy') PROVE Behind(i)' = Behind(i + 1)
      OBVIOUS
    <3>1. CASE i = Len(joy')
      BY <2>1, <2>2, <3>1 DEF Behind
    <3>2. CASE i # Len(joy')
      <4>1. i + 1 \in 1 .. Len(joy) - 1 /\ i + 1 # Len(joy)
        BY <2>2, <3>2
      <4>2. joy'[i + 1] = joy[(i + 1) + 1]
        BY <2>2, <4>1
      <4> QED BY <3>2, <4>1, <4>2 DEF Behind
    <3> QED BY <3>1, <3>2
  <2>6. Due' = Behind(1)
    <3>1. joy' = <<>> <=> Len(joy) = 1
      BY <2>2
    <3>2. CASE Len(joy) = 1
      BY <2>1, <3>1, <3>2 DEF Due, Behind
    <3>3. CASE Len(joy) # 1
      <4>1. 1 \in 1 .. Len(joy) - 1
        BY <2>2, <3>3
      <4>2. joy'[1] = joy[1 + 1]
        BY <2>2, <4>1
      <4> QED BY <3>1, <3>3, <4>2 DEF Due, Behind
    <3> QED BY <3>2, <3>3
  <2>7. 1 \in 1 .. Len(joy) /\ Due' \in Nat
    <3>1. 1 \in 1 .. Len(joy)
      BY <2>2
    <3> QED BY <2>6, <3>1, Ranges
  <2>8. JoyFollows'
    <3> SUFFICES ASSUME NEW i \in 1 .. Len(joy')
                 PROVE  steady' <= Behind(i)' \/ Requested(joy'[i]) = Asked
      BY <2>4 DEF JoyFollows, Requested
    <3>1. i \in 1 .. Len(joy) - 1 /\ i + 1 \in 1 .. Len(joy)
      BY <2>2
    <3>2. joy'[i] = joy[i + 1] /\ Behind(i)' = Behind(i + 1)
      BY <2>2, <2>5, <3>1
    <3> QED BY <2>1, <3>1, <3>2 DEF JoyFollows
  <2>9. NodeFollows'
    BY <2>1, <2>7, Constants DEF NodeFollows
  <2>10. SentFollows'
    BY <2>1, <2>2, <2>3, SendingFollows
  <2>11. NewestFollows'
    <3>1. Sent(Newest)'.twist = Requested(joy[1]) /\ Sent(Newest)'.age = 0
      BY <2>1, <2>2, <2>3, CommandJoins
    <3>2. steady <= Behind(1) \/ Requested(joy[1]) = Asked
      BY <2>1, <2>7 DEF JoyFollows
    <3> QED BY <2>1, <2>4, <2>6, <2>7, <3>1, <3>2 DEF NewestFollows
  <2> QED BY <2>8, <2>9, <2>10, <2>11
<1>4. CASE Watchdog
  <2>1. /\ UNCHANGED <<held, stick, linked, since_joy, joy, last_joy_time, box, steady>>
        /\ cmd_vel' = IF last_joy_time # None /\ last_joy_time > JoyTimeout
                      THEN Enqueue(cmd_vel, NewTwist(0)) ELSE cmd_vel
    BY <1>4 DEF Watchdog, history, operator
  <2>2. JoyFollows' /\ NodeFollows' /\ Asked' = Asked /\ Due' = Due
    BY <2>1 DEF JoyFollows, NodeFollows, Asked, Due, Behind, Requested
  <2>3. CASE last_joy_time # None /\ last_joy_time > JoyTimeout
    <3>1. SentFollows'
      BY <2>1, <2>3, SendingFollows, Constants
    <3>2. steady <= Due
      <4>1. ~(last_joy_time <= Due)
        <5>1. Due \in 0 .. JoyPeriod + MaxDelay /\ last_joy_time \in 0 .. JoyTimeout + 1
          BY <2>3, Ranges
        <5> QED BY <2>3, <5>1, Constants
      <4> QED BY <2>1, <4>1 DEF NodeFollows
    <3>3. NewestFollows'
      BY <2>1, <2>2, <3>2 DEF NewestFollows
    <3> QED BY <2>2, <3>1, <3>3
  <2>4. CASE ~(last_joy_time # None /\ last_joy_time > JoyTimeout)
    <3>1. cmd_vel' = cmd_vel
      BY <2>1, <2>4
    <3>2. SentFollows'
      BY <2>1, <3>1 DEF SentFollows, Sent, Newest, Through, Asked
    <3>3. Sent(Newest)' = Sent(Newest)
      BY <2>1, <3>1 DEF Sent, Newest
    <3>4. NewestFollows'
      BY <2>1, <2>2, <3>3 DEF NewestFollows
    <3> QED BY <2>2, <3>2, <3>4
  <2> QED BY <2>3, <2>4
<1>5. CASE ReceiveCmdVel
  <2>1. UNCHANGED <<held, stick, linked, since_joy, joy, last_joy_time, steady>>
    BY <1>5 DEF ReceiveCmdVel, history, operator
  <2>2. JoyFollows' /\ NodeFollows' /\ Asked' = Asked /\ Due' = Due
    BY <2>1 DEF JoyFollows, NodeFollows, Asked, Due, Behind, Requested
  <2>3. /\ Newest \in Nat \ {0} /\ Newest' = Newest - 1
        /\ Sent(Newest)'.twist = Sent(Newest).twist /\ Sent(Newest)'.age <= Sent(Newest).age
        /\ \A i \in 0 .. Newest - 1 :
             Sent(i)'.twist = Sent(i + 1).twist /\ Sent(i)'.age = Sent(i + 1).age
        /\ \A i \in 0 .. Newest - 2 : cmd_vel'[i + 1].waiting = cmd_vel[(i + 1) + 1].waiting
    BY <1>5, CommandArrives
  <2>4. SentFollows'
    <3> SUFFICES ASSUME NEW i \in 0 .. Newest' - 1
                 PROVE  \/ steady' <= Through(i)'
                        \/ Sent(i)'.twist = Asked' /\ Sent(i)'.age <= Through(i)'
      BY DEF SentFollows
    <3>1. i \in 0 .. Newest - 2 /\ i \in 0 .. Newest - 1 /\ i + 1 \in 0 .. Newest - 1
      BY <2>3
    <3>2. Through(i)' = Through(i + 1)
      BY <2>3, <3>1 DEF Through
    <3> QED BY <2>1, <2>2, <2>3, <3>1, <3>2 DEF SentFollows
  <2>5. NewestFollows'
    <3>1. Sent(Newest)'.age \in Nat /\ Sent(Newest).age \in Nat /\ Due \in Nat
      <4>1. \A n : n = Newest' => Sent(n)' = Sent(Newest)' /\ n + 1 = Newest /\ n \in 0 .. Newest - 1
        BY <2>3 DEF Sent
      <4> QED BY <2>3, <4>1, SentFacts, Ranges
    <3>2. Sent(Newest).age <= Due => Sent(Newest)'.age <= Due
      BY <2>3, <3>1
    <3>3. steady <= Due \/ (Sent(Newest).twist = Asked /\ Sent(Newest).age <= Due)
      BY <2>1 DEF NewestFollows
    <3> QED BY <2>1, <2>2, <2>3, <3>2, <3>3 DEF NewestFollows
  <2> QED BY <2>2, <2>4, <2>5
<1>6. CASE Tick
  <2>1. /\ linked /\ UNCHANGED <<held, stick>> /\ Asked' = Asked
        /\ since_joy \in Nat /\ since_joy' = since_joy + 1
        /\ steady \in Nat /\ steady' \in Nat /\ steady' <= steady + 1
    <3>1. /\ linked /\ UNCHANGED <<held, stick>> /\ since_joy < JoyPeriod
          /\ since_joy' = Least(since_joy + 1, JoyPeriod)
          /\ steady' = Least(steady + 1, MaxCount)
      BY <1>6 DEF Tick, operator
    <3>2. steady \in Nat /\ MaxCount \in Nat /\ since_joy \in Nat /\ JoyPeriod \in Nat
      BY Ranges, Constants
    <3>3. since_joy' = since_joy + 1
      BY <3>1, <3>2 DEF Least
    <3>4. steady' \in Nat /\ steady' <= steady + 1
      BY <3>1, <3>2 DEF Least
    <3> QED BY <3>1, <3>2, <3>3, <3>4 DEF Asked
  <2>2. /\ Len(joy') = Len(joy) /\ Len(joy) \in Nat /\ (joy # <<>> <=> Len(joy) > 0)
        /\ joy' \in Seq(JoyMsg)
        /\ \A i \in 1 .. Len(joy) : /\ joy'[i].held = joy[i].held /\ joy'[i].stick = joy[i].stick
                                    /\ joy'[i].waiting = joy[i].waiting + 1
                                    /\ joy[i].waiting \in Nat
        /\ Newest' = Newest
        /\ \A i \in 1 .. Newest : /\ cmd_vel'[i].waiting = cmd_vel[i].waiting + 1
                                  /\ cmd_vel[i].waiting \in Nat
    BY <1>6, Aged, Ranges DEF Newest
  <2>3. Due' = Due + 1 /\ Due \in Nat
    <3>1. CASE joy = <<>>
      <4>1. joy' = <<>>
        BY <2>2, <3>1
      <4> QED BY <2>1, <3>1, <4>1 DEF Due
    <3>2. CASE joy # <<>>
      <4>1. joy' # <<>> /\ 1 \in 1 .. Len(joy)
        BY <2>2, <3>2
      <4>2. joy'[1].waiting = joy[1].waiting + 1 /\ joy[1].waiting \in Nat
        BY <2>2, <4>1
      <4>3. Due = JoyPeriod + joy[1].waiting
        BY <3>2 DEF Due
      <4>4. Due' = JoyPeriod + joy'[1].waiting
        BY <4>1 DEF Due
      <4> QED BY <4>2, <4>3, <4>4, Constants
    <3> QED BY <3>1, <3>2
  <2>4. JoyFollows'
    <3> SUFFICES ASSUME NEW i \in 1 .. Len(joy)
                 PROVE  steady' <= Behind(i)' \/ Requested(joy'[i]) = Asked
      BY <2>1, <2>2 DEF JoyFollows, Requested
    <3>1. Requested(joy'[i]) = Requested(joy[i])
      BY <2>2 DEF Requested
    <3>2. Behind(i)' = Behind(i) + 1 /\ Behind(i) \in Nat
      <4>1. CASE i = Len(joy)
        BY <2>1, <2>2, <4>1 DEF Behind
      <4>2. CASE i # Len(joy)
        <5>1. i + 1 \in 1 .. Len(joy)
          BY <2>2, <4>2
        <5>2. joy'[i + 1].waiting = joy[i + 1].waiting + 1 /\ joy[i + 1].waiting \in Nat
          BY <2>2, <5>1
        <5> QED BY <2>2, <4>2, <5>2, Constants DEF Behind
      <4> QED BY <4>1, <4>2
    <3>3. steady <= Behind(i) => steady' <= Behind(i)'
      BY <2>1, <3>2
    <3> QED BY <2>1, <3>1, <3>3 DEF JoyFollows
  <2>5. NodeFollows'
    <3>1. steady <= Due => steady' <= Due'
      BY <2>1, <2>3
    <3>2. ASSUME last_joy_time # None, last_joy_time <= Due
          PROVE  last_joy_time' # None /\ last_joy_time' <= Due'
      <4>1. last_joy_time \in Nat /\ JoyTimeout \in Nat /\ None = -1
        BY <3>2, Ranges, Constants
      <4>2. last_joy_time' = Least(last_joy_time + 1, JoyTimeout + 1)
        BY <1>6, <3>2 DEF Tick
      <4>3. last_joy_time' \in Nat /\ last_joy_time' <= last_joy_time + 1
        BY <4>1, <4>2 DEF Least
      <4> QED BY <2>3, <3>2, <4>1, <4>3
    <3> QED BY <2>1, <3>1, <3>2 DEF NodeFollows
  <2>6. SentFollows'
    <3> SUFFICES ASSUME NEW i \in 0 .. Newest - 1
                 PROVE  \/ steady' <= Through(i)'
                        \/ Sent(i)'.twist = Asked /\ Sent(i)'.age <= Through(i)'
      BY <2>1, <2>2 DEF SentFollows
    <3>1. i \in 0 .. Newest /\ i + 1 \in 1 .. Newest
      BY SentFacts
    <3>2. /\ Sent(i)'.twist = Sent(i).twist /\ Sent(i)'.age <= Sent(i).age + 1
          /\ Sent(i).age \in Nat /\ Sent(i)'.age \in Nat
      BY <1>6, <3>1, SentAged, SentFacts
    <3>3. Through(i)' = Through(i) + 1 /\ Through(i) \in Nat
      <4>1. cmd_vel'[i + 1].waiting = cmd_vel[i + 1].waiting + 1 /\ cmd_vel[i + 1].waiting \in Nat
        BY <2>2, <3>1
      <4> QED BY <4>1, Constants DEF Through
    <3>4. steady <= Through(i) => steady' <= Through(i)'
      BY <2>1, <3>3
    <3>5. Sent(i).age <= Through(i) => Sent(i)'.age <= Through(i)'
      BY <3>2, <3>3
    <3> QED BY <2>1, <3>2, <3>4, <3>5 DEF SentFollows
  <2>7. NewestFollows'
    <3>1. /\ Sent(Newest)'.twist = Sent(Newest).twist /\ Sent(Newest)'.age <= Sent(Newest).age + 1
          /\ Sent(Newest)'.age \in Nat /\ Sent(Newest).age \in Nat
      BY <1>6, SentAged, SentFacts
    <3>2. steady <= Due => steady' <= Due'
      BY <2>1, <2>3
    <3>3. Sent(Newest).age <= Due => Sent(Newest)'.age <= Due'
      BY <2>3, <3>1
    <3> QED BY <2>1, <3>1, <3>2, <3>3 DEF NewestFollows
  <2> QED BY <2>4, <2>5, <2>6, <2>7
<1>7. CASE UNCHANGED vars
  BY <1>7 DEF vars, JoyFollows, NodeFollows, SentFollows, NewestFollows, Sent, Newest, Through,
              Asked, Due, Behind, Requested
<1> QED BY <1>1, <1>2, <1>3, <1>4, <1>5, <1>6, <1>7 DEF Next

-----------------------------------------------------------------------------
THEOREM Inductive == Spec => []IInv
<1>1. Init => IInv
  <2> SUFFICES ASSUME Init PROVE IInv
    OBVIOUS
  <2>1. /\ held = FALSE /\ stick = 0 /\ since_joy = 0 /\ joy = <<>> /\ cmd_vel = <<>>
        /\ last_joy_time = None /\ timer = WatchdogPeriod
        /\ box = [twist |-> 0, age |-> CmdVelTimeout + 1] /\ steady = 0 /\ idle = MaxCount
        /\ linked \in BOOLEAN
    BY DEF Init
  <2>2. Newest = 0 /\ Sent(0) = box /\ Len(joy) = 0
    BY <2>1 DEF Newest, Sent
  <2>3. TypeOK
    <3>1. /\ joy \in Seq(JoyMsg) /\ Ordered(joy) /\ Timely(joy)
          /\ cmd_vel \in Seq(CmdMsg) /\ Ordered(cmd_vel) /\ Timely(cmd_vel)
      BY <2>1 DEF Ordered, Timely
    <3>2. box \in [twist : Twists, age : Nat]
      BY <2>1, Constants
    <3>3. /\ since_joy \in 0 .. JoyPeriod /\ timer \in 0 .. WatchdogPeriod
          /\ steady \in 0 .. MaxCount /\ idle \in 0 .. MaxCount
      BY <2>1, Constants
    <3>4. held \in BOOLEAN /\ stick \in Twists /\ linked \in BOOLEAN /\ last_joy_time = None
      BY <2>1, Constants
    <3> QED BY <3>1, <3>2, <3>3, <3>4 DEF TypeOK
  <2>4. Asking
    BY <2>1, <2>2 DEF Asking, JoyAsks, SentAsks, SentEnds, NewestEnds
  <2>5. Follows
    BY <2>1, <2>2 DEF Follows, JoyFollows, NodeFollows, SentFollows, NewestFollows, Due
  <2> QED BY <2>3, <2>4, <2>5 DEF IInv
<1>2. IInv /\ [Next]_vars => IInv'
  BY TypeStep, AskingStep, FollowsStep DEF IInv
<1> QED BY <1>1, <1>2, PTL DEF Spec

(* However the drive ends, and whatever was under way, the wheels have no  *)
(* command left once Linger has passed since the last message that asked   *)
(* for motion.                                                             *)
THEOREM MotionEnds == Spec => []NoMotionWithoutDeadman
<1>1. IInv => NoMotionWithoutDeadman
  <2> SUFFICES ASSUME IInv, Driven # 0 PROVE idle <= Linger
    BY Ranges, Constants DEF IInv, NoMotionWithoutDeadman
  <2>0. TypeOK /\ SentAsks /\ SentEnds /\ NewestEnds
    BY DEF IInv, Asking
  <2>1. /\ Newest \in Nat /\ Sent(0) = box /\ box.age \in Nat
        /\ box.twist # 0 /\ box.age <= CmdVelTimeout
    <3>1. Newest \in Nat /\ Sent(0) = box /\ box.age \in Nat
      BY <2>0, SentFacts DEF TypeOK
    <3>2. ~(box.age > CmdVelTimeout) /\ box.twist # 0
      BY DEF Driven
    <3> QED BY <3>1, <3>2, Constants
  <2>2. idle <= MaxDelay + box.age
    BY <2>0, <2>1 DEF SentAsks
  <2>3. box.age <= (JoyTimeout + WatchdogPeriod) + MaxDelay
    <3>1. CASE Newest = 0
      <4>1. Answered(box.age)
        BY <2>0, <2>1, <3>1 DEF NewestEnds
      <4>2. box.age <= JoyTimeout + WatchdogPeriod
        BY <2>0, <2>1, <4>1, AnsweredFacts
      <4> QED BY <2>1, <4>2, Constants
    <3>2. CASE Newest # 0
      <4>1. 0 \in 0 .. Newest - 1
        BY <2>1, <3>2
      <4>2. box.age <= (JoyTimeout + WatchdogPeriod) + cmd_vel[0 + 1].waiting
        BY <2>0, <2>1, <4>1 DEF SentEnds
      <4>3. cmd_vel[0 + 1].waiting \in 0 .. MaxDelay
        BY <2>0, <4>1, Ranges
      <4> QED BY <2>1, <4>2, <4>3, Constants
    <3> QED BY <3>1, <3>2
  <2>4. idle \in Nat
    BY <2>0, Ranges
  <2> QED BY <2>1, <2>2, <2>3, <2>4, Constants DEF Linger, Least
<1> QED BY <1>1, Inductive, PTL

(* What the wheels do once the change has had time to get through.         *)
LEMMA Settled ==
    ASSUME IInv, linked, steady > Latency
    PROVE  box.twist = Asked /\ box.age \in Nat /\ box.age <= CmdVelTimeout
<1>1. TypeOK /\ SentFollows /\ NewestFollows
  BY DEF IInv, Follows
<1>2. Newest \in Nat /\ Sent(0) = box /\ box.age \in Nat /\ steady \in Nat
  BY <1>1, SentFacts DEF TypeOK
<1>3. Latency = JoyPeriod + 2 * MaxDelay /\ Latency <= CmdVelTimeout
      /\ JoyPeriod \in Nat /\ MaxDelay \in Nat /\ CmdVelTimeout \in Nat
  BY Constants DEF Latency
<1>4. CASE Newest = 0
  <2>1. Due \in 0 .. JoyPeriod + MaxDelay
    BY <1>1, Ranges
  <2>2. ~(steady <= Due)
    BY <1>2, <1>3, <2>1
  <2>3. box.twist = Asked /\ box.age <= Due
    BY <1>1, <1>2, <1>4, <2>2 DEF NewestFollows
  <2> QED BY <1>2, <1>3, <2>1, <2>3
<1>5. CASE Newest # 0
  <2>1. 0 \in 0 .. Newest - 1
    BY <1>2, <1>5
  <2>2. Through(0) \in (JoyPeriod + MaxDelay) .. JoyPeriod + 2 * MaxDelay
    BY <1>1, <2>1, Ranges
  <2>3. ~(steady <= Through(0))
    BY <1>2, <1>3, <2>2
  <2>4. box.twist = Asked /\ box.age <= Through(0)
    BY <1>1, <1>2, <2>1, <2>3 DEF SentFollows
  <2> QED BY <1>2, <1>3, <2>2, <2>4
<1> QED BY <1>4, <1>5

(* On a live link the button let go stops the robot within Latency,        *)
(* without waiting for a timeout.                                          *)
THEOREM ReleaseStops == Spec => []ReleaseStopsPromptly
<1>1. IInv => ReleaseStopsPromptly
  BY Settled DEF ReleaseStopsPromptly, Driven, Asked
<1> QED BY <1>1, Inductive, PTL

(* On a live link the button held drives, and neither watchdog interrupts. *)
THEOREM HoldDrives == Spec => []HoldKeepsDriving
<1>1. IInv => HoldKeepsDriving
  <2> SUFFICES ASSUME IInv, linked, held, steady > Latency PROVE Driven = stick
    BY DEF HoldKeepsDriving
  <2>1. box.twist = Asked /\ box.age \in Nat /\ box.age <= CmdVelTimeout
    BY Settled
  <2>2. ~(box.age > CmdVelTimeout)
    BY <2>1, Constants
  <2> QED BY <2>1, <2>2 DEF Driven, Asked
<1> QED BY <1>1, Inductive, PTL

===============================================================================
