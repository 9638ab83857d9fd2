----------------------------- MODULE CompassDriver -----------------------------
(***************************************************************************)
(* ist8310_driver_node: it sets the compass chip up once and then polls    *)
(* it; every poll fetches the measurement the previous one has triggered.  *)
(* The chip works on its own, so a measurement can finish between any two  *)
(* bus transactions of a poll, and in the middle of the six-byte read.     *)
(*                                                                         *)
(* The chip is not in this repository.  What the driver relies on is       *)
(* external here: STAT1's DRDY is set by a finished measurement and        *)
(* cleared by reading it, STAT2's DOR is set when a measurement finishes   *)
(* over an unread one and cleared by reading STAT2, a trigger during a     *)
(* measurement starts another in its place.  A transaction on a failing    *)
(* bus raises; the chip may have carried it out all the same.              *)
(***************************************************************************)
EXTENDS Integers

CONSTANT
    Samples    \* measurements in use at a time have different numbers up to this

ASSUME CompassAssumption == Samples \in Nat /\ Samples > 5

Before == 0    \* a measurement from before this node was started
None == -1

VARIABLES
    pc,          \* the transaction the node is about to make
    healthy,     \* the bus works
    slow,        \* a measurement may take longer than the poll period
    drdy, dor,   \* the chip's STAT1 and STAT2 bits
    converting,  \* the measurement in progress, or None
    output,      \* the measurement in the output registers
    raw,         \* the node's copy of the two halves of the output
    stat2,       \* the node's copy of STAT2's DOR bit
    published    \* the last measurement published, or None

vars == <<pc, healthy, slow, drdy, dor, converting, output, raw, stat2, published>>
chip == <<drdy, dor, converting, output>>
node == <<raw, stat2, published>>

-----------------------------------------------------------------------------
Setup == {"who_am_i", "reset", "averaging", "pulse_duration", "arm_first"}
Poll  == {"status", "output", "output_rest", "stat2", "arm", "rearm"}

AfterUnreset ==   \* Mutant: the soft reset is missing
    [who_am_i |-> "averaging", averaging |-> "pulse_duration", pulse_duration |-> "arm_first",
     arm_first |-> "idle",
     status |-> "output", output |-> "output_rest", output_rest |-> "stat2", stat2 |-> "arm",
     arm |-> "check", rearm |-> "idle"]

AfterEarlyStat2 ==   \* Mutant: STAT2 is read before the output it vouches for
    [who_am_i |-> "reset", reset |-> "averaging", averaging |-> "pulse_duration",
     pulse_duration |-> "arm_first", arm_first |-> "idle",
     status |-> "stat2", stat2 |-> "output", output |-> "output_rest", output_rest |-> "arm",
     arm |-> "check", rearm |-> "idle"]

(* The order of the transactions in _configure_chip and in _poll.          *)
After ==
    [who_am_i |-> "reset", reset |-> "averaging", averaging |-> "pulse_duration",
     pulse_duration |-> "arm_first", arm_first |-> "idle",
     status |-> "output", output |-> "output_rest", output_rest |-> "stat2", stat2 |-> "arm",
     arm |-> "check", rearm |-> "idle"]

(* The chip may be in the middle of anything an earlier node has started.  *)
Init ==
    /\ pc = "who_am_i" /\ healthy \in BOOLEAN /\ slow \in BOOLEAN
    /\ drdy \in BOOLEAN /\ dor \in BOOLEAN
    /\ converting \in {None, Before} /\ output = Before
    /\ raw = <<None, None>> /\ stat2 = FALSE /\ published = None

-----------------------------------------------------------------------------
(* The bus and the chip.                                                   *)
BusChanges ==
    /\ healthy' = ~healthy
    /\ UNCHANGED <<pc, slow, chip, node>>

ConversionDone ==
    /\ converting # None
    /\ output' = converting /\ converting' = None
    /\ drdy' = TRUE /\ dor' = (dor \/ drdy)
    /\ UNCHANGED <<pc, healthy, slow, node>>

(* What a transaction does to the chip.                                    *)
Unused == 1 .. Samples \ {converting, output, raw[1], raw[2], published}

Trigger ==
    /\ converting' = CHOOSE i \in Unused : TRUE
    /\ UNCHANGED <<drdy, dor, output>>

SoftReset ==
    /\ drdy' = FALSE /\ dor' = FALSE /\ converting' = None
    /\ UNCHANGED output

OutputRead == drdy' = FALSE /\ UNCHANGED <<dor, converting, output>>
Stat2Read  == dor' = FALSE /\ UNCHANGED <<drdy, converting, output>>

Effect ==
    \/ pc \in {"arm_first", "arm", "rearm"} /\ Trigger
    \/ pc = "reset" /\ SoftReset
    \/ pc = "output_rest" /\ OutputRead
    \/ pc = "stat2" /\ Stat2Read
    \/ pc \in {"who_am_i", "averaging", "pulse_duration", "status", "output"} /\ UNCHANGED chip

-----------------------------------------------------------------------------
(* The node.                                                               *)
StartPoll ==
    /\ pc = "idle"
    /\ slow \/ converting = None
    /\ pc' = "status"
    /\ UNCHANGED <<healthy, slow, chip, node>>

ChosenAlways == After["status"]   \* Mutant: the DRDY bit is not looked at

ChosenArmedOnce ==   \* Mutant: nothing is triggered while DRDY is not set
    IF drdy THEN After["status"] ELSE "idle"

(* The branch after the status byte.                                       *)
Chosen == IF drdy THEN After["status"] ELSE "rearm"

(* A transaction that succeeds, of the set-up or of a poll.                *)
Transact ==
    /\ pc \in Setup \cup Poll
    /\ pc' = IF pc = "status" THEN Chosen ELSE After[pc]
    /\ Effect
    /\ raw' = CASE pc = "output" -> <<output, None>>
                [] pc = "output_rest" -> [raw EXCEPT ![2] = output]
                [] OTHER -> raw
    /\ stat2' = IF pc = "stat2" THEN dor ELSE stat2
    /\ UNCHANGED <<healthy, slow, published>>

(* An exception in _poll is caught and logged; one in _configure_chip      *)
(* leaves the constructor.                                                 *)
Raise ==
    /\ pc \in Setup \cup Poll /\ ~healthy
    /\ pc' = IF pc \in Poll THEN "idle" ELSE "dead"
    /\ Effect \/ UNCHANGED chip
    /\ UNCHANGED <<healthy, slow, node>>

(* The next measurement is armed by now; an overrun one is not published.  *)
Publish ==
    /\ pc = "check"
    /\ pc' = "idle"
    /\ published' = IF stat2 THEN published ELSE raw[2]
    /\ UNCHANGED <<healthy, slow, chip, raw, stat2>>

Next == BusChanges \/ ConversionDone \/ StartPoll \/ Transact \/ Raise \/ Publish

Spec == Init /\ [][Next]_vars

(* The timer keeps firing, a poll goes on to its end or its exception, and *)
(* a measurement takes a finite time.                                      *)
Fairness ==
    /\ WF_vars(StartPoll) /\ WF_vars(Transact) /\ WF_vars(Publish)
    /\ WF_vars(ConversionDone)

FairSpec == Spec /\ Fairness

-----------------------------------------------------------------------------
Ids == Before .. Samples

(* Types; and nothing measured before this node configured the chip is     *)
(* published: the reset comes before the first trigger (compass:114-117).  *)
TypeOK ==
    /\ pc \in Setup \cup Poll \cup {"idle", "check", "dead"}
    /\ healthy \in BOOLEAN /\ slow \in BOOLEAN /\ drdy \in BOOLEAN /\ dor \in BOOLEAN /\ stat2 \in BOOLEAN
    /\ converting \in Ids \cup {None} /\ output \in Ids
    /\ raw \in (Ids \cup {None}) \X (Ids \cup {None})
    /\ published \in 1 .. Samples \cup {None}

(* The two halves of what is about to be published are of one measurement, *)
(* although the chip may finish another in the middle of the read: the     *)
(* overrun bit is read after the output (compass:129-135).                 *)
WholeSamples == pc = "check" /\ ~stat2 => raw[1] = raw[2]

(* Nothing is published twice, whichever transactions fail on the way: the *)
(* output is only read when DRDY says it is new (compass:127-128).         *)
NeverTwice == [][pc = "check" /\ ~stat2 => raw[2] # published]_vars

(* A bus that has stopped failing means samples, whatever it has failed    *)
(* at, from a chip that measures within the poll period: a trigger that    *)
(* got lost is repeated by the poll that finds nothing ready               *)
(* (compass:122-125, 136-137).                                             *)
SamplesResume ==
    (<>[]healthy /\ [](pc # "dead") /\ [](~slow)) => []<>(pc = "check" /\ ~stat2)

=============================================================================
