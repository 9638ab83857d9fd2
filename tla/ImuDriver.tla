------------------------------- MODULE ImuDriver -------------------------------
(***************************************************************************)
(* icm20948_driver_node: the chip's registers lie in four banks, and every *)
(* access goes to the bank that was selected last.  The node sets the chip *)
(* up in its constructor, bank by bank, and from then on a timer polls it; *)
(* with the magnetometer enabled a poll leaves the data bank and comes     *)
(* back.  An SPI transaction may raise between any two of them, whether or *)
(* not the chip has seen it.                                               *)
(*                                                                         *)
(* The chip is external: a bank register, the registers written, and the   *)
(* I2C master, which on its own carries out the transfer that SLV0         *)
(* describes at that moment, again and again while SLV0 is enabled; that   *)
(* is how the AK09916 behind it is set up.                                 *)
(***************************************************************************)
EXTENDS Integers, Sequences, SequencesExt

VARIABLES
    mag,        \* enable_magnetometer
    prompt,     \* the I2C master serves a transfer before SLV0 is written again
    todo,       \* the transactions left of the constructor or of the poll
    stage,      \* "setup", "poll", "idle" or "dead"
    healthy,    \* the bus works
    bank,       \* the bank the chip has selected
    written,    \* the registers written since this node started: <<bank, register>>
    slv0,       \* the four registers of SLV0
    waiting,    \* the transfer last enabled has not been served
    mode,       \* CNTL2 of the AK09916
    last        \* history: the last access that reached the chip

vars == <<mag, prompt, todo, stage, healthy, bank, written, slv0, waiting, mode, last>>
chip == <<bank, written, slv0, waiting, mode, last>>

-----------------------------------------------------------------------------
(* A transaction names the bank its author had in mind.                    *)
Select(b)      == [do |-> "select", bank |-> b, reg |-> "REG_BANK_SEL", val |-> b]
Write(b, r, v) == [do |-> "write", bank |-> b, reg |-> r, val |-> v]
Read(b, r)     == [do |-> "read", bank |-> b, reg |-> r, val |-> 0]

(* Values the model tells apart.                                           *)
Whatever == 0
Off == 0          Once == 1          Standing == 2    \* SLV0_CTRL
ToAk == 1         FromAk == 2                         \* SLV0_ADDR
HXL == 17         CNTL2 == 49        CNTL3 == 50      \* registers of the AK09916
PowerDown == 0    Single == 1        Continuous == 8  \* its modes
SoftReset == 1

(* One transfer through SLV0.                                              *)
I2cMasterWrite(reg, val) ==
    <<Write(3, "ADDR", ToAk), Write(3, "REG", reg), Write(3, "DO", val), Write(3, "CTRL", Once)>>

ConfigureMagnetometerResetLast ==   \* Mutant: the soft reset comes after the mode it resets
    <<Select(0), Write(0, "USER_CTRL", Whatever), Select(3), Write(3, "I2C_MST_CTRL", Whatever)>>
    \o I2cMasterWrite(CNTL2, Continuous) \o I2cMasterWrite(CNTL3, SoftReset)
    \o <<Write(3, "ADDR", FromAk), Write(3, "REG", HXL), Write(3, "CTRL", Standing), Select(0)>>

ConfigureMagnetometer ==
    <<Select(0), Write(0, "USER_CTRL", Whatever), Select(3), Write(3, "I2C_MST_CTRL", Whatever)>>
    \o I2cMasterWrite(CNTL3, SoftReset) \o I2cMasterWrite(CNTL2, Continuous)
    \o <<Write(3, "ADDR", FromAk), Write(3, "REG", HXL), Write(3, "CTRL", Standing), Select(0)>>

ConfigureChip ==
    <<Select(0), Read(0, "WHO_AM_I"), Select(0),
      Write(0, "PWR_MGMT_1", Whatever), Write(0, "PWR_MGMT_2", Whatever), Select(2),
      Write(2, "GYRO_CONFIG_1", Whatever), Write(2, "ACCEL_CONFIG", Whatever),
      Write(2, "GYRO_SMPLRT_DIV", Whatever), Write(2, "ACCEL_SMPLRT_DIV_1", Whatever),
      Write(2, "ACCEL_SMPLRT_DIV_2", Whatever)>>
    \o (IF mag THEN ConfigureMagnetometer ELSE <<>>)
    \o <<Select(0)>>

PollMagnetometer ==
    <<Select(3), Write(3, "CTRL", Standing), Select(0), Read(0, "EXT_SENS_DATA_00")>>

PollUnselected ==   \* Mutant: the poll trusts that bank 0 is still selected
    <<Read(0, "ACCEL_XOUT_H")>> \o (IF mag THEN PollMagnetometer ELSE <<>>)

Poll ==
    <<Select(0), Read(0, "ACCEL_XOUT_H")>> \o (IF mag THEN PollMagnetometer ELSE <<>>)

(* A chip that has just been powered, or one that an earlier node has left *)
(* in the middle of anything.                                              *)
Init ==
    /\ mag \in BOOLEAN /\ prompt \in BOOLEAN /\ healthy \in BOOLEAN
    /\ stage = "setup" /\ todo = ConfigureChip
    /\ bank \in 0 .. 3 /\ written = {} /\ waiting = FALSE
    /\ \/ slv0 = [ADDR |-> 0, REG |-> 0, DO |-> 0, CTRL |-> Off] /\ mode = PowerDown
       \/ /\ slv0 = [ADDR |-> FromAk, REG |-> HXL, DO |-> Continuous, CTRL |-> Standing]
          /\ mode = Continuous
       \/ /\ slv0 = [ADDR |-> ToAk, REG |-> CNTL3, DO |-> SoftReset, CTRL |-> Once]
          /\ mode = PowerDown
    /\ last = [at |-> 0, meant |-> Read(0, "WHO_AM_I")]

-----------------------------------------------------------------------------
(* The chip.                                                               *)
(* A write to SLV0 lands there only if bank 3 is the one selected.         *)
Access(t) ==
    LET at == IF t.do = "select" THEN t.bank ELSE bank
        toSlv0 == t.do = "write" /\ bank = 3 /\ t.reg \in DOMAIN slv0
    IN  /\ bank' = at
        /\ written' = IF t.do = "write" THEN written \cup {<<bank, t.reg>>} ELSE written
        /\ slv0' = IF toSlv0 THEN [slv0 EXCEPT ![t.reg] = t.val] ELSE slv0
        /\ waiting' = IF toSlv0 THEN t.reg = "CTRL" ELSE waiting
        /\ last' = [at |-> at, meant |-> t]
        /\ UNCHANGED mode

(* The I2C master makes the transfer SLV0 describes, half-written or not.  *)
MasterRuns ==
    /\ slv0.CTRL # Off
    /\ waiting' = FALSE
    /\ mode' = CASE slv0.ADDR = ToAk /\ slv0.REG = CNTL2 -> slv0.DO
                 [] slv0.ADDR = ToAk /\ slv0.REG = CNTL3 /\ slv0.DO = SoftReset -> PowerDown
                 [] OTHER -> mode
    /\ UNCHANGED <<mag, prompt, todo, stage, healthy, bank, written, slv0, last>>

BusChanges ==
    /\ healthy' = ~healthy
    /\ UNCHANGED <<mag, prompt, todo, stage, chip>>

-----------------------------------------------------------------------------
(* The node.                                                               *)
StartPoll ==
    /\ stage = "idle"
    /\ stage' = "poll" /\ todo' = Poll
    /\ UNCHANGED <<mag, prompt, healthy, chip>>

InTime == prompt /\ waiting => Head(todo).do # "write"

(* One xfer2 that returns; after the last one the timer takes over.        *)
Transact ==
    /\ todo # <<>> /\ InTime
    /\ Access(Head(todo))
    /\ todo' = Tail(todo)
    /\ stage' = IF todo' = <<>> THEN "idle" ELSE stage
    /\ UNCHANGED <<mag, prompt, healthy>>

RaiseCaught ==   \* Mutant: an exception of the constructor is logged, as one of a poll is
    /\ todo # <<>> /\ InTime /\ ~healthy
    /\ Access(Head(todo)) \/ UNCHANGED chip
    /\ todo' = <<>> /\ stage' = "idle"
    /\ UNCHANGED <<mag, prompt, healthy>>

RaiseStuck ==   \* Mutant: after an exception the poll is still taken to be running
    /\ todo # <<>> /\ InTime /\ ~healthy
    /\ Access(Head(todo)) \/ UNCHANGED chip
    /\ todo' = <<>>
    /\ stage' = IF stage = "poll" THEN "poll" ELSE "dead"
    /\ UNCHANGED <<mag, prompt, healthy>>

(* One that raises: both parts of a poll catch it and give the poll up;    *)
(* the constructor does not.                                               *)
Raise ==
    /\ todo # <<>> /\ InTime /\ ~healthy
    /\ Access(Head(todo)) \/ UNCHANGED chip
    /\ todo' = <<>>
    /\ stage' = IF stage = "poll" THEN "idle" ELSE "dead"
    /\ UNCHANGED <<mag, prompt, healthy>>

Next == MasterRuns \/ BusChanges \/ StartPoll \/ Transact \/ Raise

Spec == Init /\ [][Next]_vars

(* The timer keeps firing, a poll goes on to its end or its exception, and *)
(* the chip gets round to every transfer.                                  *)
FairSpec ==
    Spec /\ WF_vars(StartPoll) /\ WF_vars(Transact) /\ WF_vars(MasterRuns)

-----------------------------------------------------------------------------
(* Every register access meets the bank it was written for, whatever       *)
(* transactions have failed before: no poll reads accelerations out of the *)
(* I2C master's bank, and none writes SLV0_CTRL over a register of bank 0  *)
(* (imu:201-239).                                                          *)
RightBank == last.at = last.meant.bank

(* Sensor data is published only from a chip that is awake and has every   *)
(* register of the configuration set: the driver never polls a             *)
(* half-configured chip, whose readings would be scaled wrongly            *)
(* (imu:111-115).                                                          *)
NeverHalfConfigured ==
    stage \in {"idle", "poll"} =>
       { <<t.bank, t.reg>> : t \in { u \in ToSet(ConfigureChip) : u.do = "write" } }
          \subseteq written

(* With a master that serves every transfer before the next register of    *)
(* SLV0 is written, the magnetometer measures continuously once the driver *)
(* polls it, although the master may also make any transfer that is only   *)
(* half described, over and over, and whatever an earlier node has left in *)
(* SLV0.  Nothing in the driver waits for the master (imu:181-188).        *)
MagnetometerRuns ==
    prompt /\ mag /\ stage \in {"idle", "poll"} => mode = Continuous

(* A bus that has stopped failing means data, whatever it has failed at.   *)
SamplesResume ==
    (<>[]healthy /\ [](stage # "dead"))
       => []<><<Transact /\ Head(todo).reg = "ACCEL_XOUT_H">>_vars

=============================================================================
