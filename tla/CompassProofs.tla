----------------------------- MODULE CompassProofs -----------------------------
(***************************************************************************)
(* Theorems about CompassDriver, for every number of measurements in use:  *)
(* what the driver publishes was measured after it set the chip up, is of  *)
(* one measurement, and is published once, whatever fails on the bus.      *)
(***************************************************************************)
EXTENDS CompassDriver, TLAPS

Fetched == {"stat2", "arm", "check"}   \* the output has been read

(* A measurement gets a number that is not in use: there always is one.    *)
LEMMA UnusedExists ==
    (CHOOSE i \in Unused : TRUE) \in Unused
<1>1. \E i \in 1 .. 6 : i \notin {converting, output, raw[1], raw[2], published}
  OBVIOUS
<1>2. \A i \in 1 .. 6 : i \in 1 .. Samples
  BY CompassAssumption
<1>3. \E i \in Unused : TRUE
  BY <1>1, <1>2 DEF Unused
<1> QED BY <1>3

(* What holds of the fields, without the claim about published.            *)
Fields ==
    /\ pc \in Setup \cup Poll \cup {"idle", "check", "dead"}
    /\ healthy \in BOOLEAN /\ slow \in BOOLEAN /\ drdy \in BOOLEAN /\ dor \in BOOLEAN
    /\ stat2 \in BOOLEAN
    /\ converting \in Ids \cup {None} /\ output \in Ids
    /\ raw \in (Ids \cup {None}) \X (Ids \cup {None})
    /\ published \in Ids \cup {None}

(* After the reset nothing from before it is in the chip, or only in       *)
(* registers that DRDY does not offer.                                     *)
Clean ==
    /\ pc \notin {"who_am_i", "reset", "dead"} =>
          /\ converting # Before
          /\ drdy => output # Before
    /\ pc \in Fetched => raw[2] \in 1 .. Samples
    /\ published # Before

(* DRDY stands from the status byte to the end of the read, so a           *)
(* measurement that finishes in between sets the overrun bit.              *)
Whole ==
    /\ pc \in {"output", "output_rest"} => drdy
    /\ pc = "output_rest" => raw[1] = output \/ dor
    /\ pc = "stat2" => raw[1] = raw[2] \/ dor
    /\ pc \in {"arm", "check"} => raw[1] = raw[2] \/ stat2

(* What is on its way is not what has been published.                      *)
New ==
    /\ converting # None => converting # published /\ converting # raw[2]
    /\ pc \notin {"who_am_i", "reset", "dead"} /\ converting # None => converting # output
    /\ drdy => output # published
    /\ drdy /\ pc \in Fetched => output # raw[2]
    /\ pc \in Fetched => raw[2] # published

IInv == Fields /\ Clean /\ Whole /\ New

LEMMA IInvInit == Init => IInv
<1> SUFFICES ASSUME Init PROVE IInv
  OBVIOUS
<1> USE DEF Ids, Before, None
<1>1. Fields
  <2>1. stat2 \in BOOLEAN
    BY Zenon DEF Init
  <2>2. output \in Ids /\ converting \in Ids \cup {None}
    BY CompassAssumption DEF Init
  <2> QED BY <2>1, <2>2 DEF Init, Fields, Setup
<1>2. Clean /\ Whole
  BY DEF Init, Clean, Whole, Fetched
<1>3. New
  BY DEF Init, New, Fetched
<1> QED BY <1>1, <1>2, <1>3 DEF IInv

(* What a transaction makes of the chip. *)
LEMMA Effects ==
    ASSUME IInv, Effect
    PROVE  /\ pc \in {"arm_first", "arm", "rearm"} =>
                /\ converting' \in 1 .. Samples
                /\ converting' \notin {converting, output, raw[1], raw[2], published}
                /\ UNCHANGED <<drdy, dor, output>>
           /\ pc = "reset" => /\ ~drdy' /\ ~dor' /\ converting' = None
                              /\ UNCHANGED output
           /\ pc = "output_rest" => ~drdy' /\ UNCHANGED <<dor, converting, output>>
           /\ pc = "stat2" => ~dor' /\ UNCHANGED <<drdy, converting, output>>
           /\ pc \notin {"arm_first", "arm", "rearm", "reset", "output_rest", "stat2"} =>
                UNCHANGED chip
           /\ drdy' \in BOOLEAN /\ dor' \in BOOLEAN
<1>1. CASE pc \in {"arm_first", "arm", "rearm"}
  <2>1. Trigger
    BY <1>1 DEF Effect
  <2>2. converting' \in Unused
    BY <2>1, UnusedExists DEF Trigger
  <2> QED BY <1>1, <2>1, <2>2 DEF Trigger, Unused, IInv, Fields
<1>2. CASE pc = "reset"
  BY <1>2 DEF Effect, SoftReset
<1>3. CASE pc = "output_rest"
  BY <1>3 DEF Effect, OutputRead, IInv, Fields
<1>4. CASE pc = "stat2"
  BY <1>4 DEF Effect, Stat2Read, IInv, Fields
<1>5. CASE pc \notin {"arm_first", "arm", "rearm", "reset", "output_rest", "stat2"}
  BY <1>5 DEF Effect, chip, IInv, Fields
<1> QED BY <1>1, <1>2, <1>3, <1>4, <1>5

LEMMA TransactStep == IInv /\ Transact => IInv'
<1> SUFFICES ASSUME IInv, Transact PROVE IInv'
  OBVIOUS
<1> USE DEF Fetched, Setup, Poll, Ids, Before, None
<1>0. Effect /\ published' = published /\ healthy' = healthy /\ slow' = slow
  BY DEF Transact
<1>1. CASE pc \in {"who_am_i", "averaging", "pulse_duration"}
  BY <1>0, <1>1, Effects DEF Transact, After, chip, IInv, Fields, Clean, Whole, New
<1>2. CASE pc = "reset"
  BY <1>0, <1>2, Effects DEF Transact, After, chip, IInv, Fields, Clean, Whole, New
<1>3. CASE pc \in {"arm_first", "rearm"}
  BY <1>0, <1>3, Effects DEF Transact, After, chip, IInv, Fields, Clean, Whole, New
<1>4. CASE pc = "status"
  BY <1>0, <1>4, Effects DEF Transact, Chosen, After, chip, IInv, Fields, Clean, Whole, New
<1>5. CASE pc = "output"
  BY <1>0, <1>5, Effects DEF Transact, After, chip, IInv, Fields, Clean, Whole, New
<1>6. CASE pc = "output_rest"
  BY <1>0, <1>6, Effects, CompassAssumption DEF Transact, After, chip, IInv, Fields, Clean, Whole, New
<1>7. CASE pc = "stat2"
  BY <1>0, <1>7, Effects DEF Transact, After, chip, IInv, Fields, Clean, Whole, New
<1>8. CASE pc = "arm"
  BY <1>0, <1>8, Effects DEF Transact, After, chip, IInv, Fields, Clean, Whole, New
<1> QED BY <1>1, <1>2, <1>3, <1>4, <1>5, <1>6, <1>7, <1>8 DEF Transact

LEMMA RaiseStep == IInv /\ Raise => IInv'
<1> SUFFICES ASSUME IInv, Raise PROVE IInv'
  OBVIOUS
<1> USE DEF Fetched, Setup, Poll, Ids, Before, None
<1>1. CASE UNCHANGED chip
  BY <1>1 DEF Raise, node, chip, IInv, Fields, Clean, Whole, New
<1>2. CASE Effect
  BY <1>2, Effects, CompassAssumption DEF Raise, node, chip, IInv, Fields, Clean, Whole, New
<1> QED BY <1>1, <1>2 DEF Raise

LEMMA IInvStep == IInv /\ [Next]_vars => IInv'
<1> SUFFICES ASSUME IInv, [Next]_vars PROVE IInv'
  OBVIOUS
<1> USE DEF IInv, Fields, Clean, Whole, New, Fetched, Setup, Poll, Ids, Before, None
<1>1. CASE UNCHANGED vars
  BY <1>1 DEF vars
<1>2. CASE BusChanges
  BY <1>2 DEF BusChanges, chip, node
<1>3. CASE ConversionDone
  BY <1>3, CompassAssumption DEF ConversionDone, node
<1>4. CASE StartPoll
  BY <1>4 DEF StartPoll, chip, node
<1>5. CASE Transact
  BY <1>5, TransactStep
<1>6. CASE Raise
  BY <1>6, RaiseStep
<1>7. CASE Publish
  BY <1>7, CompassAssumption DEF Publish, chip
<1> QED BY <1>1, <1>2, <1>3, <1>4, <1>5, <1>6, <1>7 DEF Next

LEMMA Inductive == Spec => []IInv
  BY IInvInit, IInvStep, PTL DEF Spec

(* Types, and nothing from before the set-up is ever published.            *)
THEOREM NothingStale == Spec => []TypeOK
<1>1. IInv => TypeOK
  BY CompassAssumption DEF IInv, Fields, Clean, TypeOK, Ids, Before, None
<1> QED BY <1>1, Inductive, PTL

(* A sample is of one measurement, or marked as overrun.                   *)
THEOREM SamplesAreWhole == Spec => []WholeSamples
<1>1. IInv => WholeSamples
  BY DEF IInv, Whole, WholeSamples
<1> QED BY <1>1, Inductive, PTL

(* No measurement is published twice.                                      *)
THEOREM SamplesAreNew == Spec => NeverTwice
<1>1. IInv => (pc = "check" /\ ~stat2 => raw[2] # published)
  BY DEF IInv, New, Fetched
<1> QED BY <1>1, Inductive, PTL DEF NeverTwice

=============================================================================
