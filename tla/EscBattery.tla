------------------------------- MODULE EscBattery -------------------------------
(***************************************************************************)
(* esc_telemetry_to_battery: the voltage and the current of each ESC, as   *)
(* they come in on gpio_states, aggregated by a timer into one reading of  *)
(* the pack for the handset.                                               *)
(***************************************************************************)
EXTENDS Integers, FiniteSets, FiniteSetsExt

CONSTANTS
    Escs,         \* esc_names
    MeanSource    \* the battery_source "mean", which is no ESC's name

ASSUME EscBatteryAssumption == IsFiniteSet(Escs) /\ Escs # {} /\ MeanSource \notin Escs

VARIABLES
    source,             \* battery_source: MeanSource, or a name
    voltage, current,   \* _voltage, _current: a value per ESC seen
    sent                \* the last BatteryState

batteryVars == <<source, voltage, current, sent>>

(* A mean is kept as the sum and the number of what was added up; of none, *)
(* it is Silent.                                                           *)
Silent == [sum |-> 0, of |-> 0]
NoReading == [voltage |-> Silent, current |-> Silent]

BatteryInit == voltage = <<>> /\ current = <<>> /\ sent = NoReading

(* What is not an ESC's is skipped, an ESC that the message does not name  *)
(* keeps the value it had.                                                 *)
OnState(states) ==
    LET named == DOMAIN states \cap Escs
    IN  /\ voltage' = [e \in DOMAIN voltage \cup named |->
                         IF e \in named THEN states[e].voltage ELSE voltage[e]]
        /\ current' = [e \in DOMAIN current \cup named |->
                         IF e \in named THEN states[e].current ELSE current[e]]
        /\ UNCHANGED <<source, sent>>

Mean(values) ==
    [sum |-> MapThenSumSet(LAMBDA e : values[e], DOMAIN values),
     of  |-> Cardinality(DOMAIN values)]

AggregateNamedOnly(values) ==   \* Mutant: a source that is not there is waited for
    CASE source # MeanSource /\ source \notin DOMAIN values -> Silent
      [] source # MeanSource /\ source \in DOMAIN values -> [sum |-> values[source], of |-> 1]
      [] OTHER -> Mean(values)

Aggregate(values) ==
    IF source # MeanSource /\ source \in DOMAIN values THEN [sum |-> values[source], of |-> 1]
    ELSE Mean(values)

TickPublish ==
    /\ sent' = IF Aggregate(voltage) = Silent THEN sent
               ELSE [voltage |-> Aggregate(voltage), current |-> Aggregate(current)]
    /\ UNCHANGED <<source, voltage, current>>

(* What the handset should show of a telemetry.                            *)
Pack(telemetry) ==
    LET shown == IF source \in Escs THEN {source} ELSE Escs
    IN  [voltage |-> [sum |-> MapThenSumSet(LAMBDA e : telemetry[e].voltage, shown),
                      of  |-> Cardinality(shown)],
         current |-> [sum |-> MapThenSumSet(LAMBDA e : telemetry[e].current, shown),
                      of  |-> Cardinality(shown)]]

=============================================================================
