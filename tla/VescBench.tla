-------------------------------- MODULE VescBench --------------------------------
(***************************************************************************)
(* The bench tools of tools/ on a CAN bus of VESCs that are powered up and *)
(* down and renumbered while one of them runs: can_vesc_gui, a table that  *)
(* is refreshed in place; can_vesc_test listen, which collects and then    *)
(* asks for the hardware ids; can_vesc_test pulse, which moves one motor   *)
(* and has to stop it on the way out.                                      *)
(*                                                                         *)
(* The VESCs and DroneCAN are external: a VESC sends esc.Status from its   *)
(* node id with its esc_index, answers GetNodeInfo with its own id, and    *)
(* obeys the last RawCommand that had an entry for its esc_index.  Frames  *)
(* get lost; a request is answered or, after its timeout, given up.        *)
(***************************************************************************)
EXTENDS Integers, Sequences, SequencesExt, FiniteSets, FiniteSetsExt

CONSTANTS
    Units,        \* VESCs, as their hardware ids
    NodeIds, Indices,
    Tools,        \* the tools looked at: "gui", "listen", "pulse"
    StopFrames,   \* zero commands sent on the way out of pulse
    DropAfter,    \* DROP_AFTER, in the time that a VESC may go unheard
    MaxChanges    \* bound: how often somebody does something to the bench

ASSUME BenchAssumption ==
    /\ Units \cap {"none", "no response"} = {}
    /\ NodeIds \subseteq Nat /\ Indices \subseteq Nat \ {0}
    /\ StopFrames \in Nat \ {0} /\ DropAfter \in Nat \ {0}
    /\ MaxChanges \in Nat

VARIABLES
    tool, step,    \* which tool, and how far it has got
    on, config,    \* the powered VESCs; node id and esc_index of each
    changes,       \* how often somebody has done something to the bench
    renumbered,    \* a VESC was given other numbers
    seen,          \* seen: (esc_index, node_id) -> time since its last Status
    rows,          \* _row_keys
    flagged,       \* the indices marked as collisions
    requested,     \* node ids that have been asked
    pending,       \* those whose request is open
    uuids,         \* the answers by node id
    duty,          \* what each VESC has been told last
    zeros, lost    \* zero commands sent on the way out, and lost of these

vars == <<tool, step, on, config, changes, renumbered, seen, rows, flagged, requested, pending, uuids,
          duty, zeros, lost>>
bench == <<on, config, changes, renumbered>>
asking == <<requested, pending, uuids>>
pulsing == <<duty, zeros, lost>>

Key(u) == <<config[u].index, config[u].node>>
NodesSeen(keys) == { k[2] : k \in keys }

(* The units that answer to a node id. *)
At(n) == { u \in on : config[u].node = n }

Init ==
    /\ tool \in Tools /\ step = "running"
    /\ on \in SUBSET Units
    /\ config \in [Units -> [node : NodeIds, index : Indices]]
    /\ \A u, v \in Units : config[u].node = config[v].node => u = v
    /\ changes = 0 /\ renumbered = FALSE
    /\ seen = <<>> /\ rows = <<>> /\ flagged = {}
    /\ requested = {} /\ pending = {} /\ uuids = <<>>
    /\ duty = [u \in Units |-> 0] /\ zeros = 0 /\ lost = 0

-----------------------------------------------------------------------------
(* The bench. *)
Power ==
    /\ step # "done" /\ tool # "pulse" /\ changes < MaxChanges
    /\ changes' = changes + 1
    /\ \E u \in Units : on' = IF u \in on THEN on \ {u} ELSE on \cup {u}
    /\ UNCHANGED <<tool, step, config, renumbered, seen, rows, flagged, asking, pulsing>>

(* VESC Tool gives a VESC other numbers, or another VESC takes its place.  *)
Renumber ==
    /\ tool = "gui" /\ changes < MaxChanges
    /\ changes' = changes + 1 /\ renumbered' = TRUE
    /\ \E u \in Units, n \in NodeIds, i \in Indices :
          config' = [config EXCEPT ![u] = [node |-> n, index |-> i]]
    /\ UNCHANGED <<tool, step, on, seen, rows, flagged, asking, pulsing>>

-----------------------------------------------------------------------------
(* Listening, of listen and of the GUI; listen goes on while it asks.      *)
OnStatus(u) ==
    /\ tool \in {"gui", "listen"} /\ step # "done" /\ u \in on
    /\ seen' = [k \in DOMAIN seen \cup {Key(u)} |-> IF k = Key(u) THEN 0 ELSE seen[k]]
    /\ UNCHANGED <<tool, step, bench, rows, flagged, asking, pulsing>>

(* Time goes by; every powered VESC is heard now and then.                 *)
TimePasses ==
    /\ tool = "gui"
    /\ \A u \in on : Key(u) \in DOMAIN seen /\ seen[Key(u)] = 0
    /\ seen' = [k \in DOMAIN seen |-> Min({seen[k] + 1, DropAfter + 1})]
    /\ UNCHANGED <<tool, step, bench, rows, flagged, asking, pulsing>>

Collisions(keys) ==
    { i \in Indices : Cardinality({ k \in keys : k[1] = i }) > 1 }

-----------------------------------------------------------------------------
(* can_vesc_gui. *)
Before(k, l) == k[1] < l[1] \/ (k[1] = l[1] /\ k[2] < l[2])
InOrder(keys) ==
    [r \in 1 .. Cardinality(keys) |->
       CHOOSE k \in keys : Cardinality({ l \in keys : Before(l, k) }) = r - 1]

(* Rows whose key has gone are removed; upto[n] is what stays of the rows  *)
(* before the n-th.                                                        *)
Kept(keys) ==
    LET upto[n \in 1 .. Len(rows) + 1] ==
          IF n = 1 THEN <<>>
          ELSE IF rows[n - 1] \in keys THEN Append(upto[n - 1], rows[n - 1]) ELSE upto[n - 1]
    IN  upto[Len(rows) + 1]

DiffAppended(keys) ==   \* Mutant: a new row goes to the end of the table
    Kept(keys) \o InOrder(keys \ ToSet(Kept(keys)))

(* A new key goes before the first row that is larger.                     *)
Place(s, k) == Min({ r \in DOMAIN s : Before(k, s[r]) } \cup {Len(s) + 1})
With[p \in Seq(Indices \X NodeIds) \X (Indices \X NodeIds)] ==
    InsertAt(p[1], Place(p[1], p[2]), p[2])

(* The table is not built anew: old rows are removed and then the keys     *)
(* that are not displayed inserted, one by one in their order; upto[n] is  *)
(* the table when the n-th is up.                                          *)
Diff(keys) ==
    LET kept == Kept(keys)
        new == InOrder(keys \ ToSet(kept))
        upto[n \in 1 .. Len(new) + 1] ==
          IF n = 1 THEN kept ELSE With[<<upto[n - 1], new[n - 1]>>]
    IN  upto[Len(new) + 1]

Heard == { k \in DOMAIN seen : seen[k] <= DropAfter }

RefreshKeeping ==   \* Mutant: what has not been heard of for long stays
    /\ tool = "gui"
    /\ seen' = [k \in DOMAIN seen |-> seen[k]]
    /\ requested' = requested \cup NodesSeen(DOMAIN seen)
    /\ pending' = pending \cup (NodesSeen(DOMAIN seen) \ requested)
    /\ flagged' = Collisions(DOMAIN seen)
    /\ rows' = Diff(DOMAIN seen)
    /\ UNCHANGED <<tool, step, bench, uuids, pulsing>>

(* Forget what has not been heard of for long, ask the node ids that have  *)
(* not been asked yet, mark collisions, and bring the table up to date.    *)
Refresh ==
    /\ tool = "gui"
    /\ seen' = [k \in Heard |-> seen[k]]
    /\ requested' = requested \cup NodesSeen(Heard)
    /\ pending' = pending \cup (NodesSeen(Heard) \ requested)
    /\ flagged' = Collisions(Heard)
    /\ rows' = Diff(Heard)
    /\ UNCHANGED <<tool, step, bench, uuids, pulsing>>

-----------------------------------------------------------------------------
(* GetNodeInfo. *)
AnsweredLateBound(n, answer) ==   \* Mutant: the callback looks up which node it was for when called
    LET m == IF pending = {n} THEN n ELSE Max(pending)
    IN  [k \in DOMAIN uuids \cup {m} |-> IF k = m THEN answer ELSE uuids[k]]

Answered(n, answer) ==
    [k \in DOMAIN uuids \cup {n} |-> IF k = n THEN answer ELSE uuids[k]]

Answer ==
    \E n \in pending :
       /\ \/ \E u \in At(n) : uuids' = Answered(n, u)
          \/ uuids' = Answered(n, "no response")
       /\ pending' = pending \ {n}
       /\ UNCHANGED <<tool, step, bench, seen, rows, flagged, requested, pulsing>>

(* listen stops listening and asks all it has seen at once; the table is   *)
(* printed when the requests are through.                                  *)
ListenQuery ==
    /\ tool = "listen" /\ step = "running"
    /\ step' = IF seen = <<>> THEN "done" ELSE "querying"
    /\ requested' = NodesSeen(DOMAIN seen) /\ pending' = NodesSeen(DOMAIN seen)
    /\ UNCHANGED <<tool, bench, seen, rows, flagged, uuids, pulsing>>

ListenReport ==
    /\ tool = "listen" /\ step = "querying" /\ pending = {}
    /\ step' = "done"
    /\ flagged' = Collisions(DOMAIN seen) /\ rows' = InOrder(DOMAIN seen)
    /\ UNCHANGED <<tool, bench, seen, asking, pulsing>>

-----------------------------------------------------------------------------
(* can_vesc_test pulse of one esc_index. *)
Target == Max(Indices)

(* The frame has an entry for every index up to the target's, 0 for the    *)
(* others.                                                                 *)
Obeyed(value) ==
    [u \in Units |-> CASE u \in on /\ config[u].index = Target -> value
                       [] u \in on /\ config[u].index < Target -> 0
                       [] OTHER -> duty[u]]

(* A frame of the pulse, which the bus may lose for all. *)
Pulse ==
    /\ tool = "pulse" /\ step = "running"
    /\ duty' = Obeyed(1) \/ UNCHANGED duty
    /\ UNCHANGED <<tool, step, bench, seen, rows, flagged, asking, zeros, lost>>

(* The time is over, Ctrl-C, or broadcast() raises: the finally clause.    *)
EndPulse ==
    /\ tool = "pulse" /\ step = "running"
    /\ step' = "stopping"
    /\ UNCHANGED <<tool, bench, seen, rows, flagged, asking, pulsing>>

StopPulseOnce ==   \* Mutant: one zero command is enough
    /\ tool = "pulse" /\ step = "stopping"
    /\ \/ duty' = Obeyed(0) /\ UNCHANGED lost
       \/ lost' = lost + 1 /\ UNCHANGED duty
    /\ zeros' = zeros + 1
    /\ step' = "done"
    /\ UNCHANGED <<tool, bench, seen, rows, flagged, asking>>

(* A zero command of that clause, lost or not. *)
StopPulse ==
    /\ tool = "pulse" /\ step = "stopping"
    /\ \/ duty' = Obeyed(0) /\ UNCHANGED lost
       \/ lost' = lost + 1 /\ UNCHANGED duty
    /\ zeros' = zeros + 1
    /\ step' = IF zeros' = StopFrames THEN "done" ELSE "stopping"
    /\ UNCHANGED <<tool, bench, seen, rows, flagged, asking>>

(* Nothing guards that clause itself: Ctrl-C, a second one or a first one  *)
(* that comes this late, or broadcast() raising ends it where it is.       *)
CutStop ==
    /\ tool = "pulse" /\ step = "stopping"
    /\ step' = "aborted"
    /\ UNCHANGED <<tool, bench, seen, rows, flagged, asking, pulsing>>

Next == \/ Power \/ Renumber \/ (\E u \in Units : OnStatus(u)) \/ TimePasses \/ Refresh \/ Answer
        \/ ListenQuery \/ ListenReport \/ Pulse \/ EndPulse \/ StopPulse \/ CutStop

Spec == Init /\ [][Next]_vars

(* The tool's timers fire, every powered VESC goes on broadcasting, time   *)
(* passes and requests come to an end.                                     *)
FairSpec ==
    /\ Spec
    /\ WF_vars(TimePasses) /\ WF_vars(Refresh) /\ WF_vars(Answer)
    /\ \A u \in Units : WF_vars(OnStatus(u))

-----------------------------------------------------------------------------
(* The table edited in place is at every refresh what building it anew     *)
(* would give (gui:124-138), however its rows have come and gone.          *)
Table == INSTANCE LiveTable WITH
    Keys <- Indices \X NodeIds, present <- DOMAIN seen, shown <- rows

TableAsRebuilt == Table!Spec

(* As long as no VESC is renumbered, an id shown beside a node id is that  *)
(* of the VESC that has it, whichever of several answers comes first and   *)
(* although VESCs come and go.  The GUI never asks again (gui:95-97): of a *)
(* VESC that has taken another's node id it shows the other's.             *)
IdsAreTrue ==
    ~renumbered => \A n \in DOMAIN uuids : uuids[n] \in Units => config[uuids[n]].node = n

(* When the bench is left alone (as it is after MaxChanges changes) the    *)
(* GUI comes to show what is on the bus: a row for every pair of a powered *)
(* VESC and no other, and a collision for exactly the indices that VESCs   *)
(* with different node ids share.  gui:12-13 promises one for any physical *)
(* VESCs that share an index; those of one node id as well are one key,    *)
(* one row and no collision.                                               *)
OnTheBus == { Key(u) : u \in on }

SharedIndices ==
    { i \in Indices : \E u, v \in on : /\ config[u].index = i /\ config[v].index = i
                                     /\ config[u].node # config[v].node }

TableSettles ==
    tool = "gui" => <>[](ToSet(rows) = OnTheBus /\ flagged = SharedIndices)

(* What pulse has done when it has ended, however it came to its way out:  *)
(* with the whole series of zero commands sent, no motor runs unless every *)
(* one of them is lost; with the series cut short, none runs unless every  *)
(* one that was still sent is lost, so for certain only if one was sent    *)
(* (test:276-280; test:34-35 and 265 say that one always is).              *)
PulseStops ==
    /\ tool = "pulse" /\ step = "done" /\ lost < StopFrames => \A u \in Units : duty[u] = 0
    /\ tool = "pulse" /\ step = "aborted" /\ lost < zeros => \A u \in Units : duty[u] = 0

=============================================================================
