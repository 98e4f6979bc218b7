---------------------------- MODULE RecordStore ----------------------------
(***************************************************************************)
(* What the OLAP service promises about its records, whatever its requests *)
(* and whenever it dies: a working list in memory, a durable list in the   *)
(* storage file that only ever becomes a remnant of the working list, and  *)
(* diagrams of the list that was loaded last.                              *)
(***************************************************************************)
EXTENDS Integers, Sequences

CONSTANTS
  Item,          \* the records
  Remnants(_),   \* Remnants(rs): what a write of rs that stops anywhere leaves
  Shown(_)       \* Shown(rs): what the diagrams of rs show

VARIABLES
  mode,      \* "up" while the service runs, "down" otherwise
  working,   \* the records in memory
  durable,   \* the records the storage file holds
  diagrams   \* what the diagrams show

storeVars == <<mode, working, durable, diagrams>>

Init ==
  /\ mode = "down"
  /\ working = << >>
  /\ durable \in Seq(Item)
  /\ diagrams = Shown(<< >>)

Load ==
  /\ mode' = "up"
  /\ working' = durable
  /\ diagrams' = Shown(durable)
  /\ UNCHANGED durable

Last(s) == s[Len(s)]

AddOne ==
  /\ mode = "up"
  /\ working' # << >>
  /\ Last(working') \in Item
  /\ working' = Append(working, Last(working'))
  /\ UNCHANGED <<mode, durable, diagrams>>

\* The first of the records that are equal to it.
RemoveOne ==
  /\ mode = "up"
  /\ \E i \in DOMAIN working :
       /\ \A j \in 1..(i - 1) : working[j] # working[i]
       /\ working' = SubSeq(working, 1, i - 1) \o SubSeq(working, i + 1, Len(working))
  /\ UNCHANGED <<mode, durable, diagrams>>

Persist ==
  /\ mode = "up"
  /\ durable' \in Remnants(working)
  /\ UNCHANGED <<mode, working, diagrams>>

Stop ==
  /\ mode = "up"
  /\ mode' = "down"
  /\ durable' \in Remnants(working) \cup {durable}
  /\ UNCHANGED <<working, diagrams>>

\* The file is removed behind the service's back.
Lose ==
  /\ durable' = << >>
  /\ UNCHANGED <<mode, working, diagrams>>

Next == Load \/ AddOne \/ RemoveOne \/ Persist \/ Stop \/ Lose

Spec == Init /\ [][Next]_storeVars

=============================================================================
