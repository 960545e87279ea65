------------------------ MODULE MC_ChargingProfiles -------------------------
(* TLC instance of ChargingProfiles: half-second ticks, a "day" of four       *)
(* seconds, and profiles of every kind, with edges on and off whole seconds.  *)
EXTENDS ChargingProfiles

MCRecurrence == [Daily |-> 4, Weekly |-> 28]

Absent == [from |-> None, to |-> None, start |-> None, duration |-> None,
           recurrency |-> None, floor |-> None, stack |-> 0]

\* The fields given in r, the others absent.
Profile(r) ==
    [f \in DOMAIN r \cup DOMAIN Absent |-> IF f \in DOMAIN r THEN r[f] ELSE Absent[f]]

P(start, limit, phases) == [start |-> start, limit |-> limit, phases |-> phases]

MCProfiles16 ==
    { Profile([id |-> 1, purpose |-> "TxProfile", kind |-> "Absolute", start |-> 4,
               unit |-> "A", periods |-> <<P(0, 16, None), P(2, 8, 3)>>]),
      Profile([id |-> 2, purpose |-> "TxDefaultProfile", kind |-> "Recurring",
               recurrency |-> "Daily", start |-> -3, duration |-> 3,
               unit |-> "A", periods |-> <<P(0, 10, None), P(2, 6, None)>>]),
      Profile([id |-> 3, purpose |-> "TxDefaultProfile", kind |-> "Relative", to |-> 7,
               unit |-> "W", periods |-> <<P(0, 6900, 3)>>]),
      Profile([id |-> 2, purpose |-> "TxDefaultProfile", kind |-> "Absolute", stack |-> 1,
               from |-> 6, duration |-> 4, unit |-> "A", periods |-> <<P(0, 13, None)>>]),
      Profile([id |-> 5, purpose |-> "ChargePointMaxProfile", kind |-> "Absolute", start |-> -2,
               unit |-> "W", periods |-> <<P(0, 2070, None), P(3, 3220, None)>>]),
      Profile([id |-> 6, purpose |-> "ChargePointMaxProfile", kind |-> "Relative", stack |-> 1,
               from |-> 2, to |-> 6, unit |-> "A", periods |-> <<P(0, 7, None)>>]) }

MCProfiles201 ==
    { Profile([id |-> 1, purpose |-> "TxProfile", kind |-> "Absolute", start |-> 4, floor |-> 10,
               unit |-> "A", periods |-> <<P(0, 12, None), P(2, 8, 1)>>]),
      Profile([id |-> 2, purpose |-> "TxProfile", kind |-> "Relative",
               unit |-> "W", periods |-> <<P(0, 6900, 3), P(1, 4140, 3)>>]),
      Profile([id |-> 3, purpose |-> "TxDefaultProfile", kind |-> "Recurring",
               recurrency |-> "Daily", start |-> -3, duration |-> 3,
               unit |-> "A", periods |-> <<P(0, 10, None), P(2, 6, 3)>>]),
      Profile([id |-> 5, purpose |-> "ChargingStationMaxProfile", kind |-> "Absolute",
               start |-> -2, unit |-> "W", periods |-> <<P(0, 5520, None), P(3, 2760, None)>>]),
      Profile([id |-> 3, purpose |-> "ChargingStationExternalConstraints", kind |-> "Absolute",
               start |-> -4, from |-> 2, to |-> 6, unit |-> "A", periods |-> <<P(0, 7, None)>>]) }
=============================================================================
