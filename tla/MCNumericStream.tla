-------------------------- MODULE MCNumericStream --------------------------
(* NumericStream for TLC: how long a range is.                             *)
EXTENDS NumericStream

(* A calendar that turns at the first tick, and one that never does.       *)
ShortDays == [q \in Query |-> IF q \in Rolling THEN 1 ELSE 2]
LongDays  == [q \in Query |-> IF q \in Rolling THEN 1 ELSE 99]

=============================================================================
