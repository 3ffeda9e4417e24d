------------------------- MODULE MCServiceEntities -------------------------
(* One entity of each kind, one fact besides the schedule, scripts of up to *)
(* five lines: long enough for define, edit, remove, re-define, remove.    *)
EXTENDS ServiceEntities
=============================================================================
