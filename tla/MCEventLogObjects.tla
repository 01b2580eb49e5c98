-------------------------- MODULE MCEventLogObjects --------------------------
(* Five rows, four of which share a timestamp, twice as many as fit a page. *)
EXTENDS EventLogObjects

MCRows == 1 .. 5
MCTs == <<1, 2, 2, 2, 2>>
MCKept == {1, 3, 4}

=============================================================================
