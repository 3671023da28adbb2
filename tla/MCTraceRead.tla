----------------------------- MODULE MCTraceRead -----------------------------
(* Half-second ticks, timeouts of none, one and two seconds, and SLEEP waits *)
(* below, between and above them.                                            *)
EXTENDS TraceRead

Waits == {1, 3, 6}

=============================================================================
