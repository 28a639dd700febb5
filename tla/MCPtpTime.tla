----------------------------- MODULE MCPtpTime -----------------------------
(* Clocks of 32 microseconds, of which the master's begins anywhere in a
   microsecond; slaves up to three microseconds away, among them those whose
   offset has no canonical half. *)
EXTENDS PtpTime

MCAhead == {-311, -187, -124, -123, -63, -1, 0, 62, 124, 250}
MCStarts == {<<m, m + a>> : m \in 1000 .. 1124, a \in MCAhead}
=============================================================================
