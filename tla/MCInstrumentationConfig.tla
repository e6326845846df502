---------------------- MODULE MCInstrumentationConfig ----------------------
(* Small instances of InstrumentationConfig for TLC. *)
EXTENDS InstrumentationConfig, TLC

CONSTANTS call1, call2, call3, on, off

\* Three calls: two of SetRecording and one of SetMaxSpans.
MCCallField == call1 :> "recording" @@ call2 :> "recording" @@ call3 :> "maxSpans"
MCCallValue == call1 :> on @@ call2 :> off @@ call3 :> off
=============================================================================
