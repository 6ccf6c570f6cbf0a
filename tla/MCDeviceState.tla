--------------------------- MODULE MCDeviceState ---------------------------
\* Two devices in a hint, one of which passes its state when it reports.  The
\* driver of the other tells "UNKNOWN" as well, as those without a state do.
EXTENDS DeviceState, TLC

HintDevices == <<"phone", "custom">>

ReportedStates ==
  [d \in Devices |-> {"NOT_INUSE", "INUSE"}
                       \cup IF d = "phone" THEN {"UNKNOWN"} ELSE {"RINGING"}]
=============================================================================
