SPECIFICATION Spec
CONSTANTS
  Ends = {"caller", "callee"}
  Peer <- Other
  First = 253
  MaxRetries = 3
  MaxFrames <- TwoAndOne
INVARIANT CancelledReceived
PROPERTIES LinkSpec AnswerTrue Handled
