SPECIFICATION RenderingSpec
CONSTANTS
  Documents <- MCDocuments
  Payloads <- MCPayloads
INVARIANTS FormatsAgree AcceptedIsRendered
CHECK_DEADLOCK FALSE
