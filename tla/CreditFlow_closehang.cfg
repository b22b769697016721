\* The flow bounds, under the specification in which the sending
\* application may keep an aborted session open: a CloseSession of the
\* receiver then waits for the credit update a release is blocked in.
CONSTANTS
  NumSend = 2
  NumRecv = 3
  AuxDepth = 1
  MaxCreditsPerBuffer = 2
  AcceptDirections <- MCAcceptDirections
  ConnectorData <- MCConnectorData
SPECIFICATION SpecAbortedStaysOpen
PROPERTIES CloseCompletes
