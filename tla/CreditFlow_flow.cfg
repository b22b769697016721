\* Two sends against three receives, so sends park for credits; credit
\* messages of at most two credits, so PostConfigure sends a full and a
\* partial chunk; one credit message per direction, so the receiver's
\* credit updates wait for the sender's AckHandlerThread to re-post.
CONSTANTS
  NumSend = 2
  NumRecv = 3
  AuxDepth = 1
  MaxCreditsPerBuffer = 2
  AcceptDirections <- MCAcceptDirections
  ConnectorData <- MCConnectorData
SPECIFICATION Spec
INVARIANTS TypeOK CreditsMatchPostedReceives AcceptFollowsSpec
PROPERTIES CreditUpdateCompletes ParkedSendsGo CloseCompletes ConnectReturns
  HalfOpenEnds
