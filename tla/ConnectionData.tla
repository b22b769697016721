--------------------------- MODULE ConnectionData ----------------------------
(***************************************************************************)
(* The private data each side sends with its CM handshake message         *)
(* (src/core/common/RdmaConnectionData.{h,cpp}): a packed                  *)
(* easyrdma_ConnectionData, as the byte string it is on the wire, and the  *)
(* check a session makes of the one its peer sent.                         *)
(***************************************************************************)
EXTENDS Naturals, Sequences

\* Direction's values (RdmaSession.h), the byte a ConnectionData carries.
Send == 0
Receive == 1
Unknown == 255

\* The opposite direction, as ValidateConnectionData computes it.
OtherDirection(myDirection) == IF myDirection = Receive THEN Send ELSE Receive

kConnectionDataProtocol == 1380207937   \* 0x52444D41, 'RDMA'

kDefaultConnectionData ==
  [protocolId |-> kConnectionDataProtocol, protocolVersion |-> 1,
   oldestCompatibleVersion |-> 1, direction |-> Unknown]

\* sizeof(easyrdma_ConnectionData) under #pragma pack(1).
SizeofConnectionData == 7

\* boost::endian::big_uint32_t: the most significant byte first.
BigEndian32(n) ==
  <<(n \div 16777216) % 256, (n \div 65536) % 256, (n \div 256) % 256, n % 256>>

FromBigEndian32(b) == ((b[1] * 256 + b[2]) * 256 + b[3]) * 256 + b[4]

\* CreateDefaultConnectionData: the default record with the session's
\* direction, copied byte for byte from protocolId on.
CreateDefaultConnectionData(direction) ==
  BigEndian32(kDefaultConnectionData.protocolId)
  \o <<kDefaultConnectionData.protocolVersion,
       kDefaultConnectionData.oldestCompatibleVersion, direction>>

\* Mutant of ValidateConnectionData: a peer whose oldest compatible version
\* equals ours is refused.
ValidateConnectionDataRefusesEqual(buffer, myDirection) ==
  CASE Len(buffer) < SizeofConnectionData -> "IncompatibleProtocol"
    [] FromBigEndian32(SubSeq(buffer, 1, 4))
         # kDefaultConnectionData.protocolId -> "IncompatibleProtocol"
    [] buffer[6] >= kDefaultConnectionData.oldestCompatibleVersion
                                               -> "IncompatibleVersion"
    [] buffer[7] # OtherDirection(myDirection) -> "InvalidDirection"
    [] OTHER                                   -> "OK"

\* ValidateConnectionData, with the error it throws, or "OK".  The buffer
\* is read in place as an easyrdma_ConnectionData; trailing bytes are not
\* looked at.  (myDirection is never Unknown: ASSERT_ALWAYS.)
ValidateConnectionData(buffer, myDirection) ==
  CASE Len(buffer) < SizeofConnectionData -> "IncompatibleProtocol"
    [] FromBigEndian32(SubSeq(buffer, 1, 4))
         # kDefaultConnectionData.protocolId -> "IncompatibleProtocol"
    [] buffer[6] > kDefaultConnectionData.oldestCompatibleVersion
                                               -> "IncompatibleVersion"
    [] buffer[7] # OtherDirection(myDirection) -> "InvalidDirection"
    [] OTHER                                   -> "OK"

-----------------------------------------------------------------------------
(* The rule spec.md states for a received ConnectionData, as a reference. *)

\* This library's protocolVersion.
LocalProtocolVersion == 1

\* "Receivers must accept any ConnectionData with matching protocolId whose
\* oldestCompatibleVersion <= local.protocolVersion, and whose direction
\* equals the opposite of the local session's direction.  Extra trailing
\* bytes are ignored."  The id is the four ASCII bytes "RDMA".
SpecAccepts(buffer, myDirection) ==
  /\ Len(buffer) >= 7
  /\ SubSeq(buffer, 1, 4) = <<82, 68, 77, 65>>
  /\ buffer[6] <= LocalProtocolVersion
  /\ buffer[7] = IF myDirection = Send THEN Receive ELSE Send
=============================================================================
