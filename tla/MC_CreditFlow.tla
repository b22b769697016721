---------------------------- MODULE MC_CreditFlow ----------------------------
(* Model-checking instance of CreditFlow; the constants are set in the cfg. *)
EXTENDS CreditFlow, TLC

\* The listening application accepts as a Receive session, or by mistake
\* as a Send session, whose check of the connector's data fails.
MCAcceptDirections == {Send, Receive}

\* The connector's ConnectionData: its default, that of a newer library
\* still compatible with this one, and ones the check must refuse (a newer
\* incompatible version, the id in little-endian order, a truncated
\* record, no direction).
MCConnectorData ==
  LET default == CreateDefaultConnectionData(Send)
  IN {default,
      <<82, 68, 77, 65, 2, 1, Send>>,
      <<82, 68, 77, 65, 2, 2, Send>>,
      <<65, 77, 68, 82, 1, 1, Send>>,
      SubSeq(default, 1, 6),
      CreateDefaultConnectionData(Unknown)}
=============================================================================
