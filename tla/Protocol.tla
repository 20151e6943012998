------------------------------ MODULE Protocol ------------------------------
(***************************************************************************)
(* ProtocolMessage and NetworkProtocol (src/network/protocol.cpp): messages *)
(* that are made by the factories, signed by their users or not, written   *)
(* as JSON, changed on their way or not, and read again.                   *)
(***************************************************************************)
EXTENDS Naturals, Sequences, FiniteSets

CONSTANTS
    Senders,      \* node ids, which verify takes for public keys; texts
    Payloads,     \* what the factories write into a payload; texts
    Strays,       \* payloads that no factory writes; texts
    Times,        \* the timestamps in use, as decimal numerals; texts
    Nothing,      \* stands for no message yet, and for a text that is not JSON
    MaxMessages,  \* bound: texts on their way
    MaxSigned     \* bound: signatures

VARIABLES
    message,   \* the message at hand, as its maker has it
    wire,      \* JSON objects that were sent; they may arrive in any order and twice
    received,  \* the message read last, as a set: empty if reading threw
    signings   \* history: the messages as they were when somebody signed them

protocolVars == <<message, wire, received, signings>>

\* The numbers of the enumeration; a text is a sequence of pieces.
Types == 0..10
TypeNumber == [HANDSHAKE |-> 0, BLOCK_REQUEST |-> 1, TRANSACTION_BROADCAST |-> 3]
Digits == <<"0", "1", "2", "3", "4", "5", "6", "7", "8", "9">>
Numeral(type) == IF type < 10 THEN <<Digits[type + 1]>> ELSE <<"1", "0">>

\* A signature tells what was signed and by whom.  NoSignature is the empty string,
\* and stands for bytes that are no signature as well.
NoSignature == [text |-> <<>>, key |-> <<>>]

Message(type, sender, payload, timestamp) ==
    [type |-> type, sender |-> sender, payload |-> payload, timestamp |-> timestamp,
     signature |-> NoSignature]

Init ==
    /\ message = Nothing
    /\ wire = {}
    /\ received = {}
    /\ signings = {}

Make(type, sender) ==
    /\ \E payload \in Payloads, timestamp \in Times :
         message' = Message(TypeNumber[type], sender, payload, timestamp)
    /\ UNCHANGED <<wire, received, signings>>

\* The only factory that names a sender.
createHandshake(nodeId) == Make("HANDSHAKE", nodeId)

createBlockRequest == Make("BLOCK_REQUEST", <<>>)

createTransactionBroadcast == Make("TRANSACTION_BROADCAST", <<>>)

\* The payload is left out.
TextDefect(m) == (Numeral(m.type) \o m.sender) \o m.timestamp

\* What verify checks the signature against: the parts one behind the other, with
\* nothing between them.
Text(m) == (Numeral(m.type) \o m.sender) \o (m.payload \o m.timestamp)

\* No operation signs a message; whoever uses one has to, and to fill in the
\* sender.
Sign(nodeId) ==
    /\ message # Nothing
    /\ Cardinality(signings) < MaxSigned
    /\ LET m == [message EXCEPT !.sender = nodeId]
       IN  message' = [m EXCEPT !.signature = [text |-> Text(m), key |-> nodeId]]
    /\ signings' = signings \cup {message'}
    /\ UNCHANGED <<wire, received>>

\* Encryption::verify is declared only.
verify(m) == m.signature = [text |-> Text(m), key |-> m.sender]

\* The JSON objects that may be written.  Strings are escaped and read back as they
\* are, but a signature is raw bytes: what is no UTF-8 the writer keeps or replaces,
\* as its version has it.
serialize(m) == {m, [m EXCEPT !.signature = NoSignature]}

\* A text that is not JSON throws.  A member that is missing reads as zero or empty.
deserialize(json) ==
    LET Member(name, default) == IF name \in DOMAIN json THEN json[name] ELSE default
    IN  IF json = Nothing
        THEN {}
        ELSE {[type      |-> Member("type", 0),
               sender    |-> Member("sender", <<>>),
               payload   |-> Member("payload", <<>>),
               timestamp |-> Member("timestamp", <<"0">>),
               signature |-> Member("signature", NoSignature)]}

Send ==
    /\ message # Nothing
    /\ Cardinality(wire) < MaxMessages
    /\ \E json \in serialize(message) : wire' = wire \cup {json}
    /\ UNCHANGED <<message, received, signings>>

\* What may become of a text on its way: members are exchanged, or one is gone.
Changed(json) ==
    {[json EXCEPT !.type = type] : type \in Types}
      \cup {[json EXCEPT !.sender = sender] : sender \in Senders}
      \cup {[json EXCEPT !.payload = rest[1], !.timestamp = rest[2]] :
             rest \in (Payloads \cup Strays) \X Times}
      \cup {[name \in DOMAIN json \ {gone} |-> json[name]] : gone \in DOMAIN json}

Receive ==
    /\ \E json \in wire : \E text \in Changed(json) \cup {json, Nothing} :
         received' = deserialize(text)
    /\ UNCHANGED <<message, wire, signings>>

Next ==
    \/ \E nodeId \in Senders : createHandshake(nodeId) \/ Sign(nodeId)
    \/ createBlockRequest
    \/ createTransactionBroadcast
    \/ Send
    \/ Receive

-----------------------------------------------------------------------------
\* The last character of what the factories write.
EndsLine(payload) == payload # <<>> /\ payload[Len(payload)] = "\n"

\* A message that is read and verifies was signed by its sender with the same type
\* and with the same characters in its payload and timestamp, whatever became of
\* the text on its way.  Where the payload ends and the timestamp begins is only
\* certain if the payload ends like what the factories write.
VerifiedAsSigned ==
    \A m \in received : verify(m) =>
        \E s \in signings :
            /\ m.sender = s.sender /\ m.type = s.type
            /\ m.payload \o m.timestamp = s.payload \o s.timestamp
            /\ EndsLine(m.payload) => m.payload = s.payload /\ m.timestamp = s.timestamp
=============================================================================
