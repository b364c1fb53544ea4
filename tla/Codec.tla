-------------------------------- MODULE Codec --------------------------------
(***************************************************************************)
(* The message codec of Protocol.cpp: fields, the seven message creators,  *)
(* the four payload parsers, the CRC and the frame around a payload, and a *)
(* link on which one thing may happen to a frame between createMessage and *)
(* parseMessage.                                                           *)
(*                                                                         *)
(* A byte is a number below Base, a uint32_t is WordBytes bytes, and the   *)
(* CRC is as wide as a word (the code: 256, 4, and the reflected           *)
(* polynomial 16#EDB88320).  A parser is a chain of readers: a reader has  *)
(* `ok', the position it is at and what it has read so far.                *)
(***************************************************************************)
EXTENDS Naturals, SequencesExt, Bitwise

CONSTANTS Base, WordBytes, Poly,
          Messages,   \* [Kinds -> messages that are created]
          Foreign,    \* payloads that another program puts in a frame
          Alterations \* what may be written over adjacent bytes of a body

VARIABLES
    phase,    \* "idle", "on the way" or "received"
    sent,     \* [kind, message]; the kind of another program's frame is "foreign"
    payload,  \* what was put in the frame
    frame,    \* what is on the way
    damage,   \* what happened to it
    received  \* what parseMessage and the parser said: [accepted, parsed]

vars == <<phase, sent, payload, frame, damage, received>>

Kinds == {"PEER_LIST_REQUEST", "PEER_LIST_RESPONSE", "FILE_LIST_REQUEST",
          "FILE_LIST_RESPONSE", "FILE_REQUEST", "FILE_CHUNK", "ERROR_MESSAGE"}
Parsed == {"PEER_LIST_RESPONSE", "FILE_LIST_RESPONSE", "FILE_REQUEST", "FILE_CHUNK"}

Bytes == 0 .. Base - 1
Modulus == Base ^ WordBytes
Steps(n) == [i \in 1 .. n |-> i]

-----------------------------------------------------------------------------
(* Fields *)

\* Mutant: the bytes of the host's order.
serializeUint32Host(v) == [i \in 1 .. WordBytes |-> (v \div Base ^ (i - 1)) % Base]

\* In network byte order; what does not fit in a word is cut off.
serializeUint32(v) == [i \in 1 .. WordBytes |-> (v \div Base ^ (WordBytes - i)) % Base]

serializeString(str) == serializeUint32(Len(str)) \o str

Start == [ok |-> TRUE, pos |-> 0, out |-> <<>>]
Failed(r) == [r EXCEPT !.ok = FALSE]

deserializeUint32(p, r) ==
    IF ~r.ok \/ r.pos + WordBytes > Len(p)
      THEN Failed(r)
      ELSE [ok  |-> TRUE,
            pos |-> r.pos + WordBytes,
            out |-> Append(r.out, FoldLeft(LAMBDA v, b : Base * v + b, 0,
                                           SubSeq(p, r.pos + 1, r.pos + WordBytes)))]

deserializeString(p, r) ==
    LET n == deserializeUint32(p, r) IN
    IF ~n.ok \/ n.pos + Last(n.out) > Len(p)
      THEN Failed(r)
      ELSE [ok  |-> TRUE,
            pos |-> n.pos + Last(n.out),
            out |-> Append(r.out, SubSeq(p, n.pos + 1, n.pos + Last(n.out)))]

-----------------------------------------------------------------------------
(* The payloads that the creators hand to createMessage *)

createPeerListResponse(peers) ==
    serializeUint32(Len(peers)) \o FlattenSeq([i \in DOMAIN peers |-> serializeString(peers[i])])

\* A file is <<filename, size, hash, last_modified>>; its path is not sent.
createFileListResponse(files) ==
    serializeUint32(Len(files)) \o
    FlattenSeq([i \in DOMAIN files |->
        serializeString(files[i][1]) \o serializeUint32(files[i][2]) \o
        serializeString(files[i][3]) \o serializeUint32(files[i][4])])

createFileRequest(m) ==
    serializeString(m[1]) \o serializeUint32(m[2]) \o serializeUint32(m[3])

\* A chunk is <<offset, data>>.
createFileChunk(m) == serializeUint32(m[1]) \o serializeUint32(Len(m[2])) \o m[2]

createErrorMessage(m) == <<m[1] % Base>> \o serializeString(m[2])

Payload(kind, m) ==
    CASE kind = "PEER_LIST_REQUEST"  -> <<>>
      [] kind = "PEER_LIST_RESPONSE" -> createPeerListResponse(m)
      [] kind = "FILE_LIST_REQUEST"  -> serializeString(m[1])
      [] kind = "FILE_LIST_RESPONSE" -> createFileListResponse(m)
      [] kind = "FILE_REQUEST"       -> createFileRequest(m)
      [] kind = "FILE_CHUNK"         -> createFileChunk(m)
      [] kind = "ERROR_MESSAGE"      -> createErrorMessage(m)

-----------------------------------------------------------------------------
(* The parsers; bytes after what they read are ignored *)

\* Mutant of ReadStrings: the items that are there will do.
RECURSIVE ReadStringsLenient(_, _, _)
ReadStringsLenient(p, n, r) ==
    IF n = 0 \/ ~deserializeString(p, r).ok
      THEN r
      ELSE ReadStringsLenient(p, n - 1, deserializeString(p, r))

\* n strings, until one cannot be read.
RECURSIVE ReadStrings(_, _, _)
ReadStrings(p, n, r) ==
    IF n = 0 \/ ~r.ok THEN r ELSE ReadStrings(p, n - 1, deserializeString(p, r))

ReadFile(p, r) ==
    LET f == deserializeUint32(p, deserializeString(p,
               deserializeUint32(p, deserializeString(p, [r EXCEPT !.out = <<>>]))))
    IN  [f EXCEPT !.out = Append(r.out, f.out)]

\* n files, until one cannot be read.
RECURSIVE ReadFiles(_, _, _)
ReadFiles(p, n, r) ==
    IF n = 0 \/ ~r.ok THEN r ELSE ReadFiles(p, n - 1, ReadFile(p, r))

parsePeerListResponse(p) ==
    LET n == deserializeUint32(p, Start) IN
    IF n.ok THEN ReadStrings(p, Last(n.out), [n EXCEPT !.out = <<>>]) ELSE n

parseFileListResponse(p) ==
    LET n == deserializeUint32(p, Start) IN
    IF n.ok THEN ReadFiles(p, Last(n.out), [n EXCEPT !.out = <<>>]) ELSE n

parseFileRequest(p) ==
    deserializeUint32(p, deserializeUint32(p, deserializeString(p, Start)))

parseFileChunk(p) == deserializeString(p, deserializeUint32(p, Start))

Parse(kind, p) ==
    CASE kind = "PEER_LIST_RESPONSE" -> parsePeerListResponse(p)
      [] kind = "FILE_LIST_RESPONSE" -> parseFileListResponse(p)
      [] kind = "FILE_REQUEST"       -> parseFileRequest(p)
      [] kind = "FILE_CHUNK"         -> parseFileChunk(p)

-----------------------------------------------------------------------------
(* The frame *)

\* Exclusive or of words, as a table.
XorOf == [w \in (0 .. Modulus - 1) \X (0 .. Modulus - 1) |-> w[1] ^^ w[2]]

\* Entry b is b shifted out bit by bit: a byte has as many bits as Base - 1.
crc32_table ==
    LET Shift(c) == IF c % 2 = 1 THEN XorOf[Poly, c \div 2] ELSE c \div 2
        Bits     == CHOOSE n \in 1 .. Base : 2 ^ n = Base
    IN  [b \in Bytes |-> FoldLeft(LAMBDA c, i : Shift(c), b, Steps(Bits))]

\* Mutant: the bytes are added up.
calculateSum(data) == FoldLeft(LAMBDA c, b : (c + b) % Modulus, 0, data)

\* What one byte of data makes of the register.
CrcStep ==
    [w \in (0 .. Modulus - 1) \X Bytes |->
        XorOf[crc32_table[XorOf[w[1], w[2]] % Base], w[1] \div Base]]

\* crc[c, i, j] is the register after bytes i to j, from c; the loop is cut in
\* halves to keep the recursion flat.
calculateCRC32(data) ==
    LET crc[c \in 0 .. Modulus - 1, i \in 1 .. Len(data), j \in 1 .. Len(data)] ==
          IF i = j
            THEN CrcStep[c, data[i]]
            ELSE crc[crc[c, i, (i + j) \div 2], (i + j) \div 2 + 1, j]
    IN  IF data = <<>> THEN 0 ELSE XorOf[crc[Modulus - 1, 1, Len(data)], Modulus - 1]

\* Mutant: a size field of any width.
createMessageWide(type, p) ==
    [whole |-> TRUE, valid |-> TRUE, type |-> type, size |-> Len(p),
     checksum |-> calculateCRC32(p), body |-> p]

\* `whole' and `valid' stand for the header's length, magic number and version.
createMessage(type, p) ==
    [whole |-> TRUE, valid |-> TRUE, type |-> type, size |-> Len(p) % Modulus,
     checksum |-> calculateCRC32(p), body |-> p]

\* Is the frame accepted?  Its type and body are then the message.
parseMessage(f) ==
    /\ f.whole /\ f.valid
    /\ Len(f.body) = f.size
    /\ f.size > 0 => calculateCRC32(f.body) = f.checksum

-----------------------------------------------------------------------------
(* A frame on its way *)

Init ==
    /\ phase = "idle"
    /\ sent = [kind |-> "foreign", message |-> <<>>]
    /\ payload = <<>>
    /\ frame = createMessage("PEER_LIST_REQUEST", <<>>)
    /\ damage = "none"
    /\ received = [accepted |-> FALSE, parsed |-> Failed(Start)]

Create(kind, m) ==
    /\ phase = "idle"
    /\ phase' = "on the way"
    /\ sent' = [kind |-> kind, message |-> m]
    /\ payload' = Payload(kind, m)
    /\ frame' = createMessage(kind, payload')
    /\ UNCHANGED <<damage, received>>

\* A frame whose payload no creator made.
Arrive(kind, p) ==
    /\ phase = "idle"
    /\ phase' = "on the way"
    /\ payload' = p
    /\ frame' = createMessage(kind, p)
    /\ UNCHANGED <<sent, damage, received>>

OnTheWay == phase = "on the way" /\ sent.kind # "foreign" /\ damage = "none"

Damage(what, f) ==
    /\ f # frame
    /\ damage' = what
    /\ frame' = f
    /\ UNCHANGED <<phase, sent, payload, received>>

DamageHeader == OnTheWay /\ Damage("header", [frame EXCEPT !.valid = FALSE])

DamageType == OnTheWay /\ \E k \in Kinds : Damage("type", [frame EXCEPT !.type = k])

DamageSize ==
    OnTheWay /\ \E n \in 0 .. Modulus - 1 : Damage("size", [frame EXCEPT !.size = n])

DamageChecksum ==
    OnTheWay /\ \E n \in 0 .. Modulus - 1 : Damage("checksum", [frame EXCEPT !.checksum = n])

\* As many adjacent bytes as a word has.
DamageBody ==
    /\ OnTheWay
    /\ \E i \in 0 .. Len(frame.body) - WordBytes : \E w \in Alterations :
         Damage("body", [frame EXCEPT
           !.body = SubSeq(@, 1, i) \o w \o SubSeq(@, i + WordBytes + 1, Len(@))])

Cut ==
    /\ OnTheWay
    /\ \/ \E n \in 0 .. Len(frame.body) : Damage("cut", [frame EXCEPT !.body = SubSeq(@, 1, n)])
       \/ Damage("cut", [frame EXCEPT !.whole = FALSE, !.body = <<>>])

Extend == OnTheWay /\ \E b \in Bytes : Damage("longer", [frame EXCEPT !.body = Append(@, b)])

Receive ==
    /\ phase = "on the way" /\ phase' = "received"
    /\ LET accepted == parseMessage(frame) IN
       received' = [accepted |-> accepted,
                    parsed   |-> IF accepted /\ frame.type \in Parsed
                                   THEN Parse(frame.type, frame.body)
                                   ELSE Failed(Start)]
    /\ UNCHANGED <<sent, payload, frame, damage>>

Next ==
    \/ /\ phase = "idle"
       /\ \/ \E kind \in Kinds : \E m \in Messages[kind] : Create(kind, m)
          \/ \E kind \in Parsed : \E p \in Foreign : Arrive(kind, p)
    \/ DamageHeader \/ DamageType \/ DamageSize \/ DamageChecksum \/ DamageBody
    \/ Cut \/ Extend
    \/ Receive

Spec == Init /\ [][Next]_vars

-----------------------------------------------------------------------------
(* Properties *)

Done == phase = "received"

\* What is written is bytes, and what is read are words and strings of bytes.
TypeOK ==
    /\ \A i \in DOMAIN payload : payload[i] \in Bytes
    /\ frame.type \in Kinds
    /\ {frame.size, frame.checksum} \subseteq 0 .. Modulus - 1
    /\ received.parsed.pos \in 0 .. Len(frame.body)

\* The message with its numbers cut to words, as FileInfo::size is.
Wrapped(kind, m) ==
    LET W(v) == v % Modulus IN
    CASE kind = "PEER_LIST_RESPONSE" -> m
      [] kind = "FILE_LIST_RESPONSE" ->
           [i \in DOMAIN m |-> <<m[i][1], W(m[i][2]), m[i][3], W(m[i][4])>>]
      [] kind = "FILE_REQUEST"       -> <<m[1], W(m[2]), W(m[3])>>
      [] kind = "FILE_CHUNK"         -> <<W(m[1]), m[2]>>

\* A frame that arrives as it was sent is understood as it was meant, up to the
\* width of numbers; a payload too long for its size field is refused, not misread.
RoundTrip ==
    Done /\ sent.kind # "foreign" /\ damage = "none" =>
      IF Len(payload) >= Modulus
        THEN ~received.accepted
        ELSE /\ received.accepted
             /\ sent.kind \in Parsed =>
                  /\ received.parsed.ok
                  /\ received.parsed.out = Wrapped(sent.kind, sent.message)

\* What the creators write, as a table.
Written == [kind \in Parsed |-> [m \in Messages[kind] |-> Payload(kind, m)]]

\* A parser succeeds on a payload with m exactly if the payload begins with what
\* a creator writes for m: it neither reads past the end nor takes half a message.
ParsesExactly ==
    Done /\ sent.kind = "foreign" /\ received.accepted =>
      /\ received.parsed.ok => IsPrefix(Payload(frame.type, received.parsed.out), payload)
      /\ \A m \in Messages[frame.type] :
           IsPrefix(Written[frame.type][m], payload) =>
             received.parsed.ok /\ received.parsed.out = Wrapped(frame.type, m)

\* A damaged frame that is accepted still has the payload that was sent, and
\* what the damage changed is the type, or the checksum that an empty payload
\* is not compared with.  (Of a payload longer than the size field can say only
\* the CRC speaks: it may be cut to the length that the field holds.)
DamageNoticed ==
    Done /\ damage # "none" /\ Len(payload) < Modulus /\ received.accepted =>
      /\ frame.body = payload
      /\ damage = "type" \/ (damage = "checksum" /\ payload = <<>>)
=============================================================================
