------------------------------- MODULE MCCodec -------------------------------
(* Three-bit bytes, words of two bytes, and the CRC of x^6 + x + 1. *)
EXTENDS Codec

Text == {<<>>, <<0>>, <<5, 2>>}
Number == {0, 9, Modulus - 1, Modulus, Modulus + 3}

\* One text of as many bytes as a word can count, and one that is longer.
Long == {[i \in 1 .. Modulus |-> 0], [i \in 1 .. Modulus + 2 |-> i % Base]}

FileEntries == {<<n, s, h, t>> : n \in Text, s \in {9, Modulus}, h \in {<<>>, <<7>>}, t \in {1}}

MCMessages ==
    [PEER_LIST_REQUEST  |-> {<<>>},
     PEER_LIST_RESPONSE |-> BoundedSeq(Text, 2) \cup {<<s>> : s \in Long},
     FILE_LIST_REQUEST  |-> {<<s>> : s \in Text \cup Long},
     FILE_LIST_RESPONSE |-> BoundedSeq(FileEntries, 1) \cup
                            {<<<<<<1>>, 2, <<3>>, 4>>, <<<<>>, Modulus + 1, <<5>>, 6>>>>},
     FILE_REQUEST       |-> {<<s, a, b>> : s \in Text, a \in Number, b \in {0, 10}} \cup
                            {<<s, 9, 10>> : s \in Long},
     FILE_CHUNK         |-> {<<a, s>> : a \in Number, s \in Text} \cup
                            {<<9, s>> : s \in Long},
     ERROR_MESSAGE      |-> {<<c, s>> : c \in {1, 6}, s \in Text}]

\* All short payloads of small bytes, and the creators' payloads cut and extended.
MCForeign ==
    BoundedSeq({0, 1}, 10) \cup BoundedSeq({0, 1, 2}, 6) \cup
    UNION {LET p == Payload(k, m) IN
           {SubSeq(p, 1, n) : n \in 0 .. Len(p)} \cup {Append(p, b) : b \in {0, 7}} :
           <<k, m>> \in UNION {{k} \X MCMessages[k] : k \in Parsed}}

MCAlterations == [1 .. WordBytes -> Bytes]
=============================================================================
