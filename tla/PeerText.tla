------------------------------- MODULE PeerText -------------------------------
(***************************************************************************)
(* The file list of a Peer, and the text in which peers and files are sent *)
(* from Server to Client.                                                  *)
(*                                                                         *)
(* A text is a sequence of symbols: the two separators, the digits, and    *)
(* letters that stand for themselves.  A number is one digit, of which     *)
(* there are as many as it takes.  A file is [name, size, hash]; names and *)
(* hashes are texts.                                                       *)
(***************************************************************************)
EXTENDS Naturals, SequencesExt

CONSTANTS Symbols,  \* characters
          Digits    \* a symbol for each number that is written

Separators == {"|", "\n"}
Texts == Seq(Symbols)

\* No symbol stands for two numbers; activity and the port of PeerLists are
\* numbers below 3.
ASSUME PeerTextAssumption ==
    /\ Separators \subseteq Symbols
    /\ Digits \in Texts /\ Len(Digits) >= 3
    /\ \A i, j \in DOMAIN Digits : Digits[i] = Digits[j] => i = j
    /\ \A i \in DOMAIN Digits : Digits[i] \notin Separators

Number(n) == <<Digits[n + 1]>>

\* std::stoi and its kind: they throw unless the text begins with a digit, and
\* what follows the number is ignored.
IsNumber(t) == t # <<>> /\ Contains(Digits, t[1])
NumberOf(t) == (CHOOSE i \in DOMAIN Digits : Digits[i] = t[1]) - 1

\* A loop of std::getline: the tokens that have ended, and what is read of the
\* next one.
Read(text, sep) ==
    LET read[i \in 0 .. Len(text)] ==
          IF i = 0 THEN [tokens |-> <<>>, token |-> <<>>]
          ELSE LET r == read[i - 1] IN
               IF text[i] = sep
                 THEN [tokens |-> Append(r.tokens, r.token), token |-> <<>>]
                 ELSE [tokens |-> r.tokens, token |-> Append(r.token, text[i])]
    IN  read[Len(text)]

\* At the end of the text an empty token is not one.
Split(text, sep) ==
    LET r == Read(text, sep) IN
    IF r.token = <<>> THEN r.tokens ELSE Append(r.tokens, r.token)

Joined(tokens) ==
    FlattenSeq([i \in DOMAIN tokens |-> IF i = 1 THEN tokens[i] ELSE <<"|">> \o tokens[i]])

\* The elements at some of the positions, in their order.
Picked(s, positions) ==
    LET kept[i \in 0 .. Len(s)] ==
          IF i = 0 THEN <<>>
          ELSE IF i \in positions THEN Append(kept[i - 1], s[i])
          ELSE kept[i - 1]
    IN  kept[Len(s)]

Lines(text) ==
    LET tokens == Split(text, "\n") IN
    Picked(tokens, {i \in DOMAIN tokens : tokens[i] # <<>>})

-----------------------------------------------------------------------------
(* The list of files *)

Named(files, name) == SelectInSeq(files, LAMBDA f : f.name = name)

addFile(files, f) ==
    LET i == Named(files, f.name) IN
    IF i # 0 THEN ReplaceAt(files, i, f) ELSE Append(files, f)

\* std::remove_if
removeFile(files, name) ==
    Picked(files, {i \in DOMAIN files : files[i].name # name})

\* A loop of addFile.
addFiles(files, new) ==
    LET added[i \in 0 .. Len(new)] ==
          IF i = 0 THEN files ELSE addFile(added[i - 1], new[i])
    IN  added[Len(new)]

-----------------------------------------------------------------------------
(* Peers: [id, ip, port, active, files] *)

FileTokens(f) == <<f.name, Number(f.size), f.hash>>

serialize(peer) ==
    Joined(<<peer.id, peer.ip, Number(peer.port), Number(IF peer.active THEN 1 ELSE 0),
             Number(Len(peer.files))>>
           \o FlattenSeq([i \in DOMAIN peer.files |-> FileTokens(peer.files[i])]))

\* How many files are read: as many as announced, and no half ones.
FileCount(tokens) ==
    LET fit == (Len(tokens) - 5) \div 3 IN
    IF NumberOf(tokens[5]) < fit THEN NumberOf(tokens[5]) ELSE fit

\* Does it return a peer?  Otherwise it throws.
Deserializes(data) ==
    LET tokens == Split(data, "|") IN
    /\ Len(tokens) >= 5
    /\ IsNumber(tokens[3]) /\ IsNumber(tokens[5])
    /\ \A i \in 1 .. FileCount(tokens) : IsNumber(tokens[3 * i + 4])

\* Mutant: the last of the files is left out.
deserializeFewer(data) ==
    LET tokens == Split(data, "|")
        File(i) == [name |-> tokens[3 * i + 3], size |-> NumberOf(tokens[3 * i + 4]),
                    hash |-> tokens[3 * i + 5]]
    IN  [id |-> tokens[1], ip |-> tokens[2], port |-> NumberOf(tokens[3]),
         active |-> tokens[4] = Number(1),
         files |-> addFiles(<<>>, [i \in 1 .. FileCount(tokens) - 1 |-> File(i)])]

deserialize(data) ==
    LET tokens == Split(data, "|")
        File(i) == [name |-> tokens[3 * i + 3], size |-> NumberOf(tokens[3 * i + 4]),
                    hash |-> tokens[3 * i + 5]]
    IN  [id |-> tokens[1], ip |-> tokens[2], port |-> NumberOf(tokens[3]),
         active |-> tokens[4] = Number(1),
         files |-> addFiles(<<>>, [i \in 1 .. FileCount(tokens) |-> File(i)])]

\* The peers of a peer list; the lines that throw are left out.
PeersOf(text) ==
    LET lines == Lines(text)
        good  == Picked(lines, {i \in DOMAIN lines : Deserializes(lines[i])})
    IN  [i \in DOMAIN good |-> deserialize(good[i])]

-----------------------------------------------------------------------------
(* The file list of a node *)

handleFileListRequest(files) ==
    FlattenSeq([i \in DOMAIN files |-> Joined(FileTokens(files[i])) \o <<"\n">>])

\* A name, a number, and the rest of the line; the number may throw.
IsFile(line) == LET tokens == Split(line, "|") IN Len(tokens) >= 3 /\ IsNumber(tokens[2])
FileIn(line) ==
    LET tokens == Split(line, "|") IN
    [name |-> tokens[1],
     size |-> NumberOf(tokens[2]),
     hash |-> SubSeq(line, Len(tokens[1]) + Len(tokens[2]) + 3, Len(line))]

\* Mutant: an entry that does not parse ends the list.
FilesOfStops(text) ==
    LET lines == Lines(text)
        good  == Picked(lines, {i \in DOMAIN lines : \A j \in 1 .. i : IsFile(lines[j])})
    IN  [i \in DOMAIN good |-> FileIn(good[i])]

\* requestFileList: what is not a file is left out.
FilesOf(text) ==
    LET lines == Lines(text)
        good  == Picked(lines, {i \in DOMAIN lines : IsFile(lines[i])})
    IN  [i \in DOMAIN good |-> FileIn(good[i])]
=============================================================================
