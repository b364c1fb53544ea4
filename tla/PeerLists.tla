------------------------------ MODULE PeerLists ------------------------------
(***************************************************************************)
(* The file lists of the peers in a PeerManager: updatePeerFileList, which *)
(* takes the table's mutex only for reading, so that several callers       *)
(* rewrite one list at a time and every removeFile and addFile is a step   *)
(* of its own; addPeer and removePeer, which need the mutex for            *)
(* themselves; and the answers to PEER_LIST_REQUEST and FILE_LIST_REQUEST, *)
(* with what the node that asked makes of them.                            *)
(*                                                                         *)
(* The answer takes the objects of the table and writes them one after the *)
(* other without its mutex: an object may have left the table by then.     *)
(***************************************************************************)
EXTENDS PeerText

CONSTANTS Ids,        \* peer ids, texts
          ActiveIds,  \* those whose is_active is set
          Gens,       \* Peer objects that were made for one id
          Updaters,   \* threads that call updatePeerFileList
          FileLists,  \* lists of files that callers have
          MaxUpdates, MaxAdds  \* bounds on the calls

\* What callers have in their lists, and the names of it.
Entries == UNION {Range(list) : list \in FileLists}
Names(list) == {f.name : f \in Range(list)}

\* 0 stands for no object.  Ids have no separators in them; there are digits
\* for the sizes and for the length of a list without a name twice.
ASSUME PeerListsAssumption ==
    /\ 0 \notin Gens
    /\ Ids \subseteq Texts /\ <<"ip">> \in Texts
    /\ \A id \in Ids : \A k \in DOMAIN id : id[k] \notin Separators
    /\ FileLists \subseteq Seq(Entries)
    /\ Entries \subseteq [name : Texts, size : 0 .. Len(Digits) - 1, hash : Texts]
    /\ IsFiniteSet(UNION {Names(list) : list \in FileLists})
    /\ Cardinality(UNION {Names(list) : list \in FileLists}) < Len(Digits)
    /\ MaxUpdates \in Nat /\ MaxAdds \in Nat

VARIABLES
    table,    \* objects in the map `peers'
    files,    \* [Objs -> shared_files]
    upd,      \* [Updaters -> [obj, remove, add]]: what a call has still to do
    group,    \* [Objs -> sequence: lists of the last calls that overlapped]
    updates, adds,   \* calls so far
    pending,  \* objects of the answer that are not written yet
    served,   \* the peers, or files, as they were when they were written
    stage,    \* "idle", "writing", "peers" or "files": what was received
    got       \* what the other node understood

tableVars == <<table, files, upd, group, updates, adds>>
answerVars == <<pending, served, stage, got>>
vars == <<tableVars, answerVars>>

\* Objects, and a value for no object.
Objs == Ids \X Gens
NoObj == <<<<>>, 0>>

Idle == [obj |-> NoObj, remove |-> <<>>, add |-> <<>>]
Updating(o) == {u \in Updaters : upd[u].obj = o}
NoReaders == \A u \in Updaters : upd[u] = Idle

Init ==
    /\ table = {}
    /\ files = [o \in Objs |-> <<>>]
    /\ upd = [u \in Updaters |-> Idle]
    /\ group = [o \in Objs |-> <<>>]
    /\ updates = 0 /\ adds = 0
    /\ pending = <<>> /\ served = <<>> /\ stage = "idle" /\ got = <<>>

-----------------------------------------------------------------------------
(* The table *)

\* Mutant: the peer under the same id stays.
AddPeerBeside(o, list) ==
    /\ NoReaders
    /\ adds < MaxAdds
    /\ o \notin table /\ ~ Contains(pending, o)
    /\ table' = table \cup {o}
    /\ files' = [files EXCEPT ![o] = addFiles(<<>>, list)]
    /\ group' = [group EXCEPT ![o] = <<list>>]
    /\ adds' = adds + 1
    /\ UNCHANGED <<upd, updates, answerVars>>

\* A new peer, with the list it came with, replaces the one under its id.
AddPeer(o, list) ==
    /\ NoReaders
    /\ adds < MaxAdds
    /\ o \notin table /\ ~ Contains(pending, o)
    /\ table' = {p \in table : p[1] # o[1]} \cup {o}
    /\ files' = [files EXCEPT ![o] = addFiles(<<>>, list)]
    /\ group' = [group EXCEPT ![o] = <<list>>]
    /\ adds' = adds + 1
    /\ UNCHANGED <<upd, updates, answerVars>>

\* The object lives on while an answer holds it.
RemovePeer(o) ==
    /\ NoReaders
    /\ o \in table
    /\ table' = table \ {o}
    /\ IF Contains(pending, o)
         THEN UNCHANGED <<files, group>>
         ELSE /\ files' = [files EXCEPT ![o] = <<>>]
              /\ group' = [group EXCEPT ![o] = <<>>]
    /\ UNCHANGED <<upd, updates, adds, answerVars>>

\* updatePeerFileList finds the peer and copies its list.
UpdateStarts(u, o, list) ==
    /\ upd[u] = Idle
    /\ updates < MaxUpdates
    /\ o \in table
    /\ upd' = [upd EXCEPT ![u] = [obj    |-> o,
                                  remove |-> [k \in DOMAIN files[o] |-> files[o][k].name],
                                  add    |-> list]]
    /\ group' = [group EXCEPT ![o] = Append(IF Updating(o) = {} THEN <<>> ELSE @, list)]
    /\ updates' = updates + 1
    /\ UNCHANGED <<table, files, adds, answerVars>>

RemoveNext(u) ==
    /\ upd[u].remove # <<>>
    /\ files' = [files EXCEPT ![upd[u].obj] = removeFile(@, Head(upd[u].remove))]
    /\ upd' = [upd EXCEPT ![u].remove = Tail(@)]
    /\ UNCHANGED <<table, group, updates, adds, answerVars>>

\* Mutant: the files are added in the order the lock is had.
AddNextEarly(u) ==
    /\ upd[u].add # <<>>
    /\ files' = [files EXCEPT ![upd[u].obj] = addFile(@, Head(upd[u].add))]
    /\ upd' = [upd EXCEPT ![u].add = Tail(@)]
    /\ UNCHANGED <<table, group, updates, adds, answerVars>>

AddNext(u) ==
    /\ upd[u].remove = <<>> /\ upd[u].add # <<>>
    /\ files' = [files EXCEPT ![upd[u].obj] = addFile(@, Head(upd[u].add))]
    /\ upd' = [upd EXCEPT ![u].add = Tail(@)]
    /\ UNCHANGED <<table, group, updates, adds, answerVars>>

\* The unlock.  (updateLastSeen, before it, is in UpdatePeerFileList of
\* PeerManager, which has last_seen among its variables.)
UpdateEnds(u) ==
    /\ upd[u] # Idle /\ upd[u].remove = <<>> /\ upd[u].add = <<>>
    /\ upd' = [upd EXCEPT ![u] = Idle]
    /\ UNCHANGED <<table, files, group, updates, adds, answerVars>>

-----------------------------------------------------------------------------
(* The answers *)

\* handlePeerListRequest; the map has no order.
AnswerStarts ==
    /\ stage = "idle"
    /\ \E order \in SetToSeqs(table) : pending' = order
    /\ stage' = "writing"
    /\ UNCHANGED <<tableVars, served, got>>

WritePeer ==
    /\ stage = "writing" /\ pending # <<>>
    /\ LET o    == Head(pending)
           peer == [id |-> o[1], ip |-> <<"ip">>, port |-> 2,
                    active |-> o[1] \in ActiveIds, files |-> files[o]]
       IN  served' = Append(served, peer)
    /\ pending' = Tail(pending)
    /\ UNCHANGED <<tableVars, stage, got>>

\* requestPeerList and the loop of connectToBootstrapNodes.
ReceivePeers ==
    /\ stage = "writing" /\ pending = <<>>
    /\ got' = PeersOf(FlattenSeq([k \in DOMAIN served |-> serialize(served[k]) \o <<"\n">>]))
    /\ stage' = "peers"
    /\ UNCHANGED <<tableVars, pending, served>>

\* handleFileListRequest and requestFileList, of a list of the FileManager.
ReceiveFiles(list) ==
    /\ stage = "idle"
    /\ served' = list
    /\ got' = FilesOf(handleFileListRequest(list))
    /\ stage' = "files"
    /\ UNCHANGED <<tableVars, pending>>

\* A bound: behaviours end with one answer.  Once it is written nothing that
\* happens to the table can change what is made of it.
Open == stage = "idle" \/ pending # <<>>

Next ==
    \/ /\ Open
       /\ \/ \E o \in Objs, list \in FileLists : AddPeer(o, list)
          \/ \E o \in Objs : RemovePeer(o)
          \/ \E u \in Updaters :
               \/ \E o \in Objs, list \in FileLists : UpdateStarts(u, o, list)
               \/ RemoveNext(u) \/ AddNext(u) \/ UpdateEnds(u)
    \/ AnswerStarts \/ WritePeer \/ ReceivePeers
    \/ \E list \in FileLists \cup {<<>>} : ReceiveFiles(list)

Spec == Init /\ [][Next]_vars

-----------------------------------------------------------------------------
(* Properties *)

\* One object per id, and calls work only on objects of the table.
TypeOK ==
    /\ table \subseteq Objs
    /\ \A o, p \in table : o[1] = p[1] => o = p
    /\ files \in [Objs -> Seq(Entries)] /\ group \in [Objs -> Seq(FileLists)]
    /\ upd \in [Updaters -> [obj    : table \cup {NoObj},
                             remove : Seq({f.name : f \in Entries}),
                             add    : Seq(Entries)]]
    /\ updates \in 0 .. MaxUpdates /\ adds \in 0 .. MaxAdds
    /\ stage \in {"idle", "writing", "peers", "files"}

\* No list ever names a file twice.  When the calls that overlapped on a list
\* are over it has the names that all of them brought and nothing that none
\* brought; a call that had the list for itself replaced it.
UpdatesMerge ==
    \A o \in Objs : LET calls == Range(group[o]) IN
      /\ \A i, j \in DOMAIN files[o] : files[o][i].name = files[o][j].name => i = j
      /\ Updating(o) = {} =>
           /\ Range(files[o]) \subseteq UNION {Range(l) : l \in calls}
           /\ \A n \in UNION {Names(l) : l \in calls} :
                (\A l \in calls : n \in Names(l)) => n \in Names(files[o])
           /\ Len(group[o]) = 1 => files[o] = addFiles(<<>>, group[o][1])

IsPlain(f) == \A t \in {f.name, f.hash} : t # <<>> /\ \A k \in DOMAIN t : t[k] \notin Separators
PlainPeer(p) == \A f \in Range(p.files) : IsPlain(f)

\* What a node learns from a peer list.  A peer whose files have names without
\* separators arrives as it was written, whatever the other peers' files are
\* called, and when all are like this nothing else arrives.
PeersSurvive ==
    stage = "peers" =>
      /\ \A k \in DOMAIN served : PlainPeer(served[k]) => Contains(got, served[k])
      /\ (\A k \in DOMAIN served : PlainPeer(served[k])) => got = served

\* What a node learns from a file list, likewise.
FilesSurvive ==
    stage = "files" =>
      /\ \A k \in DOMAIN served : IsPlain(served[k]) => Contains(got, served[k])
      /\ (\A k \in DOMAIN served : IsPlain(served[k])) => got = served
=============================================================================
