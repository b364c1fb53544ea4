------------------------------ MODULE FileIndex ------------------------------
(***************************************************************************)
(* The shared directory of a node and the two FileManagers that index it:  *)
(* the one of the CLI, refreshed by every `share', and the one of the      *)
(* server, filled once by initialize and used to answer requests.  Other   *)
(* programs change the directory while it is scanned.                      *)
(*                                                                         *)
(* A place is a path under the directory.  Places in different             *)
(* subdirectories may have the same file name, and the name is all that a  *)
(* request carries.  A content is a sequence of blocks, its size the       *)
(* number of them.  A hash stands for the blocks that went into it.  A     *)
(* scan visits the places in the order of the directory iterator, which is *)
(* any order, and reads the file at each block by block.                   *)
(***************************************************************************)
EXTENDS Integers, Sequences

CONSTANTS Places,      \* paths under the shared directory
          Names,       \* file names
          Valid,       \* those that isValidFile accepts
          NameOf,      \* [Places -> Names]
          Top,         \* [Names -> Places]: the place directly below
          Blocks,      \* what a buffer of calculateFileHash may hold
          Versions,    \* contents of files
          None,        \* no file, no version
          Slash,       \* does the directory given to the CLI end in '/'
          MaxChanges   \* bound: files written, by share and by other programs,
                       \* and reads that fail

ASSUME FileIndexAssumption ==
    /\ Valid \subseteq Names
    /\ NameOf \in [Places -> Names]
    /\ Top \in [Names -> Places]
    /\ \A n \in Names : NameOf[Top[n]] = n
    /\ Versions \subseteq Seq(Blocks)
    /\ None \notin Versions \cup Names \cup Places
    /\ Slash \in BOOLEAN
    /\ MaxChanges \in Nat

VARIABLES
    dir,       \* [Places -> version or None]
    index,     \* [Managers -> sequence of entries]: local_files
    pc,        \* step of the main thread
    who,       \* the manager whose scan it runs
    todo,      \* places the scan has still to visit
    cur,       \* the place it is at
    size,      \* the size it has read there
    read,      \* the blocks it has read there
    orphan,    \* content of the open file once it has left the place, or None
    sharing,   \* the name of the running share command, or None
    reported,  \* names that were reported as shared
    changes,   \* files written and reads that failed so far
    held,      \* ghost: [Managers -> [Places -> versions since the scan began]]
    complete   \* ghost: [Managers -> did the last scan see every place]

fileVars == <<cur, size, read, orphan>>
scanVars == <<who, todo, fileVars>>
vars == <<dir, index, pc, scanVars, sharing, reported, changes, held,
          complete>>

Managers == {"cli", "server"}

\* Init gives held its first value, Change and Copy keep it up to date.
Seen(d) == [p \in Places |-> {d[p]}]

Init ==
    /\ dir \in [Places -> Versions \cup {None}]
    /\ index = [m \in Managers |-> <<>>]
    /\ pc = "begin"
    /\ who = "cli"
    /\ todo = {}
    /\ cur = None
    /\ size = 0
    /\ read = <<>>
    /\ orphan = None
    /\ sharing = None
    /\ reported = {}
    /\ changes = 0
    /\ held = [m \in Managers |-> Seen(dir)]
    /\ complete = [m \in Managers |-> FALSE]

-----------------------------------------------------------------------------
(* scanDirectory, in the main thread *)

\* Mutant: the old list is not cleared.
ScanBeginUncleared ==
    /\ pc = "begin"
    /\ pc' = "scan"
    /\ todo' = Places
    /\ held' = [held EXCEPT ![who] = Seen(dir)]
    /\ complete' = [complete EXCEPT ![who] = FALSE]
    /\ UNCHANGED <<dir, index, who, fileVars, sharing, reported, changes>>

ScanBegin ==
    /\ pc = "begin"
    /\ pc' = "scan"
    /\ todo' = Places
    /\ index' = [index EXCEPT ![who] = <<>>]
    /\ held' = [held EXCEPT ![who] = Seen(dir)]
    /\ complete' = [complete EXCEPT ![who] = FALSE]
    /\ UNCHANGED <<dir, who, fileVars, sharing, reported, changes>>

\* Mutant: a file that is not shareable ends the scan instead of being skipped.
ScanSkipBreaks(p) ==
    /\ pc = "scan" /\ p \in todo
    /\ dir[p] = None \/ NameOf[p] \notin Valid
    /\ todo' = IF dir[p] = None THEN todo \ {p} ELSE {}
    /\ UNCHANGED <<dir, index, pc, who, fileVars, sharing, reported, changes,
                   held, complete>>

\* Nothing is there, or nothing to be shared.
ScanSkip(p) ==
    /\ pc = "scan" /\ p \in todo
    /\ dir[p] = None \/ NameOf[p] \notin Valid
    /\ todo' = todo \ {p}
    /\ UNCHANGED <<dir, index, pc, who, fileVars, sharing, reported, changes,
                   held, complete>>

ScanVisit(p) ==
    /\ pc = "scan" /\ p \in todo
    /\ dir[p] # None /\ NameOf[p] \in Valid
    /\ pc' = "size"
    /\ todo' = todo \ {p}
    /\ cur' = p
    /\ UNCHANGED <<dir, index, who, size, read, orphan, sharing, reported,
                   changes, held, complete>>

\* Mutant: the size is read by the overload that reports a missing file by a
\* size of -1.
ScanSizeOfMissing ==
    /\ pc = "size"
    /\ pc' = "open"
    /\ size' = IF dir[cur] = None THEN -1 ELSE Len(dir[cur])
    /\ UNCHANGED <<dir, index, who, todo, cur, read, orphan, sharing, reported,
                   changes, held, complete>>

\* file_size and last_write_time.
ScanSize ==
    /\ pc = "size"
    /\ dir[cur] # None
    /\ pc' = "open"
    /\ size' = Len(dir[cur])
    /\ UNCHANGED <<dir, index, who, todo, cur, read, orphan, sharing, reported,
                   changes, held, complete>>

ScanOpen ==
    /\ pc = "open"
    /\ dir[cur] # None
    /\ pc' = "hash"
    /\ UNCHANGED <<dir, index, scanVars, sharing, reported, changes, held,
                   complete>>

\* What the open stream would read now: a file that was overwritten in place
\* has its new content, one that was removed or replaced its last one.
Stream == IF orphan = None THEN dir[cur] ELSE orphan

\* One round of the loop of calculateFileHash.
ScanRead ==
    /\ pc = "hash"
    /\ Len(read) < Len(Stream)
    /\ read' = Append(read, Stream[Len(read) + 1])
    /\ UNCHANGED <<dir, index, pc, who, todo, cur, size, orphan, sharing,
                   reported, changes, held, complete>>

\* Whatever is counted by the bound.
Spend ==
    /\ changes < MaxChanges
    /\ changes' = changes + 1

\* The file is listed.  `whole' is not in the code: it tells the properties how
\* the loop ended.
List(whole) ==
    /\ pc' = "scan"
    /\ index' = [index EXCEPT ![who] =
                   Append(@, [place |-> cur, size |-> size, hash |-> read,
                              whole |-> whole])]
    /\ cur' = None /\ size' = 0 /\ read' = <<>> /\ orphan' = None
    /\ UNCHANGED <<dir, who, todo, sharing, reported, held, complete>>

\* The loop ends at the end of the file,
ScanHash ==
    /\ pc = "hash"
    /\ Len(read) >= Len(Stream)
    /\ List(TRUE)
    /\ UNCHANGED changes

\* or before it, with a read error, or after a block that was the last and a
\* short one when it was read; nothing tells this from the end.
ScanHashCut ==
    /\ pc = "hash"
    /\ Len(read) < Len(Stream)
    /\ Spend
    /\ List(FALSE)

\* The caller goes on: initialize scans for the server next and starts it,
\* share reports success.
ScanReturns ==
    /\ IF sharing = None /\ who = "cli"
         THEN pc' = "begin" /\ who' = "server"
         ELSE pc' = "idle" /\ UNCHANGED who
    /\ reported' = reported \cup ({sharing} \ {None})
    /\ sharing' = None
    /\ todo' = {} /\ cur' = None /\ size' = 0
    /\ UNCHANGED <<read, orphan>>

ScanEnd ==
    /\ pc = "scan" /\ todo = {}
    /\ ScanReturns
    /\ complete' = [complete EXCEPT ![who] = TRUE]
    /\ UNCHANGED <<dir, index, changes, held>>

\* A filesystem_error, from the iterator, file_size or last_write_time, is
\* caught: the list ends here and the caller does not hear of it.
ScanStops ==
    /\ pc \in {"scan", "size"}
    /\ ScanReturns
    /\ UNCHANGED <<dir, index, changes, held, complete>>

\* Mutant: a file that is gone is waited for.
ScanThrowsNever ==
    /\ pc = "open"
    /\ dir[cur] = None
    /\ UNCHANGED vars

\* The file cannot be opened for hashing: the runtime_error passes the scan.
\* It ends the program in initialize, and the command in share.
ScanThrows ==
    /\ pc = "open"
    /\ pc' = IF sharing = None THEN "fatal" ELSE "idle"
    /\ sharing' = None
    /\ todo' = {} /\ cur' = None /\ size' = 0
    /\ UNCHANGED <<dir, index, who, read, orphan, reported, changes, held,
                   complete>>

Scan ==
    \/ ScanBegin
    \/ \E p \in Places : ScanSkip(p) \/ ScanVisit(p)
    \/ ScanSize \/ ScanOpen \/ ScanRead \/ ScanHash \/ ScanHashCut
    \/ ScanEnd \/ ScanStops \/ ScanThrows

-----------------------------------------------------------------------------
(* The share command, what requests are sent, and other programs (only what *)
(* makes a difference: other contents, while this program runs)              *)

Write(p, v) ==
    /\ dir' = [dir EXCEPT ![p] = v]
    /\ held' = [m \in Managers |-> [held[m] EXCEPT ![p] = @ \cup {v}]]

\* copy_file, to the directory's name with the file's name put behind it: a
\* directory given without its '/' has the copy next to it.
Share(n, v) ==
    /\ pc = "idle"
    /\ Spend
    /\ IF Slash THEN Write(Top[n], v) ELSE UNCHANGED <<dir, held>>
    /\ sharing' = n
    /\ who' = "cli"
    /\ pc' = "begin"
    /\ UNCHANGED <<index, todo, fileVars, reported, complete>>

\* Where the list has the name; getFileInfo takes the first.
Matches(m, n) == {i \in DOMAIN index[m] : NameOf[index[m][i].place] = n}
First(matches) == CHOOSE i \in matches : \A j \in matches : i <= j

\* Mutant: the server opens the name in the directory instead of the listed path.
SendsTop(n) == IF Matches("server", n) = {} THEN None ELSE dir[Top[n]]

\* What handleFileRequest sends for a name now: the file at the first entry of
\* that name, as it is now; None stands for the error message.
Sends(n) == IF Matches("server", n) = {} THEN None
            ELSE dir[index["server"][First(Matches("server", n))].place]

\* Another program writes into the file that is there, as cp and copy_file do:
\* who has it open reads on in the new content.  Truncating a file and filling it
\* again are two of these.
Overwrite(p, v) ==
    /\ dir[p] \notin {v, None}
    /\ pc # "fatal"
    /\ Spend
    /\ Write(p, v)
    /\ UNCHANGED <<index, pc, scanVars, sharing, reported, complete>>

\* Another program creates or removes the file, or renames one to its place: who
\* has it open keeps what it has opened.  (A file that has left the directory is
\* not written any more.)
Replace(p, v) ==
    /\ dir[p] # v
    /\ pc # "fatal"
    /\ Spend
    /\ Write(p, v)
    /\ orphan' = IF pc = "hash" /\ p = cur THEN Stream ELSE orphan
    /\ UNCHANGED <<index, pc, who, todo, cur, size, read, sharing, reported,
                   complete>>

Next ==
    \/ Scan
    \/ \E n \in Names, v \in Versions : Share(n, v)
    \/ \E p \in Places, v \in Versions : Overwrite(p, v)
    \/ \E p \in Places, v \in Versions \cup {None} : Replace(p, v)

\* The main thread is scheduled and the file system answers.
Fairness == WF_vars(Scan)

Spec == Init /\ [][Next]_vars
FairSpec == Spec /\ Fairness

-----------------------------------------------------------------------------
(* Properties *)

Entries(m) == {index[m][i] : i \in DOMAIN index[m]}

TypeOK ==
    /\ dir \in [Places -> Versions \cup {None}]
    /\ index \in [Managers -> Seq([place : Places, size : Nat, hash : Seq(Blocks),
                                   whole : BOOLEAN])]
    /\ pc \in {"begin", "scan", "size", "open", "hash", "idle", "fatal"}
    /\ who \in Managers
    /\ todo \subseteq Places
    /\ cur \in Places \cup {None}
    /\ pc \in {"size", "open", "hash"} <=> cur # None
    /\ size \in Nat
    /\ read \in Seq(Blocks)
    /\ orphan \in Versions \cup {None}
    /\ read # <<>> \/ orphan # None => pc = "hash"
    /\ sharing \in Names \cup {None}
    /\ reported \subseteq Names
    /\ changes \in 0 .. MaxChanges
    /\ held \in [Managers -> [Places -> SUBSET (Versions \cup {None})]]
    /\ complete \in [Managers -> BOOLEAN]

\* What a file at a place contained at some time since the scan of a manager.
Contents(m, p) == held[m][p] \ {None}

\* However other programs write to the directory while it is scanned: a manager
\* lists a place once, with a size that the file there has had since its last
\* scan began and a hash of blocks that were in it, each at its position.  The
\* blocks need not be of one content: the hash of a file that was overwritten
\* half way may belong to no content that ever was.
ListedAsSeen ==
    \A m \in Managers :
        /\ \A e \in Entries(m) :
             /\ \E v \in Contents(m, e.place) : e.size = Len(v)
             /\ \A i \in DOMAIN e.hash :
                  \E v \in Contents(m, e.place) : i \in DOMAIN v /\ e.hash[i] = v[i]
             /\ e.whole => \E v \in Contents(m, e.place) : Len(v) <= Len(e.hash)
        /\ \A i, j \in DOMAIN index[m] :
             index[m][i].place = index[m][j].place => i = j

\* A scan that reached its end, of a directory that did not change meanwhile
\* nor since, without a read that failed, has listed exactly the shareable
\* files, size and hash agreeing.
QuietScanComplete ==
    \A m \in Managers :
        /\ complete[m]
        /\ \A p \in Places : held[m][p] = {dir[p]}
        /\ \A e \in Entries(m) : e.whole
        => Entries(m) = {[place |-> p, size |-> Len(dir[p]), hash |-> dir[p],
                          whole |-> TRUE] :
                            p \in {q \in Places : dir[q] # None /\ NameOf[q] \in Valid}}

\* Who saw an entry in the server's list and requests its name is sent a file
\* of the listed size and hash, if the file was read to its end and did not
\* change since the scan began, and no other entry has the name.
SentAsListed ==
    \A e \in Entries("server") :
        /\ held["server"][e.place] = {dir[e.place]}
        /\ e.whole
        /\ \A f \in Entries("server") : NameOf[f.place] = NameOf[e.place] => f = e
        => Sends(NameOf[e.place]) = e.hash /\ Len(e.hash) = e.size

\* initialize and share come to an end.
ScanEnds == pc = "begin" ~> pc \in {"idle", "fatal"}

-----------------------------------------------------------------------------
(* What the README says *)

\* README: "share <filepath>: Share file with network".  A shareable file that
\* was reported as shared, by a scan that was not cut short, and is still there,
\* is sent to who requests it.
SharedIsSent ==
    pc = "idle" /\ (\A m \in Managers : complete[m]) =>
        \A n \in reported \cap Valid : dir[Top[n]] # None => Sends(n) # None
=============================================================================
