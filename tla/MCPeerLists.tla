----------------------------- MODULE MCPeerLists -----------------------------
(* PeerLists for TLC: two peers, and names with and without separators. *)
EXTENDS PeerLists

x == <<"x">>
y == <<"y">>

File(n, s) == [name |-> n, size |-> s, hash |-> <<"h">>]
a == <<"a">>
b == <<"b">>
bar == <<"a", "|", "1">>
twoLines == <<"a", "\n", "b">>

MCDigits == <<"0", "1", "2", "3", "4">>
MCSymbols == Separators \cup Range(MCDigits) \cup {"x", "y", "a", "b", "h", "ip"}
MCIds == {x, y}
MCActiveIds == {x}
MCFileLists == {<<File(b, 1), File(a, 2)>>, <<File(a, 1), File(bar, 3)>>,
                <<File(twoLines, 1), File(b, 1)>>}
MCSymmetry == Permutations(Updaters) \cup Permutations(Gens)
=============================================================================
