--------------------------- MODULE MCSyncSession ---------------------------
(* Small instances of SyncSession for TLC. *)
EXTENDS SyncSession, TLC

CONSTANTS a, b    \* the two engines

MCNodes == {a, b}
Content == 0 .. MaxEdits + 1

\* Sizes of contents: edits alternate between two lengths.
AlternatingSize == [c \in Content |-> c % 2]

\* A user's path has a conflict copy for each second; copies of copies are out
\* of bound.
Copies == [x \in UserPaths \X (0 .. MaxTime) |-> 1 + 2 * x[1] + x[2]]
NoCopies == <<>>

Conf(d, r) == [direction |-> d, role |-> r]
PushTo == a :> Conf("push", "provider") @@ b :> Conf("push", "consumer")
PullFrom == a :> Conf("pull", "provider") @@ b :> Conf("pull", "consumer")
BothWays == a :> Conf("bidirectional", "provider") @@ b :> Conf("bidirectional", "consumer")

PushOnly == {PushTo}
\* The provider's peer is a consumer, or pushes back what it has.
Provided == {PushTo, a :> Conf("push", "provider") @@ b :> Conf("bidirectional", "provider")}
OneWay == {PushTo, PullFrom}
BothWaysOnly == {BothWays}

\* At least one side is not bidirectional; the ends are configured separately,
\* so mismatched pairs are states the program can be in.
Mismatched ==
    {c \in [MCNodes -> {Conf("push", "provider"), Conf("pull", "consumer"),
                        Conf("bidirectional", "provider")}] :
        \E n \in MCNodes : c[n].direction # "bidirectional"}

Empty == [p \in Paths |-> NoFile]
Old == [Empty EXCEPT ![1] = [hash |-> 0, mtime |-> 0]]
FreshPeer == {a :> Old @@ b :> Empty}
PrivateThird ==
    {a :> [p \in Paths |-> [hash |-> 0, mtime |-> 0]]
     @@ b :> [Empty EXCEPT ![3] = [hash |-> 1, mtime |-> 0]]}

IgnoreNone == [n \in MCNodes |-> {}]
\* Path 3 is a file both have, with different contents, and only a ignores.
IgnoreThirdAtA == a :> {3} @@ b :> {}

\* Any trees over the paths 1 and 2, up to the names of contents.  3 is a file
\* of a, and 4 a file of both with different contents; a ignores 3 and b
\* ignores 4.  A stray NEED names a shared file, and what the peer ignores.
AnyTrees ==
    LET mine == [hash |-> 1, mtime |-> 0]
        other == [hash |-> 0, mtime |-> 0]
    IN {a :> (s @@ 3 :> mine @@ 4 :> mine) @@ b :> (t @@ 3 :> NoFile @@ 4 :> other) :
            s \in [1 .. 2 -> {NoFile, mine}], t \in [1 .. 2 -> {NoFile, mine, other}]}
IgnoreOneEach == a :> {3} @@ b :> {4}
SharedAndIgnored == {{1, 3, 4}}
=============================================================================
