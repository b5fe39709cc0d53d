--------------------------- MODULE TreeScanProofs ---------------------------
(***************************************************************************)
(* The walk, the filters and the ignore patterns, for any tree, globs and  *)
(* patterns.                                                               *)
(*                                                                         *)
(* ScanInv says of a walk that has come to entry n what it has found by    *)
(* then, and that it is not below a directory it has skipped; what it      *)
(* finds in the end is then said by SkipDir.  SkippedIsIgnored says what   *)
(* SkipDir adds to Ignored: with sensible patterns, nothing.  It and the   *)
(* meaning of `**' rest on the table that matchSegmentsFlexible is         *)
(* (Flexible), row by row from the last.                                   *)
(***************************************************************************)
EXTENDS TreeScan, SequenceTheorems, FiniteSetTheorems, WellFoundedInduction, TLAPS

-----------------------------------------------------------------------------
(* Numbers and sequences *)

\* The words and names that the definitions know.
Nothing == ""
Dot == "."
Stars == "**"
Text == STRING \cup {Nothing, Dot, Stars}

LEMMA Apart ==
    /\ Nothing # Stars /\ Nothing # Dot /\ Dot # Stars
    /\ Nothing \in Text /\ Dot \in Text /\ Stars \in Text
  BY DEF Nothing, Dot, Stars, Text

LEMMA LeastOf ==
    ASSUME NEW S \in SUBSET Nat, S # {}
    PROVE  \E x \in S : \A y \in S : x <= y
<1>. DEFINE R == {ss \in Nat \X Nat : ss[1] < ss[2]}
<1>1. IsWellFoundedOn(R, Nat)
  BY NatLessThanWellFounded DEF OpToRel
<1>2. \A x, y \in S : y < x => <<y, x>> \in R
  OBVIOUS
<1>. HIDE DEF R
<1>3. PICK x \in S : \A y \in S : ~(<<y, x>> \in R)
  BY <1>1, WFMin
<1>4. \A y \in S : ~(y < x)
  BY <1>2, <1>3, Zenon
<1>5. \A y \in S : x <= y
  BY <1>4
<1>. QED
  BY <1>5

LEMMA GreatestOf ==
    ASSUME NEW n \in Nat, NEW S \in SUBSET (0 .. n), S # {}
    PROVE  \E x \in S : \A y \in S : y <= x
<1>. DEFINE T == {t \in Nat : \E x \in S : t = n - x}
<1>1. T # {}
  <2>1. PICK x \in S : TRUE
    OBVIOUS
  <2>2. n - x \in T
    BY <2>1
  <2>. QED
    BY <2>2
<1>2. PICK t \in T : \A u \in T : t <= u
  BY <1>1, LeastOf
<1>3. PICK x \in S : t = n - x
  BY <1>2
<1>4. ASSUME NEW y \in S PROVE y <= x
  <2>1. n - y \in T
    OBVIOUS
  <2>2. t <= n - y
    BY <1>2, <2>1
  <2>. QED
    BY <1>3, <2>2
<1>. QED
  BY <1>4

LEMMA Downwards ==
    ASSUME NEW n \in Nat, NEW S, n + 1 \in S, \A i \in 1 .. n : i + 1 \in S => i \in S
    PROVE  \A i \in 1 .. n + 1 : i \in S
<1>. DEFINE B == {i \in 0 .. n + 1 : i # 0 /\ i \notin S}
<1>1. SUFFICES ASSUME B # {} PROVE FALSE
  OBVIOUS
<1>2. n + 1 \in Nat /\ B \in SUBSET (0 .. n + 1)
  OBVIOUS
<1>3. PICK x \in B : \A y \in B : y <= x
  BY <1>1, <1>2, GreatestOf
<1>4. x \in 1 .. n /\ x + 1 \notin S
  <2>1. x # n + 1
    OBVIOUS
  <2>. QED
    BY <2>1
<1>5. x + 1 \in B
  BY <1>4
<1>. QED
  BY <1>3, <1>4, <1>5

LEMMA PrefixByElements ==
    ASSUME NEW S, NEW s \in Seq(S), NEW t \in Seq(S)
    PROVE  IsPrefix(s, t) <=> Len(s) <= Len(t) /\ \A i \in 1 .. Len(s) : s[i] = t[i]
<1>1. Len(s) \in Nat /\ Len(t) \in Nat
  OBVIOUS
<1>2. SubSeq(s, 1, Len(s)) = s
  BY SubSeqFull
<1>. SUFFICES ASSUME Len(s) <= Len(t)
              PROVE  s = SubSeq(t, 1, Len(s)) <=> \A i \in 1 .. Len(s) : s[i] = t[i]
  BY <1>2 DEF IsPrefix
<1>. DEFINE u == SubSeq(t, 1, Len(s))
<1>3. u \in Seq(S) /\ Len(u) = Len(s) /\ \A i \in 1 .. Len(s) : u[i] = t[i]
  BY <1>1
<1>. HIDE DEF u
<1>4. (\A i \in 1 .. Len(s) : s[i] = t[i]) => s = u
  BY <1>1, <1>3, SeqEqual
<1>. QED
  BY <1>3, <1>4 DEF u

LEMMA StrictByElements ==
    ASSUME NEW S, NEW s \in Seq(S), NEW t \in Seq(S)
    PROVE  IsStrictPrefix(s, t) <=> Len(s) < Len(t) /\ \A i \in 1 .. Len(s) : s[i] = t[i]
<1>1. Len(s) \in Nat /\ Len(t) \in Nat
  OBVIOUS
<1>2. Len(s) = Len(t) /\ (\A i \in 1 .. Len(s) : s[i] = t[i]) => s = t
  BY SeqEqual
<1>3. s = t => Len(s) = Len(t)
  OBVIOUS
<1>. QED
  BY <1>1, <1>2, <1>3, PrefixByElements DEF IsStrictPrefix

-----------------------------------------------------------------------------
(* The walk *)

\* Entry k is below a directory that the walk does not look into.
Hidden(k) ==
    \E i \in DOMAIN Tree :
        Tree[i].kind = "dir" /\ k \in Beneath(Tree[i].path) /\ SkipDir(Tree[i].path)

\* The files before entry n that are let through and not hidden.
Found(n) ==
    {Tree[k].path : k \in {i \in DOMAIN Tree :
        i < n /\ Tree[i].kind = "file" /\ Accepted(Tree[i].path) /\ ~Hidden(i)}}

\* What has been found is what there is up to here, and the walk is not in a
\* directory that it does not look into.
ScanInv ==
    /\ raws \in Seq(RawPatterns) /\ at \in 0 .. Len(Tree) + 1
    /\ files = Found(at)
    /\ \A i \in DOMAIN Tree :
        i < at /\ Tree[i].kind = "dir" /\ SkipDir(Tree[i].path) =>
            \A k \in Beneath(Tree[i].path) : k < at

LEMMA Entries ==
    ASSUME NEW i \in DOMAIN Tree
    PROVE  /\ DOMAIN Tree = 1 .. Len(Tree) /\ Len(Tree) \in Nat /\ i \in Nat
           /\ Tree[i].path \in Seq(STRING) /\ Tree[i].kind \in {"dir", "file", "link"}
<1>1. Tree \in Seq(Entry)
  BY TreeScanAssumption
<1>2. DOMAIN Tree = 1 .. Len(Tree) /\ Len(Tree) \in Nat
  BY <1>1, LenProperties
<1>3. Tree[i] \in Entry
  BY <1>1, <1>2, ElementOfSeq
<1>. QED
  BY <1>2, <1>3 DEF Entry

LEMMA BelowFollows ==
    ASSUME NEW i \in DOMAIN Tree
    PROVE  /\ Cardinality(Beneath(Tree[i].path)) \in Nat
           /\ Beneath(Tree[i].path) = i + 1 .. i + Cardinality(Beneath(Tree[i].path))
           /\ i + Cardinality(Beneath(Tree[i].path)) <= Len(Tree)
<1>. DEFINE B == Beneath(Tree[i].path)
            c == Cardinality(B)
<1>1. DOMAIN Tree = 1 .. Len(Tree) /\ Len(Tree) \in Nat /\ i \in 1 .. Len(Tree)
  BY Entries
<1>2. B \subseteq 1 .. Len(Tree)
  BY <1>1 DEF Beneath
<1>3. IsFiniteSet(1 .. Len(Tree))
  BY <1>1, FS_Interval
<1>4. c \in Nat
  BY <1>2, <1>3, FS_Subset, FS_CardinalityType
<1>5. B = i + 1 .. i + c
  BY TreeScanAssumption
<1>. HIDE DEF B, c
<1>6. i + c <= Len(Tree)
  BY <1>1, <1>2, <1>4, <1>5
<1>. QED
  BY <1>4, <1>5, <1>6 DEF B, c

LEMMA BelowNests ==
    ASSUME NEW i \in DOMAIN Tree, NEW j \in Beneath(Tree[i].path), NEW k \in Beneath(Tree[j].path)
    PROVE  k \in Beneath(Tree[i].path)
<1>1. j \in DOMAIN Tree /\ k \in DOMAIN Tree
  BY DEF Beneath
<1>2. Tree[i].path \in Seq(STRING) /\ Tree[j].path \in Seq(STRING) /\ Tree[k].path \in Seq(STRING)
  BY <1>1, Entries
<1>. DEFINE a == Tree[i].path
            b == Tree[j].path
            c == Tree[k].path
<1>3. IsStrictPrefix(a, b) /\ IsStrictPrefix(b, c)
  BY DEF Beneath
<1>. HIDE DEF a, b, c
<1>4. IsStrictPrefix(a, c)
  <2>1. a \in Seq(STRING) /\ b \in Seq(STRING) /\ c \in Seq(STRING)
    BY <1>2 DEF a, b, c
  <2>2. Len(a) \in Nat /\ Len(b) \in Nat /\ Len(c) \in Nat
    BY <2>1
  <2>3. Len(a) < Len(b) /\ \A n \in 1 .. Len(a) : a[n] = b[n]
    BY <1>3, <2>1, StrictByElements
  <2>4. Len(b) < Len(c) /\ \A n \in 1 .. Len(b) : b[n] = c[n]
    BY <1>3, <2>1, StrictByElements
  <2>5. \A n \in 1 .. Len(a) : a[n] = c[n]
    BY <2>2, <2>3, <2>4
  <2>. QED
    BY <2>1, <2>2, <2>3, <2>4, <2>5, StrictByElements
<1>. QED
  BY <1>1, <1>4 DEF Beneath, a, c

LEMMA ScanInit == Init => ScanInv
<1>. SUFFICES ASSUME Init PROVE ScanInv
  OBVIOUS
<1>1. Len(Tree) \in Nat /\ DOMAIN Tree = 1 .. Len(Tree)
  BY TreeScanAssumption, LenProperties
<1>2. Found(0) = {}
  BY <1>1 DEF Found
<1>3. raws \in Seq(RawPatterns)
  BY EmptySeq DEF Init
<1>. QED
  BY <1>1, <1>2, <1>3 DEF Init, ScanInv

\* The patterns stay as they are while the walk goes on.
LEMMA SamePatterns ==
    ASSUME UNCHANGED raws
    PROVE  /\ \A path : SkipDir(path)' = SkipDir(path)
           /\ \A path : Accepted(path)' = Accepted(path)
           /\ \A n : Found(n)' = Found(n)
<1>1. patterns' = patterns
  BY DEF patterns
<1>2. ASSUME NEW path PROVE SkipDir(path)' = SkipDir(path) /\ Accepted(path)' = Accepted(path)
  BY <1>1 DEF SkipDir, Accepted
<1>3. ASSUME NEW k PROVE Hidden(k)' = Hidden(k)
  BY <1>1 DEF Hidden, SkipDir
<1>4. ASSUME NEW n PROVE Found(n)' = Found(n)
  BY <1>1 DEF Found, Hidden, Accepted, SkipDir
<1>. QED
  BY <1>2, <1>4

LEMMA ScanNext == ScanInv /\ [Next]_vars => ScanInv'
<1>. SUFFICES ASSUME ScanInv, [Next]_vars PROVE ScanInv'
  OBVIOUS
<1>0. DOMAIN Tree = 1 .. Len(Tree) /\ Len(Tree) \in Nat
  BY TreeScanAssumption, LenProperties
<1>1. CASE \E raw \in RawPatterns : AddPattern(raw)
  <2>1. PICK raw \in RawPatterns : AddPattern(raw)
    BY <1>1
  <2>2. at = 0 /\ at' = 0 /\ files' = files /\ raws' = Append(raws, raw)
    BY <2>1 DEF AddPattern
  <2>3. raws' \in Seq(RawPatterns)
    BY <2>2, AppendProperties DEF ScanInv
  <2>4. Found(at) = {} /\ Found(at)' = {}
    BY <1>0, <2>2 DEF Found
  <2>5. files' = Found(at)' /\ at' \in 0 .. Len(Tree) + 1
    BY <1>0, <2>2, <2>4 DEF ScanInv
  <2>6. \A i \in DOMAIN Tree : ~(i < at')
    BY <1>0, <2>2
  <2>. QED
    BY <2>3, <2>5, <2>6 DEF ScanInv
<1>2. CASE StartScan
  <2>1. at = 0 /\ at' = 1 /\ files' = files /\ UNCHANGED raws
    BY <1>2 DEF StartScan
  <2>2. Found(at) = {} /\ Found(1) = {}
    BY <1>0, <2>1 DEF Found
  <2>3. Found(at)' = Found(1)
    BY <2>1, SamePatterns
  <2>4. files' = Found(at)'
    <3>1. files' = Found(at)
      BY <2>1 DEF ScanInv
    <3>. QED
      BY <2>2, <2>3, <3>1
  <2>5. at' \in 0 .. Len(Tree) + 1
    BY <1>0, <2>1
  <2>6. \A i \in DOMAIN Tree : ~(i < at')
    BY <1>0, <2>1
  <2>. QED
    BY <2>1, <2>4, <2>5, <2>6 DEF ScanInv
<1>3. CASE VisitDir \/ VisitFile
  <2>1. at \in DOMAIN Tree /\ at \in Nat /\ UNCHANGED raws /\ raws \in Seq(RawPatterns)
    BY <1>0, <1>3 DEF VisitDir, VisitFile, ScanInv
  <2>. DEFINE path == Tree[at].path
              c == Cardinality(Beneath(path))
  <2>2. c \in Nat /\ Beneath(path) = at + 1 .. at + c /\ at + c <= Len(Tree)
    BY <2>1, BelowFollows
  <2>3. \A n : Found(n)' = Found(n)
    BY <2>1, SamePatterns
  <2>4. ~Hidden(at)
    <3>1. SUFFICES ASSUME Hidden(at) PROVE FALSE
      OBVIOUS
    <3>2. PICK i \in DOMAIN Tree :
            Tree[i].kind = "dir" /\ at \in Beneath(Tree[i].path) /\ SkipDir(Tree[i].path)
      BY <3>1 DEF Hidden
    <3>3. i < at
      BY <1>0, <2>1, <3>2, BelowFollows
    <3>4. at < at
      BY <3>2, <3>3 DEF ScanInv
    <3>. QED
      BY <2>1, <3>4
  <2>5. CASE VisitFile
    <3>1. /\ Tree[at].kind \in {"file", "link"} /\ at' = at + 1
          /\ files' = IF Tree[at].kind = "file" /\ Accepted(path) THEN files \cup {path} ELSE files
      BY <2>5 DEF VisitFile, Accepted
    <3>2. Found(at + 1) = IF Tree[at].kind = "file" /\ Accepted(path)
                          THEN Found(at) \cup {path} ELSE Found(at)
      <4>1. \A i \in DOMAIN Tree : i < at + 1 <=> i < at \/ i = at
        BY <1>0, <2>1
      <4>. QED
        BY <2>1, <2>4, <4>1 DEF Found
    <3>3. files' = Found(at)'
      BY <2>3, <3>1, <3>2 DEF ScanInv
    <3>4. at' \in 0 .. Len(Tree) + 1
      BY <1>0, <2>1, <3>1
    <3>5. ASSUME NEW i \in DOMAIN Tree, i < at', Tree[i].kind = "dir", SkipDir(Tree[i].path)',
                 NEW k \in Beneath(Tree[i].path)
          PROVE  k < at'
      <4>1. i < at /\ SkipDir(Tree[i].path)
        BY <1>0, <2>1, <3>1, <3>5, SamePatterns
      <4>2. k < at
        BY <3>5, <4>1 DEF ScanInv
      <4>3. k \in DOMAIN Tree
        BY <3>5 DEF Beneath
      <4>. QED
        BY <1>0, <2>1, <3>1, <4>2, <4>3
    <3>. QED
      BY <2>1, <3>3, <3>4, <3>5 DEF ScanInv
  <2>6. CASE VisitDir
    <3>1. /\ Tree[at].kind = "dir" /\ files' = files
          /\ at' = IF SkipDir(path) THEN at + 1 + c ELSE at + 1
      BY <2>6 DEF VisitDir
    <3>2. at' \in 0 .. Len(Tree) + 1 /\ at < at'
      BY <1>0, <2>1, <2>2, <3>1
    <3>3. Found(at') = Found(at)
      <4>1. ASSUME NEW i \in DOMAIN Tree, i < at', ~(i < at), Tree[i].kind = "file"
            PROVE  Hidden(i)
        <5>1. i # at
          BY <3>1, <4>1
        <5>2. SkipDir(path) /\ i \in at + 1 .. at + c
          BY <1>0, <2>1, <2>2, <3>1, <4>1, <5>1
        <5>. QED
          BY <2>1, <2>2, <3>1, <5>2 DEF Hidden
      <4>2. ASSUME NEW i \in DOMAIN Tree
            PROVE  i < at' /\ Tree[i].kind = "file" /\ ~Hidden(i)
                    <=> i < at /\ Tree[i].kind = "file" /\ ~Hidden(i)
        <5>1. i < at => i < at'
          BY <1>0, <2>1, <3>2
        <5>. QED
          BY <4>1, <5>1
      <4>3. {i \in DOMAIN Tree :
                i < at' /\ Tree[i].kind = "file" /\ Accepted(Tree[i].path) /\ ~Hidden(i)}
            = {i \in DOMAIN Tree :
                i < at /\ Tree[i].kind = "file" /\ Accepted(Tree[i].path) /\ ~Hidden(i)}
        BY <4>2
      <4>. QED
        BY <4>3, Zenon DEF Found
    <3>4. files' = Found(at)'
      <4>1. PICK t : t = at'
        OBVIOUS
      <4>2. files' = Found(t)
        BY <3>1, <3>3, <4>1 DEF ScanInv
      <4>3. Found(t)' = Found(t)
        BY <2>3
      <4>. QED
        BY <4>1, <4>2, <4>3
    <3>5. ASSUME NEW i \in DOMAIN Tree, i < at', Tree[i].kind = "dir", SkipDir(Tree[i].path)',
                 NEW k \in Beneath(Tree[i].path)
          PROVE  k < at'
      <4>1. SkipDir(Tree[i].path) /\ k \in Nat
        <5>1. k \in DOMAIN Tree
          BY <3>5 DEF Beneath
        <5>. QED
          BY <1>0, <2>1, <3>5, <5>1, SamePatterns
      <4>2. CASE i < at
        <5>1. k < at
          BY <3>5, <4>1, <4>2 DEF ScanInv
        <5>. QED
          BY <2>1, <3>2, <4>1, <5>1
      <4>3. CASE i = at
        BY <2>1, <2>2, <3>1, <3>5, <4>1, <4>3
      <4>4. CASE at < i
        <5>1. SkipDir(path) /\ i \in at + 1 .. at + c
          BY <1>0, <2>1, <2>2, <3>1, <3>5, <4>4
        <5>2. k \in at + 1 .. at + c
          BY <2>1, <2>2, <3>5, <5>1, BelowNests
        <5>. QED
          BY <2>1, <2>2, <3>1, <5>1, <5>2
      <4>. QED
        BY <1>0, <2>1, <4>2, <4>3, <4>4
    <3>. QED
      BY <2>1, <3>2, <3>4, <3>5 DEF ScanInv
  <2>. QED
    BY <1>3, <2>5, <2>6
<1>4. CASE UNCHANGED vars
  <2>1. at' = at /\ files' = files /\ UNCHANGED raws
    BY <1>4 DEF vars
  <2>. QED
    BY <2>1, SamePatterns DEF ScanInv
<1>. QED
  BY <1>1, <1>2, <1>3, <1>4 DEF Next

\* The walk goes into every directory but the ones it skips, and takes every file
\* there that the filters let through, for any patterns (engine.go: buildManifestForFolder).
WalkIsExact ==
    Scanned =>
        files = {f \in AllFiles :
                    Accepted(f) /\ \A i \in DOMAIN Tree :
                        Tree[i].kind = "dir" /\ IsStrictPrefix(Tree[i].path, f)
                            => ~SkipDir(Tree[i].path)}

LEMMA Scanning == Spec => []ScanInv
  BY ScanInit, ScanNext, PTL DEF Spec

LEMMA ScanShows == ScanInv => WalkIsExact
<1>. SUFFICES ASSUME ScanInv, Scanned
              PROVE  files = {f \in AllFiles :
                        Accepted(f) /\ \A i \in DOMAIN Tree :
                            Tree[i].kind = "dir" /\ IsStrictPrefix(Tree[i].path, f)
                                => ~SkipDir(Tree[i].path)}
  BY DEF WalkIsExact
<1>1. DOMAIN Tree = 1 .. Len(Tree) /\ Len(Tree) \in Nat
  BY TreeScanAssumption, LenProperties
<1>2. files = Found(Len(Tree) + 1)
  BY DEF ScanInv, Scanned
<1>3. \A k \in DOMAIN Tree : k < Len(Tree) + 1
  BY <1>1
<1>4. ASSUME NEW k \in DOMAIN Tree
      PROVE  ~Hidden(k) <=> \A i \in DOMAIN Tree :
                Tree[i].kind = "dir" /\ IsStrictPrefix(Tree[i].path, Tree[k].path)
                    => ~SkipDir(Tree[i].path)
  BY <1>4 DEF Hidden, Beneath
<1>. QED
  BY <1>2, <1>3, <1>4 DEF Found, AllFiles

THEOREM WalksAreExact == Spec => []WalkIsExact
  BY Scanning, ScanShows, PTL

-----------------------------------------------------------------------------
(* matchSegmentsFlexible *)

\* What the function says of words from the i-th and names from the j-th on, if T
\* says it of what comes after.
Cell(T, segments, parts, i, j) ==
    IF i > Len(segments) \/ j > Len(parts)
    THEN j = Len(parts) + 1 /\ \A k \in i .. Len(segments) : segments[k] = "**"
    ELSE IF segments[i] = "**"
         THEN i = Len(segments) \/ \E k \in j .. Len(parts) + 1 : T[i + 1][k]
         ELSE parts[j] \in Glob[segments[i]] /\ T[i + 1][j + 1]

Tables(segments, parts) == [1 .. Len(segments) + 1 -> [1 .. Len(parts) + 1 -> BOOLEAN]]
Table(T, segments, parts) ==
    [i \in 1 .. Len(segments) + 1 |->
        [j \in 1 .. Len(parts) + 1 |-> Cell(T, segments, parts, i, j)]]

RightFrom(T, segments, parts, r) ==
    /\ T \in Tables(segments, parts)
    /\ \A i \in 1 .. Len(segments) + 1, j \in 1 .. Len(parts) + 1 :
        i >= r => T[i][j] = Cell(T, segments, parts, i, j)

LEMMA RightAbove ==
    ASSUME NEW segments \in Seq(Text), NEW parts \in Seq(Text), NEW r \in Nat,
           NEW T, RightFrom(T, segments, parts, r + 1)
    PROVE  \E U : RightFrom(U, segments, parts, r)
<1>. DEFINE n == Len(segments)
            m == Len(parts)
            U == [i \in 1 .. n + 1 |-> [j \in 1 .. m + 1 |->
                    IF i = r THEN Cell(T, segments, parts, i, j) ELSE T[i][j]]]
<1>1. n \in Nat /\ m \in Nat
  OBVIOUS
<1>2. ASSUME NEW i, NEW j PROVE Cell(T, segments, parts, i, j) \in BOOLEAN
  BY DEF Cell
<1>3. U \in Tables(segments, parts)
  BY <1>2 DEF RightFrom, Tables
<1>4. \A i \in 1 .. n + 1, j \in 1 .. m + 1 :
        U[i][j] = IF i = r THEN Cell(T, segments, parts, i, j) ELSE T[i][j]
  OBVIOUS
<1>. HIDE DEF U
<1>5. ASSUME NEW i \in 1 .. n + 1, NEW j \in 1 .. m + 1, i >= r
      PROVE  Cell(U, segments, parts, i, j) = Cell(T, segments, parts, i, j)
  <2>1. CASE i > n \/ j > m
    BY <2>1 DEF Cell
  <2>2. CASE i <= n /\ j <= m
    <3>1. \A k \in 1 .. m + 1 : U[i + 1][k] = T[i + 1][k]
      BY <1>1, <1>4, <1>5, <2>2
    <3>2. \A k \in j .. m + 1 : k \in 1 .. m + 1
      BY <1>1
    <3>3. j + 1 \in 1 .. m + 1
      BY <1>1, <2>2
    <3>4. (\E k \in j .. m + 1 : U[i + 1][k]) = (\E k \in j .. m + 1 : T[i + 1][k])
      BY <3>1, <3>2
    <3>. QED
      BY <3>1, <3>3, <3>4 DEF Cell
  <2>. QED
    BY <1>1, <2>1, <2>2
<1>6. ASSUME NEW i \in 1 .. n + 1, NEW j \in 1 .. m + 1, i >= r
      PROVE  U[i][j] = Cell(U, segments, parts, i, j)
  <2>1. CASE i = r
    BY <1>4, <1>5, <1>6, <2>1
  <2>2. CASE i # r
    <3>1. i >= r + 1
      BY <1>6, <2>2
    <3>2. T[i][j] = Cell(T, segments, parts, i, j)
      BY <3>1 DEF RightFrom
    <3>. QED
      BY <1>4, <1>5, <1>6, <2>2, <3>2
  <2>. QED
    BY <2>1, <2>2
<1>. QED
  BY <1>3, <1>6 DEF RightFrom

LEMMA TableExists ==
    ASSUME NEW segments \in Seq(Text), NEW parts \in Seq(Text)
    PROVE  \E T : T = Table(T, segments, parts) /\ RightFrom(T, segments, parts, 1)
<1>. DEFINE n == Len(segments)
            S == {r \in Nat : \E T : RightFrom(T, segments, parts, r)}
<1>1. n \in Nat
  OBVIOUS
<1>2. n + 2 \in S
  <2>. DEFINE T == [i \in 1 .. n + 1 |-> [j \in 1 .. Len(parts) + 1 |-> FALSE]]
  <2>1. T \in Tables(segments, parts)
    BY DEF Tables
  <2>2. \A i \in 1 .. n + 1 : ~(i >= n + 2)
    BY <1>1
  <2>. HIDE DEF T
  <2>3. RightFrom(T, segments, parts, n + 2)
    BY <2>1, <2>2 DEF RightFrom
  <2>. QED
    BY <1>1, <2>3
<1>3. PICK r \in S : \A y \in S : r <= y
  BY <1>2, LeastOf
<1>4. r = 0
  <2>. SUFFICES ASSUME r # 0 PROVE FALSE
    OBVIOUS
  <2>1. r - 1 \in Nat /\ (r - 1) + 1 = r
    OBVIOUS
  <2>2. PICK T : RightFrom(T, segments, parts, (r - 1) + 1)
    BY <2>1
  <2>3. r - 1 \in S
    BY <2>1, <2>2, RightAbove
  <2>. QED
    BY <1>3, <2>1, <2>3
<1>5. PICK T : RightFrom(T, segments, parts, 0)
  BY <1>3, <1>4
<1>6. RightFrom(T, segments, parts, 1)
  BY <1>5 DEF RightFrom
<1>7. T = Table(T, segments, parts)
  BY <1>5 DEF RightFrom, Tables, Table
<1>. QED
  BY <1>6, <1>7

LEMMA FlexibleIsTable ==
    ASSUME NEW segments, NEW parts
    PROVE  matchSegmentsFlexible(segments, parts)
            = (CHOOSE T : T = Table(T, segments, parts))[1][1]
  BY DEF matchSegmentsFlexible, Table, Cell

\* matchSegmentsFlexible ends, with what the first cell of a table says.
LEMMA Flexible ==
    ASSUME NEW segments \in Seq(Text), NEW parts \in Seq(Text)
    PROVE  \E T : RightFrom(T, segments, parts, 1)
                  /\ matchSegmentsFlexible(segments, parts) = T[1][1]
<1>. DEFINE T == CHOOSE T : T = Table(T, segments, parts)
<1>1. T = Table(T, segments, parts)
  BY TableExists
<1>2. matchSegmentsFlexible(segments, parts) = T[1][1]
  BY FlexibleIsTable
<1>. HIDE DEF T
<1>3. \A i \in 1 .. Len(segments) + 1, j \in 1 .. Len(parts) + 1 :
        T[i][j] = Cell(T, segments, parts, i, j)
  <2>. DEFINE B == Table(T, segments, parts)
  <2>1. \A i \in 1 .. Len(segments) + 1, j \in 1 .. Len(parts) + 1 :
          B[i][j] = Cell(T, segments, parts, i, j)
    BY DEF Table
  <2>. HIDE DEF B
  <2>2. T = B
    BY <1>1 DEF B
  <2>. QED
    BY <2>1, <2>2
<1>4. T \in Tables(segments, parts)
  <2>1. \A i, j : Cell(T, segments, parts, i, j) \in BOOLEAN
    BY DEF Cell
  <2>. QED
    BY <1>1, <2>1 DEF Table, Tables
<1>. QED
  BY <1>2, <1>3, <1>4 DEF RightFrom

\* A last name that fits all the words that the last name of another path fits
\* may stand in its place.
LEMMA FlexibleKeeps ==
    ASSUME NEW segments \in Seq(Text), NEW parts \in Seq(Text), NEW other \in Seq(Text),
           NEW m \in Nat, m = Len(parts), m = Len(other),
           \A j \in 1 .. m - 1 : parts[j] = other[j],
           \A i \in 1 .. Len(segments) :
                segments[i] # "**" /\ parts[m] \in Glob[segments[i]]
                    => other[m] \in Glob[segments[i]],
           matchSegmentsFlexible(segments, parts)
    PROVE  matchSegmentsFlexible(segments, other)
<1>. DEFINE n == Len(segments)
<1>1. n \in Nat
  OBVIOUS
<1>2. PICK T : RightFrom(T, segments, parts, 1) /\ matchSegmentsFlexible(segments, parts) = T[1][1]
  BY Flexible
<1>3. PICK U : RightFrom(U, segments, other, 1) /\ matchSegmentsFlexible(segments, other) = U[1][1]
  BY Flexible
<1>4. \A i \in 1 .. n + 1, j \in 1 .. m + 1 :
        /\ T[i][j] = Cell(T, segments, parts, i, j)
        /\ U[i][j] = Cell(U, segments, other, i, j)
  BY <1>2, <1>3 DEF RightFrom
<1>. DEFINE S == {i \in 1 .. n + 1 : \A j \in 1 .. m + 1 : T[i][j] => U[i][j]}
<1>5. n + 1 \in S
  <2>1. ASSUME NEW j \in 1 .. m + 1, T[n + 1][j] PROVE U[n + 1][j]
    <3>1. Cell(T, segments, parts, n + 1, j)
      BY <1>1, <1>4, <2>1
    <3>2. Cell(U, segments, other, n + 1, j)
      BY <1>1, <3>1 DEF Cell
    <3>. QED
      BY <1>1, <1>4, <3>2
  <2>. QED
    BY <1>1, <2>1
<1>6. ASSUME NEW i \in 1 .. n, i + 1 \in S PROVE i \in S
  <2>1. ASSUME NEW j \in 1 .. m + 1, T[i][j] PROVE U[i][j]
    <3>1. Cell(T, segments, parts, i, j)
      BY <1>1, <1>4, <2>1
    <3>2. Cell(U, segments, other, i, j)
      <4>1. CASE j > m
        BY <3>1, <4>1 DEF Cell
      <4>2. CASE j <= m /\ segments[i] = "**"
        <5>1. i = n \/ \E k \in j .. m + 1 : T[i + 1][k]
          BY <1>1, <3>1, <4>2 DEF Cell
        <5>2. \A k \in j .. m + 1 : T[i + 1][k] => U[i + 1][k]
          BY <1>6
        <5>3. i = n \/ \E k \in j .. m + 1 : U[i + 1][k]
          BY <5>1, <5>2
        <5>. QED
          BY <1>1, <4>2, <5>3 DEF Cell
      <4>3. CASE j <= m /\ segments[i] # "**"
        <5>1. parts[j] \in Glob[segments[i]] /\ T[i + 1][j + 1]
          BY <1>1, <3>1, <4>3 DEF Cell
        <5>2. other[j] \in Glob[segments[i]]
          BY <1>1, <4>3, <5>1
        <5>3. U[i + 1][j + 1]
          BY <1>6, <4>3, <5>1
        <5>. QED
          BY <1>1, <4>3, <5>2, <5>3 DEF Cell
      <4>. QED
        BY <4>1, <4>2, <4>3
    <3>. QED
      BY <1>1, <1>4, <3>2
  <2>. QED
    BY <1>1, <2>1
<1>7. 1 \in S
  <2>. HIDE DEF S, n
  <2>1. \A i \in 1 .. n + 1 : i \in S
    BY <1>1, <1>5, <1>6, Downwards
  <2>. QED
    BY <1>1, <2>1
<1>8. T[1][1] => U[1][1]
  BY <1>7
<1>. QED
  BY <1>2, <1>3, <1>8

-----------------------------------------------------------------------------
(* What is asked of a directory *)

\* matchSegments, case by case.
LEMMA SegmentCases ==
    ASSUME NEW words \in Seq(Text), NEW parts
    PROVE  /\ words = <<>> => ~matchSegments(words, parts)
           /\ words = <<Stars>> => matchSegments(words, parts)
           /\ Len(words) > 1 /\ words[1] = Stars =>
                (matchSegments(words, parts) <=>
                    \/ HasSuffix(parts, Tail(words))
                    \/ Len(words) = 2 /\ Base(parts) \in Glob[words[2]])
           /\ Len(words) > 1 /\ words[1] # Stars /\ words[Len(words)] = Stars =>
                (matchSegments(words, parts) <=> UnderPrefix(Front(words), parts))
           /\ Len(words) > 0 /\ words[1] # Stars /\ (Len(words) > 1 => words[Len(words)] # Stars) =>
                (matchSegments(words, parts) <=>
                    IF Len(words) # Len(parts) THEN matchSegmentsFlexible(words, parts)
                    ELSE NameByName(words, parts))
<1>. DEFINE n == Len(words)
<1>1. n \in Nat /\ (words = <<>> <=> n = 0)
  BY EmptySeq
<1>2. words = <<Stars>> => n = 1 /\ words[1] = Stars
  OBVIOUS
<1>3. CASE words = <<>>
  BY <1>1, <1>3 DEF matchSegments, Stars
<1>4. CASE words = <<Stars>>
  BY <1>1, <1>2, <1>4 DEF matchSegments, Stars
<1>5. CASE n > 1 /\ words[1] = Stars
  <2>1. Len(Tail(words)) = n - 1 /\ Tail(words)[1] = words[2]
    BY <1>1, <1>5, HeadTailProperties
  <2>2. n - 1 = 1 <=> n = 2
    BY <1>1
  <2>3. words # <<>> /\ words # <<Stars>>
    <3>1. n \in Nat /\ n > 1
      BY <1>5
    <3>. HIDE DEF n
    <3>2. n # 0 /\ n # 1
      BY <3>1
    <3>. QED
      BY <1>1, <1>2, <3>2, Zenon
  <2>4. matchSegments(words, parts)
            <=> \/ HasSuffix(parts, Tail(words))
                \/ Len(Tail(words)) = 1 /\ Base(parts) \in Glob[Tail(words)[1]]
    BY <1>5, <2>3 DEF matchSegments, Stars
  <2>. QED
    BY <1>1, <1>5, <2>1, <2>2, <2>3, <2>4
<1>6. CASE n > 1 /\ words[1] # Stars /\ words[n] = Stars
  <2>1. words # <<>> /\ words # <<Stars>>
    BY <1>1, <1>2, <1>6
  <2>. QED
    BY <1>1, <1>6, <2>1 DEF matchSegments, Stars, Last
<1>7. CASE n > 0 /\ words[1] # Stars /\ (n > 1 => words[n] # Stars)
  <2>1. words # <<>> /\ words # <<Stars>>
    BY <1>1, <1>2, <1>7
  <2>. QED
    BY <1>1, <1>7, <2>1 DEF matchSegments, Stars, Last
<1>8. n = 1 /\ words[1] = Stars => words = <<Stars>>
  <2>. SUFFICES ASSUME n = 1, words[1] = Stars PROVE words = <<Stars>>
    OBVIOUS
  <2>1. <<Stars>> \in Seq(Text) /\ Len(<<Stars>>) = 1
    <3>1. Stars \in Text
      BY DEF Text
    <3>. QED
      BY <3>1
  <2>. QED
    BY <2>1, SeqEqual
<1>. QED
  BY <1>1, <1>3, <1>4, <1>5, <1>6, <1>7, <1>8

LEMMA OneMore ==
    ASSUME NEW S, NEW d \in Seq(S), NEW x \in S
    PROVE  /\ Append(d, x) \in Seq(S) /\ Len(d) \in Nat /\ Len(Append(d, x)) = Len(d) + 1
           /\ \A i \in 1 .. Len(d) : Append(d, x)[i] = d[i]
           /\ Append(d, x)[Len(d) + 1] = x
  BY AppendProperties, LenProperties

LEMMA BaseOfName ==
    ASSUME NEW d \in Seq(Text), NEW x \in Text, x # Nothing
    PROVE  Base(Append(d, x)) = x
<1>. DEFINE path == Append(d, x)
<1>1. Len(path) = Len(d) + 1 /\ path[Len(d) + 1] = x
  BY OneMore, Zenon
<1>. HIDE DEF path
<1>2. Last(path) = x
  BY <1>1 DEF Last
<1>3. Base(path) = x
  BY <1>2 DEF Base, Nothing
<1>. QED
  BY <1>3 DEF path

LEMMA BaseOfDir ==
    ASSUME NEW d \in Seq(Text), Len(d) > 0
    PROVE  d[Len(d)] # Nothing => Base(Append(d, Nothing)) = d[Len(d)] /\ Base(d) = d[Len(d)]
<1>. SUFFICES ASSUME NEW z \in Text, z = Nothing
              PROVE  d[Len(d)] # Nothing => Base(Append(d, z)) = d[Len(d)] /\ Base(d) = d[Len(d)]
  BY Apart
<1>. DEFINE path == Append(d, z)
            n == Len(d)
<1>1. n \in Nat /\ n > 0
  OBVIOUS
<1>2. Len(path) = n + 1 /\ path[n + 1] = z /\ \A i \in 1 .. n : path[i] = d[i]
  BY OneMore
<1>. HIDE DEF path, n
<1>3. Len(path) = n + 1 /\ path[n + 1] = Nothing /\ \A i \in 1 .. n : path[i] = d[i]
  BY <1>2
<1>4. n + 1 # 1 /\ n + 1 - 1 = n /\ n \in 1 .. n
  BY <1>1
<1>5. Last(path) = Nothing
  BY <1>3 DEF Last
<1>6. Base(path) = path[n]
  <2>0. Len(path) = n + 1
    BY <1>3
  <2>1. Len(path) # 1 /\ Len(path) - 1 = n
    BY <1>1, <1>4, <2>0
  <2>. QED
    BY <1>5, <2>1, Zenon DEF Base, Nothing
<1>7. d[n] # Nothing => Base(d) = d[n]
  BY DEF Base, Nothing, Last, n
<1>. QED
  BY <1>3, <1>4, <1>6, <1>7 DEF path, n

LEMMA SensibleWord ==
    ASSUME NEW words, Sensible(words), NEW i \in 1 .. Len(words)
    PROVE  /\ words[i] # Nothing
           /\ words[i] # Stars =>
                \A y \in {Nothing, Dot, Stars}, x \in Names :
                    y \in Glob[words[i]] \/ <<y, words[i]>> \in EndsWith => x \in Glob[words[i]]
  BY DEF Sensible, Even, Nothing, Dot, Stars

LEMMA SensibleEnds ==
    ASSUME NEW words, Sensible(words), Len(words) > 1
    PROVE  /\ words[1] # Stars => Nothing \notin Glob[words[1]]
           /\ words[Len(words)] = Stars => words[1] # Stars /\ words[Len(words) - 1] # Stars
  BY DEF Sensible, Nothing, Stars

\* "**/...": the end of the path.
LEMMA LeadingKeeps ==
    ASSUME NEW words \in Seq(Text), Sensible(words), Len(words) > 1, words[1] = Stars,
           NEW d \in Seq(Text), Len(d) > 0, d[Len(d)] # Nothing,
           NEW x \in Text, x \in Names, x # Nothing, NEW y \in Text, y \in {Nothing, Stars}
    PROVE  matchSegments(words, Append(d, y)) =>
                matchSegments(words, d) \/ matchSegments(words, Append(d, x))
<1>. DEFINE n == Len(words)
            m == Len(d)
            path == Append(d, y)
            other == Append(d, x)
            suffix == Tail(words)
<1>1. n \in Nat /\ n > 1 /\ m \in Nat /\ m > 0
  OBVIOUS
<1>2. Len(path) = m + 1 /\ path[m + 1] = y
  BY OneMore
<1>3. Len(suffix) = n - 1 /\ \A i \in 1 .. n - 1 : suffix[i] = words[i + 1]
  <2>1. words # <<>>
    BY <1>1
  <2>. QED
    BY <1>1, <2>1, HeadTailProperties
<1>4. \A parts : matchSegments(words, parts) <=>
        HasSuffix(parts, suffix) \/ (n = 2 /\ Base(parts) \in Glob[words[2]])
  BY SegmentCases
<1>5. words[n] # Nothing /\ words[n] # Stars
  <2>1. n \in 1 .. n
    BY <1>1
  <2>. QED
    BY <2>1, SensibleWord, SensibleEnds
<1>6. Base(other) = x
  BY BaseOfName
<1>7. y = Stars => Base(path) = y
  BY BaseOfName, Apart
<1>8. y = Nothing => Base(path) = Base(d)
  BY BaseOfDir
<1>9. n = 2 => \A z \in {Nothing, Dot, Stars} :
        z \in Glob[words[2]] \/ <<z, words[2]>> \in EndsWith => x \in Glob[words[2]]
  <2>. SUFFICES ASSUME n = 2
                PROVE  \A z \in {Nothing, Dot, Stars} :
                        z \in Glob[words[2]] \/ <<z, words[2]>> \in EndsWith => x \in Glob[words[2]]
    OBVIOUS
  <2>1. 2 \in 1 .. Len(words) /\ words[2] # Stars
    BY <1>5
  <2>. QED
    BY <2>1, SensibleWord
<1>. HIDE DEF n, m, path, other, suffix
<1>10. CASE HasSuffix(path, suffix) /\ n = 2
  <2>1. Len(path) - Len(suffix) + 1 = m + 1
    <3>1. Len(path) = m + 1 /\ Len(suffix) = n - 1
      BY <1>2, <1>3
    <3>. QED
      BY <1>1, <1>10, <3>1
  <2>2. suffix[1] = words[2]
    <3>1. 1 \in 1 .. n - 1
      BY <1>1
    <3>. QED
      BY <1>3, <3>1
  <2>3. <<path[m + 1], words[2]>> \in EndsWith
    BY <1>10, <2>1, <2>2, Zenon DEF HasSuffix
  <2>4. x \in Glob[words[2]]
    BY <1>2, <1>9, <1>10, <2>3
  <2>. QED
    BY <1>4, <1>6, <1>10, <2>4 DEF other
<1>11. CASE HasSuffix(path, suffix) /\ n # 2
  <2>1. Len(path) = m + 1 /\ Len(suffix) = n - 1
    BY <1>2, <1>3
  <2>2. n - 1 \in 2 .. Len(suffix) /\ n - 1 \in 1 .. n - 1 /\ n - 1 + 1 = n
    BY <1>1, <1>11, <2>1
  <2>3. Len(path) - Len(suffix) + (n - 1) = m + 1
    BY <1>1, <2>1
  <2>4. path[m + 1] = suffix[n - 1]
    BY <1>11, <2>2, <2>3, Zenon DEF HasSuffix
  <2>5. suffix[n - 1] = words[n]
    BY <1>3, <2>2
  <2>6. y = words[n]
    BY <1>2, <2>4, <2>5, Zenon
  <2>. QED
    BY <1>5, <2>6
<1>12. CASE n = 2 /\ Base(path) \in Glob[words[2]]
  <2>1. CASE y = Stars
    BY <1>4, <1>6, <1>7, <1>9, <1>12, <2>1 DEF other
  <2>2. CASE y = Nothing
    BY <1>4, <1>8, <1>12, <2>2
  <2>. QED
    BY <2>1, <2>2
<1>. QED
  BY <1>4, <1>10, <1>11, <1>12 DEF path, other

\* UnderPrefix, element by element.
UnderElements(prefix, parts) ==
    \/ Len(prefix) <= Len(parts) /\ \A j \in 1 .. Len(prefix) : prefix[j] = parts[j]
    \/ Len(prefix) = 1 /\ \E i \in 1 .. Len(parts) : prefix[1] = parts[i]
    \/ \E i \in 2 .. Len(parts) :
          /\ i + Len(prefix) <= Len(parts)
          /\ \A j \in 1 .. Len(prefix) : parts[i + j - 1] = prefix[j]

LEMMA UnderByElements ==
    ASSUME NEW prefix \in Seq(Text), NEW parts \in Seq(Text), Len(prefix) > 0
    PROVE  UnderPrefix(prefix, parts) <=> UnderElements(prefix, parts)
<1>. DEFINE k == Len(prefix)
            m == Len(parts)
<1>1. k \in Nat /\ k > 0 /\ m \in Nat
  OBVIOUS
<1>2. IsPrefix(prefix, parts) <=> k <= m /\ \A j \in 1 .. k : prefix[j] = parts[j]
  BY PrefixByElements
<1>3. ASSUME NEW i \in 1 .. m PROVE prefix = <<parts[i]>> <=> k = 1 /\ prefix[1] = parts[i]
  <2>1. parts[i] \in Text
    BY ElementOfSeq
  <2>. DEFINE one == <<parts[i]>>
  <2>2. one \in Seq(Text) /\ Len(one) = 1 /\ one[1] = parts[i]
    BY <2>1
  <2>. HIDE DEF one
  <2>3. k = 1 /\ prefix[1] = parts[i] => prefix = one
    BY <2>2, SeqEqual
  <2>4. prefix = one => k = 1 /\ prefix[1] = parts[i]
    BY <2>2
  <2>. QED
    BY <2>3, <2>4 DEF one
<1>4. ASSUME NEW i \in 2 .. m, i + k <= m
      PROVE  SubSeq(parts, i, i + k - 1) = prefix
                <=> \A j \in 1 .. k : parts[i + j - 1] = prefix[j]
  <2>. DEFINE sub == SubSeq(parts, i, i + k - 1)
  <2>1. \A j \in i .. i + k - 1 : parts[j] \in Text
    BY <1>1, <1>4, ElementOfSeq
  <2>2. i \in Int /\ i + k - 1 \in Int /\ i <= i + k - 1 /\ i + k - 1 - i + 1 = k
    BY <1>1
  <2>3. sub \in Seq(Text) /\ Len(sub) = k /\ \A j \in 1 .. k : sub[j] = parts[i + j - 1]
    BY <2>1, <2>2, SubSeqProperties
  <2>. HIDE DEF sub
  <2>4. (\A j \in 1 .. k : sub[j] = prefix[j]) => sub = prefix
    BY <2>3, SeqEqual
  <2>5. sub = prefix <=> \A j \in 1 .. k : sub[j] = prefix[j]
    BY <2>4
  <2>. QED
    BY <2>3, <2>5 DEF sub
<1>. QED
  BY <1>2, <1>3, <1>4 DEF UnderPrefix, UnderElements

\* A prefix that does not lie at the end of a path is found in every other path
\* that begins in the same way.
LEMMA PrefixStays ==
    ASSUME NEW prefix \in Seq(Text), Len(prefix) > 0, NEW parts \in Seq(Text), NEW other \in Seq(Text),
           NEW c \in Nat, c <= Len(parts), Len(parts) <= c + 1, Len(parts) <= Len(other),
           \A i \in 1 .. c : parts[i] = other[i],
           Len(parts) = c + 1 => parts[c + 1] # prefix[1] /\ parts[c + 1] # prefix[Len(prefix)],
           UnderPrefix(prefix, parts)
    PROVE  UnderPrefix(prefix, other)
<1>. DEFINE k == Len(prefix)
            m == Len(parts)
<1>1. k \in Nat /\ k > 0 /\ m \in Nat /\ (m = c \/ m = c + 1) /\ Len(other) \in Nat
  OBVIOUS
<1>2. UnderElements(prefix, parts)
  BY UnderByElements
<1>. SUFFICES UnderElements(prefix, other)
  BY UnderByElements
<1>3. CASE k <= m /\ \A j \in 1 .. k : prefix[j] = parts[j]
  <2>1. k <= c
    <3>. SUFFICES ASSUME k > c PROVE FALSE
      BY <1>1
    <3>1. m = c + 1 /\ k = c + 1 /\ k \in 1 .. k
      BY <1>1, <1>3
    <3>. QED
      BY <1>3, <3>1
  <2>2. k <= Len(other) /\ \A j \in 1 .. k : prefix[j] = other[j]
    BY <1>1, <1>3, <2>1
  <2>. QED
    BY <2>2 DEF UnderElements
<1>4. CASE k = 1 /\ \E i \in 1 .. m : prefix[1] = parts[i]
  <2>1. PICK i \in 1 .. m : prefix[1] = parts[i]
    BY <1>4
  <2>2. i \in 1 .. c /\ i \in 1 .. Len(other)
    BY <1>1, <2>1
  <2>3. prefix[1] = other[i]
    BY <2>1, <2>2
  <2>. QED
    BY <1>4, <2>2, <2>3 DEF UnderElements
<1>5. CASE \E i \in 2 .. m : i + k <= m /\ \A j \in 1 .. k : parts[i + j - 1] = prefix[j]
  <2>1. PICK i \in 2 .. m : i + k <= m /\ \A j \in 1 .. k : parts[i + j - 1] = prefix[j]
    BY <1>5
  <2>2. i \in 2 .. Len(other) /\ i + k <= Len(other)
    BY <1>1, <2>1
  <2>3. ASSUME NEW j \in 1 .. k PROVE other[i + j - 1] = prefix[j]
    <3>1. i + j - 1 \in 1 .. c
      BY <1>1, <2>1
    <3>. QED
      BY <2>1, <3>1
  <2>. QED
    BY <2>2, <2>3 DEF UnderElements
<1>. QED
  BY <1>2, <1>3, <1>4, <1>5 DEF UnderElements

LEMMA FrontElements ==
    ASSUME NEW words \in Seq(Text), Len(words) > 1
    PROVE  /\ Front(words) \in Seq(Text) /\ Len(Front(words)) = Len(words) - 1
           /\ \A i \in 1 .. Len(words) - 1 : Front(words)[i] = words[i]
<1>. DEFINE n == Len(words) - 1
<1>1. n \in Nat /\ 1 <= n /\ n - 1 + 1 = n
  OBVIOUS
<1>2. \A i \in 1 .. n : words[i] \in Text
  BY ElementOfSeq
<1>. HIDE DEF n
<1>3. 1 \in Int /\ n \in Int
  BY <1>1
<1>4. /\ SubSeq(words, 1, n) \in Seq(Text) /\ Len(SubSeq(words, 1, n)) = n
      /\ \A i \in 1 .. n : SubSeq(words, 1, n)[i] = words[i]
  BY <1>1, <1>2, <1>3, SubSeqProperties
<1>. QED
  BY <1>4 DEF Front, n

\* ".../**": a prefix of the path, or a part of it.
LEMMA TrailingKeeps ==
    ASSUME NEW words \in Seq(Text), Sensible(words), Len(words) > 1, words[Len(words)] = Stars,
           NEW d \in Seq(Text), NEW x \in Text, NEW y \in Text, y \in {Nothing, Stars}
    PROVE  matchSegments(words, Append(d, y)) => matchSegments(words, Append(d, x))
<1>. DEFINE n == Len(words)
            c == Len(d)
            prefix == Front(words)
            path == Append(d, y)
            other == Append(d, x)
<1>1. words[1] # Stars
  BY SensibleEnds
<1>2. prefix \in Seq(Text) /\ Len(prefix) = n - 1 /\ \A i \in 1 .. n - 1 : prefix[i] = words[i]
  BY FrontElements
<1>3. n \in Nat /\ n > 1 /\ c \in Nat
  OBVIOUS
<1>4. prefix[1] = words[1] /\ prefix[Len(prefix)] = words[n - 1]
  BY <1>2, <1>3
<1>5. words[1] # y /\ words[n - 1] # y
  <2>1. 1 \in 1 .. n /\ n - 1 \in 1 .. n
    BY <1>3
  <2>. QED
    BY <1>1, <2>1, SensibleWord, SensibleEnds
<1>6. /\ path \in Seq(Text) /\ Len(path) = c + 1 /\ path[c + 1] = y
      /\ \A i \in 1 .. c : path[i] = d[i]
  BY OneMore
<1>7. other \in Seq(Text) /\ Len(other) = c + 1 /\ \A i \in 1 .. c : other[i] = d[i]
  BY OneMore
<1>8. \A parts : matchSegments(words, parts) <=> UnderPrefix(prefix, parts)
  BY <1>1, SegmentCases
<1>. HIDE DEF n, c, prefix, path, other
<1>9. UnderPrefix(prefix, path) => UnderPrefix(prefix, other)
  <2>1. Len(prefix) > 0 /\ c <= Len(path) /\ Len(path) <= c + 1 /\ Len(path) <= Len(other)
    BY <1>2, <1>3, <1>6, <1>7
  <2>2. path[c + 1] # prefix[1] /\ path[c + 1] # prefix[Len(prefix)]
    BY <1>4, <1>5, <1>6
  <2>3. \A i \in 1 .. c : path[i] = other[i]
    BY <1>6, <1>7
  <2>. QED
    BY <1>2, <1>3, <1>6, <1>7, <2>1, <2>2, <2>3, PrefixStays
<1>. QED
  BY <1>8, <1>9 DEF path, other

\* Other patterns: name by name, or with `**' in the middle.
LEMMA MiddleKeeps ==
    ASSUME NEW words \in Seq(Text), Sensible(words), Len(words) > 0, words[1] # Stars,
           Len(words) > 1 => words[Len(words)] # Stars,
           NEW d \in Seq(Text), NEW x \in Text, x \in Names, NEW y \in Text, y \in {Nothing, Stars}
    PROVE  matchSegments(words, Append(d, y)) => matchSegments(words, Append(d, x))
<1>. DEFINE n == Len(words)
            m == Len(d) + 1
            path == Append(d, y)
            other == Append(d, x)
<1>1. n \in Nat /\ m \in Nat /\ m > 0
  OBVIOUS
<1>2. /\ path \in Seq(Text) /\ Len(path) = m /\ path[m] = y
      /\ \A i \in 1 .. Len(d) : path[i] = d[i]
  BY OneMore
<1>3. other \in Seq(Text) /\ Len(other) = m /\ other[m] = x /\ \A i \in 1 .. Len(d) : other[i] = d[i]
  BY OneMore
<1>4. \A i \in 1 .. m - 1 : path[i] = other[i]
  BY <1>2, <1>3
<1>5. ASSUME NEW i \in 1 .. n, words[i] # Stars, path[m] \in Glob[words[i]]
      PROVE  other[m] \in Glob[words[i]]
  <2>1. \A z \in {Nothing, Dot, Stars}, v \in Names :
            z \in Glob[words[i]] \/ <<z, words[i]>> \in EndsWith => v \in Glob[words[i]]
    BY <1>5, SensibleWord
  <2>2. path[m] \in {Nothing, Dot, Stars} /\ other[m] \in Names
    <3>1. path[m] = y /\ other[m] = x
      BY <1>2, <1>3
    <3>. QED
      BY <3>1, Zenon
  <2>. HIDE DEF path, other, m
  <2>. QED
    BY <1>5, <2>1, <2>2
<1>6. \A parts : matchSegments(words, parts) <=>
        IF n # Len(parts) THEN matchSegmentsFlexible(words, parts) ELSE NameByName(words, parts)
  BY SegmentCases
<1>7. matchSegmentsFlexible(words, path) => matchSegmentsFlexible(words, other)
  <2>. HIDE DEF m, path, other
  <2>. QED
    BY <1>1, <1>2, <1>3, <1>4, <1>5, FlexibleKeeps DEF Stars
<1>8. n = m /\ NameByName(words, path) => NameByName(words, other)
  <2>. HIDE DEF m, path, other, n
  <2>. SUFFICES ASSUME n = m, NameByName(words, path), NEW i \in 1 .. m
                PROVE  (\E k \in 1 .. i : words[k] = Stars) \/ other[i] \in Glob[words[i]]
    BY <1>2, <1>3 DEF NameByName, Stars
  <2>1. (\E k \in 1 .. i : words[k] = Stars) \/ path[i] \in Glob[words[i]]
    BY <1>2 DEF NameByName, Stars
  <2>2. i \in 1 .. i
    BY <1>1
  <2>3. i = m \/ i \in 1 .. m - 1
    BY <1>1
  <2>. QED
    BY <1>4, <1>5, <2>1, <2>2, <2>3
<1>. HIDE DEF path, other, n, m
<1>. QED
  BY <1>2, <1>3, <1>6, <1>7, <1>8 DEF path, other

LEMMA SegmentsKeep ==
    ASSUME NEW words \in Seq(Text), Sensible(words),
           NEW d \in Seq(Text), Len(d) > 0, d[Len(d)] # Nothing,
           NEW x \in Text, x \in Names, x # Nothing, NEW y \in Text, y \in {Nothing, Stars}
    PROVE  matchSegments(words, Append(d, y)) =>
                matchSegments(words, d) \/ matchSegments(words, Append(d, x))
<1>. DEFINE n == Len(words)
<1>1. n \in Nat /\ (n = 0 => words = <<>>)
  BY EmptySeq
<1>2. CASE words = <<>>
  BY <1>2, SegmentCases
<1>3. CASE n > 1 /\ words[1] = Stars
  BY <1>3, LeadingKeeps
<1>4. CASE n > 1 /\ words[n] = Stars
  BY <1>4, TrailingKeeps
<1>5. CASE n > 0 /\ words[1] # Stars /\ (n > 1 => words[n] # Stars)
  BY <1>5, MiddleKeeps
<1>6. CASE n = 1 /\ words[1] = Stars
  <2>. DEFINE one == <<Stars>>
  <2>1. one \in Seq(Text) /\ Len(one) = 1 /\ one[1] = Stars
    BY Apart
  <2>2. words = one
    BY <1>6, <2>1, SeqEqual
  <2>. QED
    BY <2>2, SegmentCases
<1>7. n \in Nat
  OBVIOUS
<1>. HIDE DEF n
<1>8. n = 0 \/ n = 1 \/ n > 1
  BY <1>7
<1>. QED
  BY <1>1, <1>2, <1>3, <1>4, <1>5, <1>6, <1>8

LEMMA CutOff ==
    ASSUME NEW S, NEW d \in Seq(S), NEW x \in S
    PROVE  /\ \A i \in 1 .. Len(d) : SubSeq(Append(d, x), 1, i) = SubSeq(d, 1, i)
           /\ SubSeq(Append(d, x), 1, Len(d) + 1) = Append(d, x)
           /\ SubSeq(d, 1, Len(d)) = d
<1>. DEFINE m == Len(d)
            e == Append(d, x)
<1>1. e \in Seq(S) /\ m \in Nat /\ Len(e) = m + 1 /\ \A i \in 1 .. m : e[i] = d[i]
  BY OneMore
<1>. HIDE DEF e
<1>2. ASSUME NEW i \in 1 .. m PROVE SubSeq(e, 1, i) = SubSeq(d, 1, i)
  <2>1. 1 \in Int /\ i \in Int /\ 1 <= i /\ i - 1 + 1 = i /\ \A k \in 1 .. i : 1 + k - 1 = k
    BY <1>1
  <2>2. \A k \in 1 .. i : e[k] \in S /\ d[k] \in S
    BY <1>1, ElementOfSeq
  <2>. DEFINE u == SubSeq(e, 1, i)
              v == SubSeq(d, 1, i)
  <2>3. u \in Seq(S) /\ Len(u) = i /\ \A k \in 1 .. i : u[k] = e[k]
    BY <2>1, <2>2, SubSeqProperties
  <2>4. v \in Seq(S) /\ Len(v) = i /\ \A k \in 1 .. i : v[k] = d[k]
    BY <2>1, <2>2, SubSeqProperties
  <2>. HIDE DEF u, v
  <2>5. \A k \in 1 .. i : e[k] = d[k]
    BY <1>1
  <2>6. \A k \in 1 .. i : u[k] = v[k]
    BY <2>3, <2>4, <2>5
  <2>7. u = v
    BY <2>3, <2>4, <2>6, SeqEqual
  <2>. QED
    BY <2>7 DEF u, v
<1>3. SubSeq(e, 1, Len(e)) = e /\ SubSeq(d, 1, m) = d
  BY <1>1, SubSeqFull
<1>. QED
  BY <1>1, <1>2, <1>3 DEF e

\* With "/" or "/**" after it a directory fits a pattern only if it fits alone, or
\* with any name after it.
LEMMA MatchKeeps ==
    ASSUME NEW p, p.segments \in Seq(Text), p.dirOnly \in BOOLEAN, Sensible(p.segments),
           NEW d \in Seq(Text), Len(d) > 0, d[Len(d)] # Nothing,
           NEW x \in Text, x \in Names, x # Nothing, NEW y \in Text, y \in {Nothing, Stars},
           match(p, Append(d, y))
    PROVE  match(p, d) \/ match(p, Append(d, x))
<1>. DEFINE words == p.segments
            path == Append(d, y)
            other == Append(d, x)
            m == Len(d)
<1>1. m \in Nat /\ m > 0 /\ m \in 1 .. m /\ 1 \in 1 .. m /\ m + 1 \in 1 .. m + 1
  OBVIOUS
<1>2. Len(path) = m + 1 /\ Len(other) = m + 1 /\ path[1] = d[1]
  BY OneMore
<1>. HIDE DEF m, path, other
<1>3. matchSegments(words, path) => matchSegments(words, d) \/ matchSegments(words, other)
  BY SegmentsKeep DEF path, other
<1>4. CASE Len(words) = 1 /\ words[1] # Stars /\ p.dirOnly
  BY <1>2, <1>4 DEF match, Stars, path, other
<1>5. CASE Len(words) = 1 /\ words[1] # Stars /\ ~p.dirOnly
  <2>1. \A q : match(p, q) <=> Base(q) \in Glob[words[1]]
    BY <1>5 DEF match, Stars
  <2>2. y = Nothing => Base(path) = Base(d)
    BY BaseOfDir DEF path
  <2>3. y = Stars => Base(path) = y
    BY BaseOfName, Apart DEF path
  <2>4. Base(other) = x
    BY BaseOfName DEF other
  <2>5. \A z \in {Nothing, Dot, Stars} : z \in Glob[words[1]] => x \in Glob[words[1]]
    <3>1. 1 \in 1 .. Len(words)
      BY <1>5
    <3>. QED
      BY <1>5, <3>1, SensibleWord
  <2>6. Base(path) \in Glob[words[1]]
    BY <2>1 DEF path
  <2>7. Base(d) \in Glob[words[1]] \/ Base(other) \in Glob[words[1]]
    BY <2>2, <2>3, <2>4, <2>5, <2>6
  <2>. QED
    BY <2>1, <2>7 DEF other
<1>6. CASE ~(Len(words) = 1 /\ words[1] # Stars) /\ ~p.dirOnly
  <2>1. \A q : match(p, q) <=> matchSegments(words, q)
    BY <1>6 DEF match, matchPathPattern, Stars
  <2>. QED
    BY <1>3, <2>1 DEF path, other
<1>7. CASE ~(Len(words) = 1 /\ words[1] # Stars) /\ p.dirOnly
  <2>1. \A q : match(p, q) <=> \E i \in 1 .. Len(q) : matchSegments(words, SubSeq(q, 1, i))
    BY <1>7 DEF match, matchPathPattern, Stars
  <2>2. PICK i \in 1 .. m + 1 : matchSegments(words, SubSeq(path, 1, i))
    BY <1>2, <2>1 DEF path
  <2>3. CASE i \in 1 .. m
    <3>1. SubSeq(path, 1, i) = SubSeq(d, 1, i)
      BY <2>3, CutOff DEF path, m
    <3>. QED
      BY <2>1, <2>2, <2>3, <3>1 DEF m
  <2>4. CASE i = m + 1
    <3>1. SubSeq(path, 1, m + 1) = path /\ SubSeq(other, 1, m + 1) = other /\ SubSeq(d, 1, m) = d
      BY CutOff DEF path, other, m
    <3>2. matchSegments(words, d) \/ matchSegments(words, other)
      BY <1>3, <2>2, <2>4, <3>1
    <3>3. matchSegments(words, d) => match(p, d)
      <4>1. m \in 1 .. Len(d) /\ (matchSegments(words, d) => matchSegments(words, SubSeq(d, 1, m)))
        BY <1>1, <3>1 DEF m
      <4>. QED
        BY <2>1, <4>1
    <3>4. matchSegments(words, other) => match(p, other)
      BY <1>1, <1>2, <2>1, <3>1
    <3>. QED
      BY <3>2, <3>3, <3>4 DEF other
  <2>5. i \in 1 .. m \/ i = m + 1
    BY <1>1, <2>2
  <2>. QED
    BY <2>3, <2>4, <2>5
<1>. QED
  BY <1>4, <1>5, <1>6, <1>7

\* What is asked of the root: "/**", and its part "".
LEMMA RootSegments ==
    ASSUME NEW words \in Seq(Text), Sensible(words), ~(Len(words) = 1 /\ words[1] # Stars),
           NEW path \in Seq(Text), NEW m \in {1, 2}, Len(path) = m, path[1] = Nothing,
           m = 2 => path[2] = Stars,
           NEW x \in Text, x \in Names, x # Nothing,
           matchSegments(words, path)
    PROVE  matchSegments(words, <<x>>)
<1>. DEFINE n == Len(words)
            other == <<x>>
<1>1. n \in Nat
  OBVIOUS
<1>2. other \in Seq(Text) /\ Base(other) = x
  <2>1. <<>> \in Seq(Text) /\ other = Append(<<>>, x)
    OBVIOUS
  <2>2. other \in Seq(Text)
    OBVIOUS
  <2>. QED
    BY <2>1, <2>2, BaseOfName
<1>3. Base(path) \in {Nothing, Dot, Stars} /\ path[m] \in {Nothing, Dot, Stars}
  <2>1. CASE m = 1
    BY <2>1, Apart DEF Base, Last, Nothing, Dot
  <2>2. CASE m = 2
    BY <2>2, Apart DEF Base, Last, Nothing
  <2>. QED
    BY <2>1, <2>2
<1>. HIDE DEF n, other
<1>4. n = 0 => words = <<>>
  BY EmptySeq DEF n
<1>5. n = 1 => words = <<Stars>>
  <2>. DEFINE one == <<Stars>>
  <2>1. one \in Seq(Text) /\ Len(one) = 1 /\ one[1] = Stars
    BY Apart
  <2>. HIDE DEF one
  <2>2. n = 1 => Len(words) = Len(one) /\ \A i \in 1 .. 1 : words[i] = one[i]
    BY <2>1 DEF n
  <2>3. n = 1 => words = one
    BY <2>1, <2>2, SeqEqual DEF n
  <2>. QED
    BY <2>3 DEF one
<1>6. n > 1 /\ words[1] # Stars => Nothing \notin Glob[words[1]]
  BY SensibleEnds DEF n
<1>7. n > 0 => words[1] # Nothing
  <2>1. n > 0 => 1 \in 1 .. n
    BY <1>1
  <2>. QED
    BY <2>1, SensibleWord DEF n
<1>8. CASE n > 1 /\ words[1] = Stars
  <2>. DEFINE suffix == Tail(words)
  <2>1. Len(suffix) = n - 1 /\ \A i \in 1 .. n - 1 : suffix[i] = words[i + 1]
    <3>1. words # <<>>
      BY <1>8 DEF n
    <3>. QED
      BY <3>1, HeadTailProperties DEF n
  <2>. HIDE DEF suffix
  <2>2. words[n] # Stars
    BY <1>8, SensibleEnds DEF n
  <2>3. \A q : matchSegments(words, q) <=>
            HasSuffix(q, suffix) \/ (n = 2 /\ Base(q) \in Glob[words[2]])
    BY <1>8, SegmentCases DEF n, suffix
  <2>4. n = 2 => \A z \in {Nothing, Dot, Stars} :
            z \in Glob[words[2]] \/ <<z, words[2]>> \in EndsWith => x \in Glob[words[2]]
    <3>1. n = 2 => 2 \in 1 .. n /\ words[2] # Stars
      BY <2>2
    <3>. QED
      BY <3>1, SensibleWord DEF n
  <2>5. CASE HasSuffix(path, suffix) /\ n = 2
    <3>1. Len(path) - Len(suffix) + 1 = m /\ 1 \in 1 .. n - 1
      BY <2>1, <2>5
    <3>2. suffix[1] = words[2]
      BY <2>1, <3>1
    <3>3. <<path[m], words[2]>> \in EndsWith
      BY <2>5, <3>1, <3>2, Zenon DEF HasSuffix
    <3>. QED
      BY <1>2, <1>3, <2>3, <2>4, <2>5, <3>3 DEF other
  <2>6. CASE HasSuffix(path, suffix) /\ n # 2
    <3>1. Len(path) - Len(suffix) >= 0
      BY <2>6, Zenon DEF HasSuffix
    <3>2. n = 3 /\ m = 2
      BY <1>1, <1>8, <2>1, <2>6, <3>1
    <3>3. 2 \in 2 .. Len(suffix) /\ Len(path) - Len(suffix) + 2 = 2 /\ 2 \in 1 .. n - 1
      BY <2>1, <3>2
    <3>4. path[2] = suffix[2]
      BY <2>6, <3>3, Zenon DEF HasSuffix
    <3>5. suffix[2] = words[3]
      BY <2>1, <3>3
    <3>. QED
      BY <2>2, <3>2, <3>4, <3>5
  <2>7. CASE n = 2 /\ Base(path) \in Glob[words[2]]
    BY <1>2, <1>3, <2>3, <2>4, <2>7 DEF other
  <2>. QED
    BY <2>3, <2>5, <2>6, <2>7
<1>9. CASE n > 1 /\ words[1] # Stars /\ words[n] = Stars
  <2>. DEFINE prefix == Front(words)
  <2>1. prefix \in Seq(Text) /\ Len(prefix) = n - 1 /\ \A i \in 1 .. n - 1 : prefix[i] = words[i]
    BY <1>9, FrontElements DEF n
  <2>. HIDE DEF prefix
  <2>2. UnderPrefix(prefix, path)
    <3>1. matchSegments(words, path) => UnderPrefix(Front(words), path)
      BY <1>9, SegmentCases DEF n
    <3>. QED
      BY <3>1 DEF prefix
  <2>3. UnderElements(prefix, path)
    <3>1. Len(prefix) > 0
      BY <1>1, <1>9, <2>1
    <3>. QED
      BY <2>1, <2>2, <3>1, UnderByElements
  <2>4. prefix[1] # Nothing /\ prefix[1] # Stars
    <3>1. 1 \in 1 .. n - 1
      BY <1>1, <1>9
    <3>2. prefix[1] = words[1]
      BY <2>1, <3>1
    <3>3. words[1] # Nothing
      BY <1>1, <1>7, <1>9
    <3>. QED
      BY <1>9, <3>2, <3>3
  <2>5. \A i \in 1 .. m : path[i] # prefix[1]
    BY <2>4
  <2>6. 1 \in 1 .. Len(prefix) /\ 1 \in 1 .. m
    BY <1>1, <1>9, <2>1
  <2>7. ASSUME NEW i \in 2 .. Len(path) PROVE ~(i + Len(prefix) <= Len(path))
    BY <2>1, <1>1, <1>9
  <2>. QED
    BY <2>3, <2>5, <2>6, <2>7 DEF UnderElements
<1>10. CASE n > 1 /\ words[1] # Stars /\ words[n] # Stars
  <2>1. Nothing \notin Glob[words[1]] /\ 1 \in 1 .. n + 1 /\ 1 \in 1 .. m + 1 /\ 1 \in 1 .. m
    BY <1>1, <1>6, <1>10
  <2>2. IF n # m THEN matchSegmentsFlexible(words, path) ELSE NameByName(words, path)
    BY <1>10, SegmentCases DEF n
  <2>3. ~NameByName(words, path)
    BY <1>10, <2>1 DEF NameByName, Stars
  <2>4. PICK T : RightFrom(T, words, path, 1) /\ matchSegmentsFlexible(words, path) = T[1][1]
    BY Flexible
  <2>5. T[1][1] = Cell(T, words, path, 1, 1)
    BY <2>1, <2>4 DEF RightFrom, n
  <2>6. ~Cell(T, words, path, 1, 1)
    <3>1. ~(1 > Len(words)) /\ ~(1 > Len(path)) /\ path[1] \notin Glob[words[1]]
      BY <1>10, <2>1 DEF n
    <3>. QED
      BY <1>10, <3>1 DEF Cell, Stars
  <2>. QED
    BY <2>2, <2>3, <2>4, <2>5, <2>6
<1>11. n = 0 \/ n = 1 \/ n > 1
  BY <1>1
<1>12. CASE n = 0
  BY <1>4, <1>12, SegmentCases
<1>13. CASE n = 1
  BY <1>5, <1>13, SegmentCases
<1>. QED
  BY <1>8, <1>9, <1>10, <1>11, <1>12, <1>13

LEMMA RootKeeps ==
    ASSUME NEW p, p.segments \in Seq(Text), p.dirOnly \in BOOLEAN, Sensible(p.segments),
           NEW x \in Text, x \in Names, x # Nothing,
           match(p, <<Nothing, Stars>>)
    PROVE  match(p, <<x>>)
<1>. DEFINE words == p.segments
            path == <<Nothing, Stars>>
            one == <<Nothing>>
            other == <<x>>
<1>1. path \in Seq(Text) /\ Len(path) = 2 /\ path[1] = Nothing /\ path[2] = Stars
  BY Apart
<1>2. one \in Seq(Text) /\ Len(one) = 1 /\ one[1] = Nothing
  BY Apart
<1>3. other \in Seq(Text) /\ Len(other) = 1
  OBVIOUS
<1>4. Base(other) = x
  <2>1. <<>> \in Seq(Text) /\ other = Append(<<>>, x)
    OBVIOUS
  <2>. QED
    BY <2>1, BaseOfName
<1>5. SubSeq(path, 1, 2) = path /\ SubSeq(path, 1, 1) = one /\ SubSeq(other, 1, 1) = other
  <2>1. path = Append(one, Stars) /\ 1 \in 1 .. 1 /\ 1 + 1 = 2
    OBVIOUS
  <2>2. SubSeq(path, 1, 2) = path
    BY <1>1, SubSeqFull
  <2>3. SubSeq(one, 1, 1) = one
    BY <1>2, SubSeqFull
  <2>4. SubSeq(other, 1, 1) = other
    BY <1>3, SubSeqFull
  <2>5. SubSeq(path, 1, 1) = SubSeq(one, 1, 1)
    BY <1>2, <2>1, CutOff, Apart
  <2>. QED
    BY <2>2, <2>3, <2>4, <2>5
<1>6. Base(path) = Stars
  <2>1. path = Append(one, Stars)
    OBVIOUS
  <2>. QED
    BY <1>2, <2>1, BaseOfName, Apart
<1>. HIDE DEF path, one, other
<1>7. match(p, path)
  BY DEF path
<1>. SUFFICES match(p, other)
  BY DEF other
<1>8. CASE Len(words) = 1 /\ words[1] # Stars
  <2>1. 1 \in 1 .. Len(words)
    BY <1>8
  <2>2. words[1] # Nothing
    BY <2>1, SensibleWord
  <2>3. Stars \in Glob[words[1]] => x \in Glob[words[1]]
    BY <1>8, <2>1, SensibleWord
  <2>4. ~p.dirOnly
    BY <1>1, <1>7, <1>8, <2>2 DEF match, Stars
  <2>5. \A q : match(p, q) <=> Base(q) \in Glob[words[1]]
    BY <1>8, <2>4 DEF match, Stars
  <2>. QED
    BY <1>4, <1>6, <1>7, <2>3, <2>5
<1>9. CASE ~(Len(words) = 1 /\ words[1] # Stars) /\ ~p.dirOnly
  <2>1. \A q : match(p, q) <=> matchSegments(words, q)
    BY <1>9 DEF match, matchPathPattern, Stars
  <2>2. matchSegments(words, path)
    BY <1>7, <2>1
  <2>3. matchSegments(words, other)
    BY <1>1, <1>9, <2>2, RootSegments DEF other
  <2>. QED
    BY <2>1, <2>3
<1>10. CASE ~(Len(words) = 1 /\ words[1] # Stars) /\ p.dirOnly
  <2>1. \A q : match(p, q) <=> \E i \in 1 .. Len(q) : matchSegments(words, SubSeq(q, 1, i))
    BY <1>10 DEF match, matchPathPattern, Stars
  <2>2. PICK i \in 1 .. 2 : matchSegments(words, SubSeq(path, 1, i))
    BY <1>1, <1>7, <2>1
  <2>3. matchSegments(words, one) \/ matchSegments(words, path)
    <3>1. i = 1 \/ i = 2
      OBVIOUS
    <3>. QED
      BY <1>5, <2>2, <3>1
  <2>4. matchSegments(words, one) => matchSegments(words, other)
    BY <1>2, <1>10, RootSegments DEF other
  <2>5. matchSegments(words, path) => matchSegments(words, other)
    BY <1>1, <1>10, RootSegments DEF other
  <2>6. 1 \in 1 .. Len(other)
    BY <1>3
  <2>7. matchSegments(words, SubSeq(other, 1, 1))
    BY <1>5, <2>3, <2>4, <2>5
  <2>. QED
    BY <2>1, <2>6, <2>7
<1>. QED
  BY <1>8, <1>9, <1>10

-----------------------------------------------------------------------------
(* The patterns of a group, and the names of a tree *)

LEMMA Widen ==
    ASSUME NEW s \in Seq(STRING)
    PROVE  s \in Seq(Text)
  BY DEF Text

LEMMA Parsed ==
    ASSUME NEW raw \in [bang : BOOLEAN, words : Seq(STRING)]
    PROVE  /\ parsePattern(raw).segments \in Seq(Text)
           /\ parsePattern(raw).dirOnly \in BOOLEAN
           /\ parsePattern(raw).dirOnly <=> Len(raw.words) > 1 /\ Last(raw.words) = ""
           /\ parsePattern(raw).segments
                = IF parsePattern(raw).dirOnly THEN Front(raw.words) ELSE raw.words
           /\ parsePattern(raw).negate = raw.bang
<1>1. raw.words \in Seq(STRING)
  OBVIOUS
<1>2. raw.words \in Seq(Text)
  BY <1>1, Widen
<1>3. Len(raw.words) > 1 => Front(raw.words) \in Seq(Text)
  BY <1>2, FrontElements
<1>. QED
  BY <1>2, <1>3 DEF parsePattern

LEMMA Patterns ==
    ASSUME raws \in Seq(RawPatterns), NEW i \in DOMAIN patterns
    PROVE  /\ i \in DOMAIN raws /\ raws[i] \in [bang : BOOLEAN, words : Seq(STRING)]
           /\ patterns[i] = parsePattern(raws[i])
           /\ patterns[i].segments \in Seq(Text) /\ patterns[i].dirOnly \in BOOLEAN
<1>1. i \in DOMAIN raws /\ patterns[i] = parsePattern(raws[i])
  BY DEF patterns
<1>2. raws[i] \in RawPatterns
  BY <1>1, ElementOfSeq
<1>3. raws[i] \in [bang : BOOLEAN, words : Seq(STRING)]
  BY <1>2, TreeScanAssumption
<1>. QED
  BY <1>1, <1>3, Parsed

\* Without `!' one pattern that matches is enough.
LEMMA IgnoredIsMatched ==
    ASSUME raws \in Seq(RawPatterns), Plain, NEW path
    PROVE  Ignored(patterns, path) <=>
                path # <<>> /\ \E i \in DOMAIN patterns : match(patterns[i], path)
<1>. DEFINE n == Len(raws)
<1>1. DOMAIN patterns = 1 .. n /\ Len(patterns) = n /\ n \in Nat
  BY DEF patterns
<1>. HIDE DEF n
<1>2. \A i \in DOMAIN patterns : ~patterns[i].negate
  BY Patterns, Parsed DEF Plain
<1>. DEFINE S == {i \in DOMAIN patterns : match(patterns[i], path)}
<1>3. ASSUME S # {}
      PROVE  \E i \in DOMAIN patterns :
                /\ match(patterns[i], path) /\ ~patterns[i].negate
                /\ \A k \in i + 1 .. Len(patterns) : ~match(patterns[k], path)
  <2>1. \A k : k \in S <=> k \in DOMAIN patterns /\ match(patterns[k], path)
    OBVIOUS
  <2>. HIDE DEF S
  <2>2. \A k : k \in S <=> k \in 1 .. n /\ match(patterns[k], path)
    BY <1>1, <2>1
  <2>3. S \in SUBSET (0 .. n)
    <3>1. ASSUME NEW k \in S PROVE k \in 0 .. n
      <4>1. k \in 1 .. n
        BY <2>2
      <4>. QED
        BY <1>1, <4>1
    <3>. QED
      BY <3>1
  <2>4. PICK i \in S : \A k \in S : k <= i
    BY <1>1, <1>3, <2>3, GreatestOf
  <2>5. i \in 1 .. n /\ match(patterns[i], path)
    BY <2>2, <2>4
  <2>6. ASSUME NEW k \in i + 1 .. n PROVE ~match(patterns[k], path)
    <3>1. k \in 1 .. n /\ ~(k <= i)
      BY <1>1, <2>5
    <3>. QED
      BY <2>2, <2>4, <3>1
  <2>. QED
    BY <1>1, <1>2, <2>5, <2>6
<1>. QED
  BY <1>3 DEF Ignored

\* The directories above an entry are entries, and names are not empty.
LEMMA TreeNames ==
    ASSUME NEW i \in DOMAIN Tree, NEW n \in 1 .. Len(Tree[i].path)
    PROVE  /\ Tree[i].path \in Seq(Text) /\ Tree[i].path[n] \in Text
           /\ Tree[i].path[n] \in Names /\ Tree[i].path[n] # Nothing
           /\ \E k \in DOMAIN Tree :
                Tree[k].kind = "dir" /\ Tree[k].path = SubSeq(Tree[i].path, 1, n - 1)
<1>. DEFINE path == Tree[i].path
<1>1. path \in Seq(STRING)
  BY Entries
<1>2. path \in Seq(Text)
  BY <1>1, Widen
<1>3. path[n] \in Text
  BY <1>2, ElementOfSeq
<1>4. n \in DOMAIN path
  BY <1>1
<1>5. path[n] \in Names
  BY <1>4 DEF Names, Range
<1>6. path[n] # Nothing /\ [path |-> SubSeq(path, 1, n - 1), kind |-> "dir"] \in Range(Tree)
  BY <1>4, TreeScanAssumption DEF Nothing
<1>7. PICK k \in DOMAIN Tree : Tree[k] = [path |-> SubSeq(path, 1, n - 1), kind |-> "dir"]
  BY <1>6 DEF Range
<1>8. Tree[k].kind = "dir" /\ Tree[k].path = SubSeq(path, 1, n - 1)
  BY <1>7
<1>. QED
  BY <1>2, <1>3, <1>5, <1>6, <1>8

\* The next step from a directory to a file below it.
LEMMA NextStep ==
    ASSUME NEW i \in DOMAIN Tree, NEW k \in DOMAIN Tree, IsStrictPrefix(Tree[i].path, Tree[k].path)
    PROVE  LET d == Tree[i].path
               f == Tree[k].path
               x == f[Len(d) + 1]
           IN /\ d \in Seq(Text) /\ x \in Text /\ x \in Names /\ x # Nothing
              /\ Append(d, x) = f \/ \E e \in AllDirs : e = Append(d, x) /\ IsStrictPrefix(e, f)
<1>. DEFINE d == Tree[i].path
            f == Tree[k].path
            c == Len(d)
            x == f[c + 1]
            e == Append(d, x)
<1>1. d \in Seq(STRING) /\ f \in Seq(STRING)
  BY Entries
<1>2. d \in Seq(Text) /\ f \in Seq(Text)
  BY <1>1, Widen
<1>3. c < Len(f) /\ \A n \in 1 .. c : d[n] = f[n]
  BY <1>2, StrictByElements
<1>4. c \in Nat /\ Len(f) \in Nat
  BY <1>2
<1>5. c + 1 \in 1 .. Len(f)
  BY <1>3, <1>4
<1>6. x \in Text /\ x \in Names /\ x # Nothing
  BY <1>5, TreeNames
<1>. HIDE DEF d, f, x, c
<1>7. e \in Seq(Text) /\ Len(e) = c + 1 /\ (\A n \in 1 .. c : e[n] = d[n]) /\ e[c + 1] = x
  BY <1>2, <1>6, OneMore DEF c
<1>. HIDE DEF e
<1>8. \A n \in 1 .. c + 1 : e[n] = f[n]
  <2>1. \A n \in 1 .. c + 1 : n \in 1 .. c \/ n = c + 1
    BY <1>4
  <2>2. x = f[c + 1]
    BY DEF x
  <2>. QED
    BY <1>3, <1>7, <2>1, <2>2
<1>9. CASE Len(f) = c + 1
  <2>1. e = f
    BY <1>2, <1>7, <1>8, <1>9, SeqEqual
  <2>. QED
    BY <1>2, <1>6, <2>1 DEF d, f, x, c, e
<1>10. CASE Len(f) # c + 1
  <2>1. PICK j \in 1 .. Len(f) : j - 1 = c + 1
    <3>1. c + 2 \in 1 .. Len(f) /\ c + 2 - 1 = c + 1
      BY <1>3, <1>4, <1>10
    <3>. QED
      BY <1>4, <3>1
  <2>2. c + 1 < Len(f)
    BY <1>3, <1>4, <1>10
  <2>3. PICK n \in DOMAIN Tree : Tree[n].kind = "dir" /\ Tree[n].path = SubSeq(f, 1, j - 1)
    BY TreeNames DEF f
  <2>4. SubSeq(f, 1, c + 1) = e
    <3>. DEFINE u == SubSeq(f, 1, c + 1)
    <3>1. \A l \in 1 .. c + 1 : f[l] \in Text
      BY <1>2, <1>4, <1>5, ElementOfSeq
    <3>2. 1 \in Int /\ c + 1 \in Int /\ 1 <= c + 1 /\ c + 1 - 1 + 1 = c + 1
          /\ \A l \in 1 .. c + 1 : 1 + l - 1 = l
      BY <1>4
    <3>3. u \in Seq(Text) /\ Len(u) = c + 1 /\ \A l \in 1 .. c + 1 : u[l] = f[l]
      BY <3>1, <3>2, SubSeqProperties
    <3>. HIDE DEF u
    <3>4. u = e
      BY <1>7, <1>8, <3>3, SeqEqual
    <3>. QED
      BY <3>4 DEF u
  <2>5. Tree[n].path = e
    BY <2>1, <2>3, <2>4
  <2>6. e # <<>>
    BY <1>4, <1>7
  <2>7. e \in AllDirs
    BY <2>3, <2>5, <2>6 DEF AllDirs
  <2>8. IsStrictPrefix(e, f)
    BY <1>2, <1>7, <1>8, <2>2, StrictByElements
  <2>. QED
    BY <1>2, <1>6, <2>7, <2>8 DEF d, f, x, c, e
<1>. QED
  BY <1>9, <1>10

\* A directory that the walk skips is ignored, or what comes next on the way to
\* the file is.
LEMMA SkippedIsIgnored ==
    ASSUME raws \in Seq(RawPatterns), Plain,
           NEW i \in DOMAIN Tree, Tree[i].kind = "dir", SkipDir(Tree[i].path),
           NEW k \in DOMAIN Tree, IsStrictPrefix(Tree[i].path, Tree[k].path)
    PROVE  \/ Ignored(patterns, Tree[k].path)
           \/ \E e \in AllDirs : IsStrictPrefix(e, Tree[k].path) /\ Ignored(patterns, e)
<1>. DEFINE d == Tree[i].path
            f == Tree[k].path
            x == f[Len(d) + 1]
<1>1. /\ d \in Seq(Text) /\ x \in Text /\ x \in Names /\ x # Nothing
      /\ Append(d, x) = f \/ \E e \in AllDirs : e = Append(d, x) /\ IsStrictPrefix(e, f)
  BY NextStep
<1>2. d # <<>> => d \in AllDirs /\ Len(d) > 0 /\ d[Len(d)] # Nothing
  <2>. SUFFICES ASSUME d # <<>> PROVE d \in AllDirs /\ Len(d) > 0 /\ d[Len(d)] # Nothing
    OBVIOUS
  <2>1. d \in AllDirs
    BY DEF AllDirs
  <2>2. Len(d) \in Nat \ {0}
    BY <1>1, EmptySeq
  <2>3. Len(d) \in 1 .. Len(d)
    BY <2>2
  <2>4. d[Len(d)] # Nothing
    BY <2>3, TreeNames
  <2>. QED
    BY <2>1, <2>2, <2>4
<1>3. IsStrictPrefix(d, f) /\ SkipDir(d)
  OBVIOUS
<1>. HIDE DEF d, f, x
<1>. SUFFICES Ignored(patterns, d) \/ Ignored(patterns, Append(d, x))
  <2>1. Ignored(patterns, d) => d # <<>>
    BY DEF Ignored
  <2>. QED
    BY <1>1, <1>2, <1>3, <2>1 DEF f
<1>4. \A path : Ignored(patterns, path) <=>
        path # <<>> /\ \E j \in DOMAIN patterns : match(patterns[j], path)
  BY IgnoredIsMatched
<1>5. ASSUME NEW j \in DOMAIN patterns
      PROVE  /\ patterns[j].segments \in Seq(Text) /\ patterns[j].dirOnly \in BOOLEAN
             /\ Sensible(patterns[j].segments)
  BY Patterns DEF Plain
<1>6. Append(d, x) # <<>>
  BY <1>1
<1>7. CASE d # <<>> /\ \E y \in {Nothing, Stars} : Ignored(patterns, Append(d, y))
  <2>1. PICK y \in {Nothing, Stars} : Ignored(patterns, Append(d, y))
    BY <1>7
  <2>2. PICK j \in DOMAIN patterns : match(patterns[j], Append(d, y))
    BY <1>4, <2>1
  <2>3. match(patterns[j], d) \/ match(patterns[j], Append(d, x))
    BY <1>1, <1>2, <1>5, <1>7, <2>2, MatchKeeps, Apart
  <2>. QED
    BY <1>4, <1>6, <1>7, <2>3
<1>8. CASE d = <<>> /\ Ignored(patterns, <<Nothing, Stars>>)
  <2>1. PICK j \in DOMAIN patterns : match(patterns[j], <<Nothing, Stars>>)
    BY <1>4, <1>8
  <2>2. match(patterns[j], <<x>>)
    BY <1>1, <1>5, <2>1, RootKeeps
  <2>3. <<x>> = Append(d, x)
    BY <1>8
  <2>. QED
    BY <1>4, <1>6, <2>2, <2>3
<1>. QED
  BY <1>3, <1>7, <1>8 DEF SkipDir, Nothing, Stars

LEMMA WalkFinds ==
    ASSUME raws \in Seq(RawPatterns), WalkIsExact
    PROVE  ScanFindsFiles
<1>. SUFFICES ASSUME Scanned, Plain, NEW f \in AllFiles, Accepted(f)
              PROVE  (\A i \in DOMAIN Tree :
                        Tree[i].kind = "dir" /\ IsStrictPrefix(Tree[i].path, f)
                            => ~SkipDir(Tree[i].path))
                      <=> \A d \in AllDirs : IsStrictPrefix(d, f) => ~Ignored(patterns, d)
  BY DEF ScanFindsFiles, WalkIsExact
<1>1. PICK k \in DOMAIN Tree : f = Tree[k].path
  BY DEF AllFiles
<1>2. ASSUME NEW i \in DOMAIN Tree, Tree[i].kind = "dir", IsStrictPrefix(Tree[i].path, f),
             SkipDir(Tree[i].path)
      PROVE  \E d \in AllDirs : IsStrictPrefix(d, f) /\ Ignored(patterns, d)
  BY <1>1, <1>2, SkippedIsIgnored DEF Accepted
<1>3. ASSUME NEW d \in AllDirs, IsStrictPrefix(d, f), Ignored(patterns, d)
      PROVE  \E i \in DOMAIN Tree :
                Tree[i].kind = "dir" /\ IsStrictPrefix(Tree[i].path, f) /\ SkipDir(Tree[i].path)
  <2>1. PICK i \in DOMAIN Tree : Tree[i].kind = "dir" /\ Tree[i].path = d
    BY DEF AllDirs
  <2>. QED
    BY <1>3, <2>1 DEF SkipDir
<1>. QED
  BY <1>2, <1>3

\* What the walk finds is said by the patterns alone: it goes into every directory
\* that they do not name.
THEOREM ScansFindFiles == Spec => []ScanFindsFiles
<1>1. ScanInv => ScanFindsFiles
  BY ScanShows, WalkFinds DEF ScanInv
<1>. QED
  BY <1>1, Scanning, PTL

\* A pattern for directories that fits a directory fits what is below it.
LEMMA FitsBelow ==
    ASSUME raws \in Seq(RawPatterns), Plain, NEW i \in DOMAIN patterns, NamesDirs(raws[i]),
           NEW d \in Seq(Text), Len(d) > 0, NEW f \in Seq(Text), IsStrictPrefix(d, f),
           match(patterns[i], d)
    PROVE  match(patterns[i], f)
<1>. DEFINE raw == raws[i]
            p == patterns[i]
            words == p.segments
            c == Len(d)
<1>1. raw \in [bang : BOOLEAN, words : Seq(STRING)] /\ p = parsePattern(raw)
  BY Patterns
<1>2. words \in Seq(Text) /\ p.dirOnly \in BOOLEAN
  BY Patterns
<1>3. p.dirOnly <=> Len(raw.words) > 1 /\ Last(raw.words) = ""
  BY <1>1, Parsed
<1>4. words = IF p.dirOnly THEN Front(raw.words) ELSE raw.words
  BY <1>1, Parsed
<1>5. Sensible(words)
  BY Patterns DEF Plain
<1>6. raw.words \in Seq(Text) /\ Len(raw.words) > 1 /\ raw.words[1] # Stars
  BY <1>1, Widen DEF NamesDirs, Stars
<1>7. c \in Nat /\ c > 0 /\ c < Len(f) /\ Len(f) \in Nat /\ \A n \in 1 .. c : d[n] = f[n]
  BY StrictByElements
<1>. HIDE DEF c
<1>8. CASE p.dirOnly
  <2>1. words[1] # Stars
    BY <1>4, <1>6, <1>8, FrontElements
  <2>2. CASE Len(words) = 1
    <3>1. \A q : match(p, q) <=> q[1] = words[1]
      BY <1>8, <2>1, <2>2 DEF match, Stars
    <3>2. d[1] = f[1]
      BY <1>7
    <3>. QED
      BY <3>1, <3>2
  <2>3. CASE Len(words) # 1
    <3>1. \A q : match(p, q) <=> \E n \in 1 .. Len(q) : matchSegments(words, SubSeq(q, 1, n))
      BY <1>8, <2>3 DEF match, matchPathPattern
    <3>2. PICK n \in 1 .. c : matchSegments(words, SubSeq(d, 1, n))
      BY <3>1 DEF c
    <3>3. n \in 1 .. Len(f)
      BY <1>7
    <3>4. SubSeq(d, 1, n) = SubSeq(f, 1, n)
      <4>. DEFINE u == SubSeq(d, 1, n)
                  v == SubSeq(f, 1, n)
      <4>1. 1 \in Int /\ n \in Int /\ 1 <= n /\ n - 1 + 1 = n /\ \A k \in 1 .. n : 1 + k - 1 = k
        BY <1>7
      <4>2. \A k \in 1 .. n : d[k] \in Text /\ f[k] \in Text /\ d[k] = f[k]
        <5>1. ASSUME NEW k \in 1 .. n PROVE k \in 1 .. c /\ k \in 1 .. Len(f)
          BY <1>7
        <5>. QED
          BY <1>7, <5>1, ElementOfSeq DEF c
      <4>3. u \in Seq(Text) /\ Len(u) = n /\ \A k \in 1 .. n : u[k] = d[k]
        BY <4>1, <4>2, SubSeqProperties
      <4>4. v \in Seq(Text) /\ Len(v) = n /\ \A k \in 1 .. n : v[k] = f[k]
        BY <4>1, <4>2, SubSeqProperties
      <4>. HIDE DEF u, v
      <4>5. u = v
        BY <4>2, <4>3, <4>4, SeqEqual
      <4>. QED
        BY <4>5 DEF u, v
    <3>. QED
      BY <3>1, <3>2, <3>3, <3>4
  <2>. QED
    BY <2>2, <2>3
<1>9. CASE ~p.dirOnly
  <2>1. words = raw.words
    BY <1>4, <1>9
  <2>2. words[Len(words)] = Stars
    <3>1. Last(raw.words) # ""
      BY <1>3, <1>6, <1>9
    <3>2. Last(raw.words) = "**"
      BY <3>1 DEF NamesDirs
    <3>. QED
      BY <2>1, <3>2 DEF Last, Stars
  <2>. DEFINE prefix == Front(words)
  <2>3. prefix \in Seq(Text) /\ Len(prefix) = Len(words) - 1
    BY <1>6, <2>1, FrontElements
  <2>. DEFINE n == Len(words)
  <2>4. n \in Nat /\ n > 1 /\ Len(prefix) = n - 1
    BY <1>2, <1>6, <2>1, <2>3
  <2>. HIDE DEF prefix, n
  <2>5. Len(prefix) > 0 /\ n # 1
    BY <2>4
  <2>6. \A q : match(p, q) <=> matchSegments(words, q)
    <3>1. Len(words) # 1
      BY <2>5 DEF n
    <3>. QED
      BY <1>9, <3>1 DEF match, matchPathPattern
  <2>7. \A q : matchSegments(words, q) <=> UnderPrefix(prefix, q)
    BY <1>2, <1>6, <2>1, <2>2, SegmentCases DEF prefix
  <2>8. UnderPrefix(prefix, d)
    BY <2>6, <2>7
  <2>9. c = Len(d) /\ c <= Len(d) /\ Len(d) <= c + 1 /\ Len(d) <= Len(f) /\ Len(d) # c + 1
    BY <1>7 DEF c
  <2>10. UnderPrefix(prefix, f)
    BY <1>7, <2>3, <2>5, <2>8, <2>9, PrefixStays
  <2>. QED
    BY <2>6, <2>7, <2>10
<1>. QED
  BY <1>2, <1>8, <1>9

LEMMA FiltersAgree ==
    ASSUME raws \in Seq(RawPatterns), ScanFindsFiles
    PROVE  HiddenIsRefused
<1>. SUFFICES ASSUME Scanned, Plain, \A i \in DOMAIN raws : NamesFiles(raws[i]) \/ NamesDirs(raws[i]),
                     NEW f \in AllFiles, NEW d \in AllDirs, IsStrictPrefix(d, f),
                     Ignored(patterns, d)
              PROVE  Ignored(patterns, f)
  BY DEF HiddenIsRefused, ScanFindsFiles, Accepted
<1>1. PICK k \in DOMAIN Tree : f = Tree[k].path
  BY DEF AllFiles
<1>2. PICK j \in DOMAIN Tree : d = Tree[j].path
  BY DEF AllDirs
<1>3. f \in Seq(Text) /\ d \in Seq(Text)
  BY <1>1, <1>2, Entries, Widen
<1>4. d # <<>> /\ Len(d) \in Nat /\ Len(d) > 0
  <2>1. d # <<>>
    BY DEF AllDirs
  <2>. QED
    BY <1>3, <2>1, EmptySeq
<1>5. f # <<>>
  <2>1. Len(d) < Len(f)
    BY <1>3, StrictByElements
  <2>. QED
    BY <1>4, <2>1
<1>6. d[Len(d)] # Nothing
  <2>1. Len(d) \in 1 .. Len(d)
    BY <1>4
  <2>. QED
    BY <1>2, <2>1, TreeNames
<1>7. PICK i \in DOMAIN patterns : match(patterns[i], d)
  BY IgnoredIsMatched
<1>8. i \in DOMAIN raws /\ raws[i] \in [bang : BOOLEAN, words : Seq(STRING)]
  BY Patterns
<1>9. ~NamesFiles(raws[i])
  <2>. SUFFICES ASSUME NamesFiles(raws[i]) PROVE FALSE
    OBVIOUS
  <2>. DEFINE words == raws[i].words
  <2>1. Len(words) = 1 /\ words # <<"**">> /\ Last(d) \notin Glob[words[1]]
    BY DEF NamesFiles
  <2>2. words \in Seq(Text)
    BY <1>8, Widen
  <2>3. ~patterns[i].dirOnly /\ patterns[i].segments = words
    <3>1. patterns[i] = parsePattern(raws[i])
      BY Patterns
    <3>2. patterns[i].dirOnly => Len(words) > 1
      BY <1>8, <3>1, Parsed
    <3>3. patterns[i].segments = IF patterns[i].dirOnly THEN Front(words) ELSE words
      BY <1>8, <3>1, Parsed
    <3>4. ~(Len(words) > 1)
      BY <2>1
    <3>. QED
      BY <3>2, <3>3, <3>4
  <2>. HIDE DEF words
  <2>4. words[1] # Stars
    <3>. SUFFICES ASSUME words[1] = Stars PROVE words = <<Stars>>
      BY <2>1 DEF Stars
    <3>. DEFINE one == <<Stars>>
    <3>1. one \in Seq(Text) /\ Len(one) = 1 /\ one[1] = Stars
      BY Apart
    <3>. HIDE DEF one
    <3>2. words = one
      BY <2>1, <2>2, <3>1, SeqEqual
    <3>. QED
      BY <3>2 DEF one
  <2>5. Base(d) \in Glob[words[1]]
    BY <1>7, <2>1, <2>3, <2>4 DEF match, Stars
  <2>6. Base(d) = Last(d)
    BY <1>6 DEF Base, Last, Nothing
  <2>. QED
    BY <2>1, <2>5, <2>6
<1>10. match(patterns[i], f)
  BY <1>3, <1>4, <1>7, <1>8, <1>9, FitsBelow
<1>. QED
  BY <1>5, <1>10, IgnoredIsMatched

\* The walk and the filters hide the same files.
THEOREM HiddenAreRefused == Spec => []HiddenIsRefused
<1>1. ScanInv => HiddenIsRefused
  BY ScanShows, WalkFinds, FiltersAgree DEF ScanInv
<1>. QED
  BY <1>1, Scanning, PTL

-----------------------------------------------------------------------------
(* What a pattern means *)

\* Each of the names j .. m has its word among the words i .. n.
Carries(word, words, path, n, m, i, j) ==
    /\ \A x, y \in j .. m : x <= y => word[x] <= word[y]
    /\ \A x \in j .. m : words[word[x]] # Stars => path[x] \in Glob[words[word[x]]]
    /\ \A w \in i .. n : words[w] # Stars => \E x \in j .. m : word[x] = w
    /\ \A x, y \in j .. m : x # y /\ word[x] = word[y] => words[word[x]] = Stars

FitsFrom(words, path, n, m, i, j) ==
    \E word \in [j .. m -> i .. n] : Carries(word, words, path, n, m, i, j)

LEMMA NoNames ==
    ASSUME NEW words, NEW path, NEW n \in Nat, NEW m \in Nat, NEW i \in 1 .. n + 1
    PROVE  FitsFrom(words, path, n, m, i, m + 1) <=> \A w \in i .. n : words[w] = Stars
<1>. DEFINE word == [x \in m + 1 .. m |-> i]
<1>1. \A x \in m + 1 .. m : FALSE
  OBVIOUS
<1>2. word \in [m + 1 .. m -> i .. n]
  BY <1>1
<1>. HIDE DEF word
<1>3. (\A w \in i .. n : words[w] = Stars) => Carries(word, words, path, n, m, i, m + 1)
  BY <1>1 DEF Carries
<1>4. ASSUME NEW u \in [m + 1 .. m -> i .. n], Carries(u, words, path, n, m, i, m + 1)
      PROVE  \A w \in i .. n : words[w] = Stars
  BY <1>1, <1>4 DEF Carries
<1>. QED
  BY <1>2, <1>3, <1>4 DEF FitsFrom

LEMMA NoWords ==
    ASSUME NEW words, NEW path, NEW n \in Nat, NEW m \in Nat, NEW j \in 1 .. m + 1
    PROVE  FitsFrom(words, path, n, m, n + 1, j) <=> j = m + 1
<1>1. ASSUME j # m + 1, NEW word \in [j .. m -> n + 1 .. n] PROVE FALSE
  <2>1. j \in j .. m
    BY <1>1
  <2>2. word[j] \in n + 1 .. n
    BY <2>1
  <2>. QED
    BY <2>2
<1>2. FitsFrom(words, path, n, m, n + 1, m + 1)
  <2>1. n + 1 \in 1 .. n + 1 /\ \A w \in n + 1 .. n : FALSE
    OBVIOUS
  <2>. QED
    BY <2>1, NoNames
<1>. QED
  BY <1>1, <1>2 DEF FitsFrom

\* A word that is not `**' has the first name.
LEMMA NameFits ==
    ASSUME NEW words, NEW path, NEW n \in Nat, NEW m \in Nat, NEW i \in 1 .. n, NEW j \in 1 .. m,
           words[i] # Stars
    PROVE  FitsFrom(words, path, n, m, i, j)
            <=> path[j] \in Glob[words[i]] /\ FitsFrom(words, path, n, m, i + 1, j + 1)
<1>1. ASSUME FitsFrom(words, path, n, m, i, j)
      PROVE  path[j] \in Glob[words[i]] /\ FitsFrom(words, path, n, m, i + 1, j + 1)
  <2>1. PICK word \in [j .. m -> i .. n] : Carries(word, words, path, n, m, i, j)
    BY <1>1 DEF FitsFrom
  <2>2. PICK x \in j .. m : word[x] = i
    <3>1. i \in i .. n
      OBVIOUS
    <3>. QED
      BY <2>1, <3>1 DEF Carries
  <2>3. j \in j .. m /\ word[j] \in i .. n /\ word[j] <= word[x]
    <3>1. j \in j .. m /\ j <= x
      OBVIOUS
    <3>. QED
      BY <2>1, <3>1 DEF Carries
  <2>4. word[j] = i
    BY <2>2, <2>3
  <2>5. path[j] \in Glob[words[i]]
    BY <2>1, <2>3, <2>4 DEF Carries
  <2>6. \A y \in j + 1 .. m : y \in j .. m /\ y # j
    OBVIOUS
  <2>7. ASSUME NEW y \in j + 1 .. m PROVE word[y] \in i + 1 .. n
    <3>1. word[y] \in i .. n
      BY <2>6
    <3>2. word[y] # i
      BY <2>1, <2>3, <2>4, <2>6 DEF Carries
    <3>. QED
      BY <3>1, <3>2
  <2>. DEFINE rest == [y \in j + 1 .. m |-> word[y]]
  <2>8. rest \in [j + 1 .. m -> i + 1 .. n] /\ \A y \in j + 1 .. m : rest[y] = word[y]
    BY <2>7
  <2>. HIDE DEF rest
  <2>9. ASSUME NEW w \in i + 1 .. n, words[w] # Stars PROVE \E y \in j + 1 .. m : rest[y] = w
    <3>1. w \in i .. n /\ w # i
      OBVIOUS
    <3>2. PICK y \in j .. m : word[y] = w
      BY <2>1, <2>9, <3>1 DEF Carries
    <3>3. y # j
      BY <2>4, <3>1, <3>2
    <3>4. y \in j + 1 .. m
      BY <3>3
    <3>. QED
      BY <2>8, <3>2, <3>4
  <2>10. Carries(rest, words, path, n, m, i + 1, j + 1)
    BY <2>1, <2>6, <2>8, <2>9 DEF Carries
  <2>. QED
    BY <2>5, <2>8, <2>10 DEF FitsFrom
<1>2. ASSUME path[j] \in Glob[words[i]], FitsFrom(words, path, n, m, i + 1, j + 1)
      PROVE  FitsFrom(words, path, n, m, i, j)
  <2>1. PICK rest \in [j + 1 .. m -> i + 1 .. n] : Carries(rest, words, path, n, m, i + 1, j + 1)
    BY <1>2 DEF FitsFrom
  <2>. DEFINE word == [y \in j .. m |-> IF y = j THEN i ELSE rest[y]]
  <2>2. \A y \in j .. m : y = j \/ y \in j + 1 .. m
    OBVIOUS
  <2>3. \A y \in j + 1 .. m : rest[y] \in i + 1 .. n
    OBVIOUS
  <2>4. word \in [j .. m -> i .. n]
    BY <2>2, <2>3
  <2>5. word[j] = i /\ \A y \in j + 1 .. m : word[y] = rest[y]
    OBVIOUS
  <2>. HIDE DEF word
  <2>6. \A x, y \in j .. m : x <= y => word[x] <= word[y]
    <3>1. \A x, y \in j + 1 .. m : x <= y => rest[x] <= rest[y]
      BY <2>1 DEF Carries
    <3>. QED
      BY <2>2, <2>3, <2>5, <3>1
  <2>7. \A x \in j .. m : words[word[x]] # Stars => path[x] \in Glob[words[word[x]]]
    <3>1. \A x \in j + 1 .. m : words[rest[x]] # Stars => path[x] \in Glob[words[rest[x]]]
      BY <2>1 DEF Carries
    <3>. QED
      BY <1>2, <2>2, <2>5, <3>1
  <2>8. ASSUME NEW w \in i .. n, words[w] # Stars PROVE \E x \in j .. m : word[x] = w
    <3>1. CASE w = i
      BY <2>5, <3>1
    <3>2. CASE w # i
      <4>1. w \in i + 1 .. n
        BY <3>2
      <4>2. PICK x \in j + 1 .. m : rest[x] = w
        BY <2>1, <2>8, <4>1 DEF Carries
      <4>3. x \in j .. m
        OBVIOUS
      <4>. QED
        BY <2>5, <4>2, <4>3
    <3>. QED
      BY <3>1, <3>2
  <2>9. ASSUME NEW x \in j .. m, NEW y \in j .. m, x # y, word[x] = word[y]
        PROVE  words[word[x]] = Stars
    <3>1. x # j /\ y # j
      BY <2>2, <2>3, <2>5, <2>9
    <3>2. x \in j + 1 .. m /\ y \in j + 1 .. m
      BY <2>2, <3>1
    <3>. QED
      BY <2>1, <2>5, <2>9, <3>2 DEF Carries
  <2>10. Carries(word, words, path, n, m, i, j)
    BY <2>6, <2>7, <2>8, <2>9 DEF Carries
  <2>. QED
    BY <2>4, <2>10 DEF FitsFrom
<1>. QED
  BY <1>1, <1>2

\* `**' has all the names before those of the next word.
LEMMA StarsFit ==
    ASSUME NEW words, NEW path, NEW n \in Nat, NEW m \in Nat, NEW i \in 1 .. n, NEW j \in 1 .. m,
           words[i] = Stars
    PROVE  FitsFrom(words, path, n, m, i, j)
            <=> i = n \/ \E k \in j .. m + 1 : FitsFrom(words, path, n, m, i + 1, k)
<1>1. ASSUME FitsFrom(words, path, n, m, i, j), i # n
      PROVE  \E k \in j .. m + 1 : FitsFrom(words, path, n, m, i + 1, k)
  <2>1. PICK word \in [j .. m -> i .. n] : Carries(word, words, path, n, m, i, j)
    BY <1>1 DEF FitsFrom
  <2>. DEFINE S == {k \in j .. m + 1 : k = m + 1 \/ word[k] # i}
  <2>2. S \in SUBSET Nat /\ m + 1 \in S
    OBVIOUS
  <2>3. PICK k \in S : \A y \in S : k <= y
    <3>. HIDE DEF S
    <3>. QED
      BY <2>2, LeastOf
  <2>4. \A y \in k .. m : y \in j .. m
    OBVIOUS
  <2>5. \A x, y \in j .. m : x <= y => word[x] <= word[y]
    BY <2>1 DEF Carries
  <2>6. ASSUME NEW y \in k .. m PROVE word[y] \in i + 1 .. n
    <3>1. k \in j .. m /\ word[k] # i /\ k <= y /\ y \in j .. m
      BY <2>6
    <3>2. word[k] \in i .. n /\ word[y] \in i .. n /\ word[k] <= word[y]
      BY <2>5, <3>1
    <3>. QED
      BY <3>1, <3>2
  <2>. DEFINE rest == [y \in k .. m |-> word[y]]
  <2>7. rest \in [k .. m -> i + 1 .. n] /\ \A y \in k .. m : rest[y] = word[y]
    BY <2>6
  <2>. HIDE DEF rest
  <2>8. ASSUME NEW w \in i + 1 .. n, words[w] # Stars PROVE \E y \in k .. m : rest[y] = w
    <3>1. w \in i .. n /\ w # i
      OBVIOUS
    <3>2. PICK y \in j .. m : word[y] = w
      BY <2>1, <2>8, <3>1 DEF Carries
    <3>3. y \in S
      BY <3>1, <3>2
    <3>4. y \in k .. m
      BY <2>3, <3>3
    <3>. QED
      BY <2>7, <3>2, <3>4
  <2>9. Carries(rest, words, path, n, m, i + 1, k)
    BY <2>1, <2>4, <2>7, <2>8 DEF Carries
  <2>. QED
    BY <2>7, <2>9 DEF FitsFrom
<1>2. ASSUME i = n PROVE FitsFrom(words, path, n, m, i, j)
  <2>. DEFINE word == [y \in j .. m |-> i]
  <2>1. word \in [j .. m -> i .. n] /\ \A y \in j .. m : word[y] = i
    BY <1>2
  <2>2. \A w \in i .. n : words[w] = Stars
    BY <1>2
  <2>. HIDE DEF word
  <2>3. Carries(word, words, path, n, m, i, j)
    BY <2>1, <2>2 DEF Carries
  <2>. QED
    BY <2>1, <2>3 DEF FitsFrom
<1>3. ASSUME NEW k \in j .. m + 1, FitsFrom(words, path, n, m, i + 1, k)
      PROVE  FitsFrom(words, path, n, m, i, j)
  <2>1. PICK rest \in [k .. m -> i + 1 .. n] : Carries(rest, words, path, n, m, i + 1, k)
    BY <1>3 DEF FitsFrom
  <2>. DEFINE word == [y \in j .. m |-> IF y < k THEN i ELSE rest[y]]
  <2>2. \A y \in j .. m : ~(y < k) => y \in k .. m
    OBVIOUS
  <2>3. \A y \in k .. m : rest[y] \in i + 1 .. n
    OBVIOUS
  <2>4. word \in [j .. m -> i .. n]
    BY <2>2, <2>3
  <2>5. \A y \in j .. m : word[y] = IF y < k THEN i ELSE rest[y]
    OBVIOUS
  <2>. HIDE DEF word
  <2>6. ASSUME NEW x \in j .. m, NEW y \in j .. m, x <= y PROVE word[x] <= word[y]
    <3>1. CASE x < k
      <4>1. word[x] = i /\ word[y] \in i .. n
        BY <2>4, <2>5, <3>1
      <4>. QED
        BY <4>1
    <3>2. CASE ~(x < k)
      <4>1. x \in k .. m /\ y \in k .. m /\ ~(y < k)
        BY <2>6, <3>2
      <4>2. rest[x] <= rest[y]
        BY <2>1, <2>6, <4>1 DEF Carries
      <4>. QED
        BY <2>5, <3>2, <4>1, <4>2
    <3>. QED
      BY <3>1, <3>2
  <2>7. ASSUME NEW x \in j .. m, words[word[x]] # Stars PROVE path[x] \in Glob[words[word[x]]]
    <3>1. ~(x < k) /\ word[x] = rest[x]
      BY <2>5, <2>7
    <3>2. x \in k .. m
      BY <2>2, <3>1
    <3>. QED
      BY <2>1, <2>7, <3>1, <3>2 DEF Carries
  <2>8. ASSUME NEW w \in i .. n, words[w] # Stars PROVE \E x \in j .. m : word[x] = w
    <3>1. w \in i + 1 .. n
      BY <2>8
    <3>2. PICK x \in k .. m : rest[x] = w
      BY <2>1, <2>8, <3>1 DEF Carries
    <3>3. x \in j .. m /\ ~(x < k)
      OBVIOUS
    <3>. QED
      BY <2>5, <3>2, <3>3
  <2>9. ASSUME NEW x \in j .. m, NEW y \in j .. m, x # y, word[x] = word[y]
        PROVE  words[word[x]] = Stars
    <3>1. CASE x < k
      BY <2>5, <3>1
    <3>2. CASE y < k
      BY <2>5, <2>9, <3>2
    <3>3. CASE ~(x < k) /\ ~(y < k)
      <4>1. x \in k .. m /\ y \in k .. m /\ word[x] = rest[x] /\ word[y] = rest[y]
        BY <2>2, <2>5, <3>3
      <4>. QED
        BY <2>1, <2>9, <4>1 DEF Carries
    <3>. QED
      BY <3>1, <3>2, <3>3
  <2>10. Carries(word, words, path, n, m, i, j)
    BY <2>6, <2>7, <2>8, <2>9 DEF Carries
  <2>. QED
    BY <2>4, <2>10 DEF FitsFrom
<1>. QED
  BY <1>1, <1>2, <1>3

\* matchSegmentsFlexible finds out whether the names fit the words.
LEMMA FlexibleFits ==
    ASSUME NEW words \in Seq(Text), NEW path \in Seq(Text)
    PROVE  matchSegmentsFlexible(words, path) <=> Fits(words, path)
<1>. DEFINE n == Len(words)
            m == Len(path)
            F(i, j) == FitsFrom(words, path, n, m, i, j)
<1>1. n \in Nat /\ m \in Nat /\ DOMAIN words = 1 .. n /\ DOMAIN path = 1 .. m
  OBVIOUS
<1>2. PICK T : RightFrom(T, words, path, 1) /\ matchSegmentsFlexible(words, path) = T[1][1]
  BY Flexible
<1>3. /\ \A i \in 1 .. n + 1, j \in 1 .. m + 1 : T[i][j] = Cell(T, words, path, i, j)
      /\ \A i \in 1 .. n + 1, j \in 1 .. m + 1 : T[i][j] \in BOOLEAN
  <2>1. \A i \in 1 .. n + 1, j \in 1 .. m + 1 : i >= 1 => T[i][j] = Cell(T, words, path, i, j)
    BY <1>2, Zenon DEF RightFrom
  <2>2. T \in [1 .. n + 1 -> [1 .. m + 1 -> BOOLEAN]]
    BY <1>2, Zenon DEF RightFrom, Tables
  <2>. HIDE DEF n, m
  <2>3. \A i \in 1 .. n + 1 : i >= 1
    BY <1>1
  <2>. QED
    BY <2>1, <2>2, <2>3
<1>4. \A i, j : Cell(T, words, path, i, j) <=>
        IF i > n \/ j > m
        THEN j = m + 1 /\ \A k \in i .. n : words[k] = Stars
        ELSE IF words[i] = Stars THEN i = n \/ \E k \in j .. m + 1 : T[i + 1][k]
             ELSE path[j] \in Glob[words[i]] /\ T[i + 1][j + 1]
  BY Zenon DEF Cell, Stars
<1>. DEFINE S == {i \in 1 .. n + 1 : \A j \in 1 .. m + 1 : T[i][j] <=> F(i, j)}
<1>. HIDE DEF n, m
<1>5. n + 1 \in S
  <2>1. ASSUME NEW j \in 1 .. m + 1 PROVE T[n + 1][j] <=> F(n + 1, j)
    <3>1. Cell(T, words, path, n + 1, j) <=> j = m + 1
      BY <1>1, <1>4
    <3>2. F(n + 1, j) <=> j = m + 1
      BY <1>1, NoWords
    <3>. QED
      BY <1>1, <1>3, <3>1, <3>2
  <2>. QED
    BY <1>1, <2>1
<1>6. ASSUME NEW i \in 1 .. n, i + 1 \in S PROVE i \in S
  <2>1. ASSUME NEW j \in 1 .. m + 1 PROVE T[i][j] <=> F(i, j)
    <3>1. T[i][j] <=> Cell(T, words, path, i, j)
      BY <1>1, <1>3
    <3>2. CASE j = m + 1
      <4>1. Cell(T, words, path, i, j) <=> \A k \in i .. n : words[k] = Stars
        BY <1>1, <1>4, <3>2
      <4>2. F(i, j) <=> \A k \in i .. n : words[k] = Stars
        BY <1>1, <3>2, NoNames
      <4>. QED
        BY <3>1, <4>1, <4>2
    <3>3. CASE j # m + 1
      <4>1. j \in 1 .. m /\ ~(i > n) /\ ~(j > m)
        BY <1>1, <3>3
      <4>2. CASE words[i] = Stars
        <5>1. Cell(T, words, path, i, j) <=> i = n \/ \E k \in j .. m + 1 : T[i + 1][k]
          BY <1>4, <4>1, <4>2
        <5>2. \A k \in j .. m + 1 : T[i + 1][k] <=> F(i + 1, k)
          BY <1>1, <1>6
        <5>3. F(i, j) <=> i = n \/ \E k \in j .. m + 1 : F(i + 1, k)
          BY <1>1, <4>1, <4>2, StarsFit
        <5>. QED
          BY <3>1, <5>1, <5>2, <5>3
      <4>3. CASE words[i] # Stars
        <5>1. Cell(T, words, path, i, j) <=> path[j] \in Glob[words[i]] /\ T[i + 1][j + 1]
          BY <1>4, <4>1, <4>3
        <5>2. T[i + 1][j + 1] <=> F(i + 1, j + 1)
          BY <1>1, <1>6, <4>1
        <5>3. F(i, j) <=> path[j] \in Glob[words[i]] /\ F(i + 1, j + 1)
          BY <1>1, <4>1, <4>3, NameFits
        <5>. QED
          BY <3>1, <5>1, <5>2, <5>3
      <4>. QED
        BY <4>2, <4>3
    <3>. QED
      BY <3>2, <3>3
  <2>. QED
    BY <1>1, <2>1
<1>7. 1 \in S
  <2>. HIDE DEF S
  <2>1. \A i \in 1 .. n + 1 : i \in S
    BY <1>1, <1>5, <1>6, Downwards
  <2>. QED
    BY <1>1, <2>1
<1>8. T[1][1] <=> F(1, 1)
  BY <1>1, <1>7
<1>9. F(1, 1) <=> Fits(words, path)
  BY <1>1 DEF FitsFrom, Carries, Fits, Stars
<1>. QED
  BY <1>2, <1>8, <1>9

\* With as many words as names, what follows the first `**' is not looked at.
TakesMore(words, path) ==
    /\ Len(words) = Len(path)
    /\ \E w \in DOMAIN words :
          words[w] = "**" /\ \A i \in 1 .. w - 1 : path[i] \in Glob[words[i]]

\* As many names as words: either every word has its name, or what follows `**'
\* is not looked at.
LEMMA SameLength ==
    ASSUME NEW words \in Seq(Text), NEW path \in Seq(Text), Len(words) = Len(path)
    PROVE  NameByName(words, path) <=> Fits(words, path) \/ TakesMore(words, path)
<1>. DEFINE n == Len(words)
            W == {w \in 1 .. n + 1 : w = n + 1 \/ words[w] = Stars}
<1>1. n \in Nat /\ DOMAIN words = 1 .. n /\ DOMAIN path = 1 .. n
  OBVIOUS
<1>2. NameByName(words, path) <=>
        \A i \in 1 .. n : (\E k \in 1 .. i : words[k] = Stars) \/ path[i] \in Glob[words[i]]
  BY DEF NameByName, Stars
<1>3. TakesMore(words, path) <=>
        \E w \in 1 .. n : words[w] = Stars /\ \A i \in 1 .. w - 1 : path[i] \in Glob[words[i]]
  BY <1>1 DEF TakesMore, Stars
<1>4. Fits(words, path) <=> FitsFrom(words, path, n, n, 1, 1)
  BY <1>1 DEF Fits, FitsFrom, Carries, Stars
<1>. HIDE DEF n
<1>5. PICK w \in W : \A v \in W : w <= v
  <2>1. n + 1 \in W /\ W \in SUBSET Nat
    BY <1>1
  <2>. HIDE DEF W
  <2>. QED
    BY <2>1, LeastOf
<1>6. w \in 1 .. n + 1 /\ (w # n + 1 => w \in 1 .. n /\ words[w] = Stars)
  BY <1>1
<1>7. \A i \in 1 .. w - 1 : i \in 1 .. n /\ words[i] # Stars
  <2>1. ASSUME NEW i \in 1 .. w - 1 PROVE i \in 1 .. n /\ words[i] # Stars
    <3>1. i \in 1 .. n /\ ~(w <= i)
      BY <1>1, <1>6
    <3>2. i \notin W
      BY <1>5, <3>1
    <3>. QED
      BY <1>1, <3>1, <3>2
  <2>. QED
    BY <2>1
<1>. HIDE DEF W
<1>8. ASSUME NameByName(words, path) PROVE Fits(words, path) \/ TakesMore(words, path)
  <2>1. ASSUME NEW i \in 1 .. w - 1 PROVE path[i] \in Glob[words[i]]
    <3>1. i \in 1 .. n /\ \A k \in 1 .. i : k \in 1 .. w - 1
      BY <1>6, <1>7
    <3>2. ~\E k \in 1 .. i : words[k] = Stars
      BY <1>7, <3>1
    <3>. QED
      BY <1>2, <1>8, <3>1, <3>2
  <2>2. CASE w # n + 1
    BY <1>3, <1>6, <2>1, <2>2
  <2>3. CASE w = n + 1
    <3>. DEFINE word == [i \in 1 .. n |-> i]
    <3>1. word \in [1 .. n -> 1 .. n] /\ \A i \in 1 .. n : word[i] = i
      OBVIOUS
    <3>. HIDE DEF word
    <3>2. \A i \in 1 .. n : path[i] \in Glob[words[i]]
      BY <1>1, <2>1, <2>3
    <3>3. Carries(word, words, path, n, n, 1, 1)
      BY <3>1, <3>2 DEF Carries
    <3>. QED
      BY <1>4, <3>1, <3>3 DEF FitsFrom
  <2>. QED
    BY <2>2, <2>3
<1>9. ASSUME TakesMore(words, path) PROVE NameByName(words, path)
  <2>1. PICK v \in 1 .. n : words[v] = Stars /\ \A i \in 1 .. v - 1 : path[i] \in Glob[words[i]]
    BY <1>3, <1>9
  <2>2. ASSUME NEW i \in 1 .. n PROVE (\E k \in 1 .. i : words[k] = Stars) \/ path[i] \in Glob[words[i]]
    <3>1. i \in 1 .. v - 1 \/ v \in 1 .. i
      BY <1>1
    <3>. QED
      BY <2>1, <3>1
  <2>. QED
    BY <1>2, <2>2
<1>10. ASSUME Fits(words, path) PROVE NameByName(words, path)
  <2>1. PICK word \in [1 .. n -> 1 .. n] : Carries(word, words, path, n, n, 1, 1)
    BY <1>4, <1>10 DEF FitsFrom
  <2>. DEFINE B == {i \in 1 .. w - 1 : word[i] # i}
  <2>2. B = {}
    <3>. SUFFICES ASSUME B # {} PROVE FALSE
      OBVIOUS
    <3>1. PICK i \in B : \A k \in B : i <= k
      <4>1. B \in SUBSET Nat
        OBVIOUS
      <4>. HIDE DEF B
      <4>. QED
        BY <4>1, LeastOf
    <3>2. i \in 1 .. w - 1 /\ word[i] # i /\ i \in 1 .. n /\ words[i] # Stars /\ word[i] \in 1 .. n
      BY <1>7
    <3>3. ASSUME NEW k \in 1 .. i - 1
          PROVE  k \in 1 .. n /\ word[k] = k /\ words[k] # Stars /\ k < i
      <4>1. k \in 1 .. w - 1 /\ ~(i <= k) /\ k < i
        BY <1>6, <3>2
      <4>2. k \notin B
        BY <3>1, <4>1
      <4>. QED
        BY <1>7, <4>1, <4>2
    <3>4. ~(word[i] < i)
      <4>. SUFFICES ASSUME word[i] < i PROVE FALSE
        OBVIOUS
      <4>. DEFINE k == word[i]
      <4>1. k \in 1 .. i - 1 /\ word[i] = k
        BY <3>2
      <4>. HIDE DEF k
      <4>2. word[k] = k /\ words[k] # Stars /\ k # i /\ k \in 1 .. n
        BY <3>2, <3>3, <4>1
      <4>3. words[word[i]] = Stars
        BY <2>1, <3>2, <4>1, <4>2 DEF Carries
      <4>. QED
        BY <4>1, <4>2, <4>3
    <3>5. PICK x \in 1 .. n : word[x] = i
      BY <2>1, <3>2 DEF Carries
    <3>6. x >= i
      <4>1. x \in 1 .. i - 1 => word[x] = x /\ x < i
        BY <3>3
      <4>. QED
        BY <3>2, <3>5, <4>1
    <3>7. word[i] <= word[x]
      BY <2>1, <3>2, <3>5, <3>6 DEF Carries
    <3>. QED
      BY <3>2, <3>4, <3>5, <3>7
  <2>3. ASSUME NEW i \in 1 .. n PROVE (\E k \in 1 .. i : words[k] = Stars) \/ path[i] \in Glob[words[i]]
    <3>1. CASE i \in 1 .. w - 1
      <4>1. word[i] = i /\ words[i] # Stars
        BY <1>7, <2>2, <3>1
      <4>. QED
        BY <2>1, <4>1 DEF Carries
    <3>2. CASE i \notin 1 .. w - 1
      <4>1. w # n + 1 /\ w \in 1 .. i
        BY <1>1, <1>6, <3>2
      <4>. QED
        BY <1>6, <4>1
    <3>. QED
      BY <3>1, <3>2
  <2>. QED
    BY <1>2, <2>3
<1>. QED
  BY <1>8, <1>9, <1>10

LEMMA OneWord ==
    ASSUME NEW words \in Seq(Text)
    PROVE  words = <<Stars>> <=> Len(words) = 1 /\ words[1] = Stars
<1>. DEFINE one == <<Stars>>
<1>1. one \in Seq(Text) /\ Len(one) = 1 /\ one[1] = Stars
  BY Apart
<1>. HIDE DEF one
<1>2. Len(words) = 1 /\ words[1] = Stars => words = one
  BY <1>1, SeqEqual
<1>. QED
  BY <1>1, <1>2 DEF one

\* A documented pattern matches what it means, and where it is Exact nothing else.
LEMMA MatchIsMeant ==
    ASSUME NEW raw \in [bang : BOOLEAN, words : Seq(STRING)], Documented(raw),
           NEW f \in Seq(Text), Len(f) > 0, f[Len(f)] # Nothing
    PROVE  /\ Means(raw.words, f) => match(parsePattern(raw), f)
           /\ Exact(raw.words, f) => (match(parsePattern(raw), f) <=> Means(raw.words, f))
<1>. DEFINE p == parsePattern(raw)
            words == raw.words
            n == Len(words)
            m == Len(f)
<1>1. words \in Seq(Text) /\ n \in Nat /\ m \in Nat
  BY Widen
<1>2. p.dirOnly \in BOOLEAN /\ (p.dirOnly <=> n > 1 /\ words[n] = Nothing)
  BY Parsed DEF Last, Nothing
<1>3. p.segments = IF p.dirOnly THEN Front(words) ELSE words
  BY Parsed
<1>4. words = <<Stars>> <=> n = 1 /\ words[1] = Stars
  BY <1>1, OneWord
<1>5. \/ n = 1
      \/ n = 2 /\ words[1] = Stars /\ words[2] \notin {Nothing, Stars}
      \/ n > 1 /\ words[1] # Stars /\ (words[n] \in {Nothing, Stars} => n = 2)
  BY DEF Documented, Nothing, Stars
<1>6. /\ n = 1 /\ words # <<Stars>> => (Means(words, f) <=> f[m] \in Glob[words[1]])
      /\ n = 2 /\ words[2] = Nothing => (Means(words, f) <=> f[1] = words[1])
      /\ n = 2 /\ words[2] = Stars =>
            (Means(words, f) <=> \E i \in 1 .. m : f[i] = words[1])
      /\ n > 1 /\ words[n] \notin {Nothing, Stars} => (Means(words, f) <=> Fits(words, f))
  <2>2. n = 1 /\ words # <<Stars>> => (Means(words, f) <=> f[m] \in Glob[words[1]])
    BY DEF Means, Stars, Last
  <2>3. n = 2 => words # <<Stars>> /\ n # 1
    BY <1>4
  <2>4. n = 2 /\ words[2] = Nothing => (Means(words, f) <=> f[1] = words[1])
    BY <2>3, Zenon DEF Means, Stars, Nothing
  <2>5. DOMAIN f = 1 .. m
    BY <1>1
  <2>6. n = 2 /\ words[2] = Stars => (Means(words, f) <=> \E i \in 1 .. m : f[i] = words[1])
    <3>1. n = 2 /\ words[2] = Stars => words[2] # Nothing
      BY Apart
    <3>. QED
      BY <2>3, <2>5, <3>1, Zenon DEF Means, Stars, Nothing
  <2>7. n > 1 /\ words[n] \notin {Nothing, Stars} => (Means(words, f) <=> Fits(words, f))
    <3>. SUFFICES ASSUME n > 1, words[n] \notin {Nothing, Stars}
                  PROVE  Means(words, f) <=> Fits(words, f)
      OBVIOUS
    <3>1. n # 1
      <4>1. n \in Nat /\ n > 1
        BY <1>1
      <4>. HIDE DEF n
      <4>. QED
        BY <4>1
    <3>2. ~(n = 1 /\ words # <<Stars>>) /\ ~(n = 2 /\ words[2] = Nothing)
          /\ ~(n = 2 /\ words[2] = Stars)
      BY <3>1
    <3>. QED
      BY <3>2, Zenon DEF Means, Stars, Nothing
  <2>. QED
    BY <2>2, <2>4, <2>6, <2>7
<1>7. Base(f) = f[m]
  BY DEF Base, Last, Nothing
<1>0. Exact(words, f) =>
        n = 1 \/ (words[1] # Stars /\ (words[n] = Stars \/ n # m \/ ~TakesMore(words, f)))
  <2>1. TakesMore(words, f) => Stars \in Range(words)
    BY <1>1 DEF TakesMore, Range, Stars
  <2>. QED
    BY <2>1 DEF Exact, Last, Stars
<1>. HIDE DEF p, words, n, m
<1>8. CASE n = 1
  <2>1. ~p.dirOnly /\ p.segments = words /\ Len(words) = 1
    BY <1>1, <1>2, <1>3, <1>8 DEF n
  <2>2. CASE words[1] = Stars
    <3>1. match(p, f) <=> matchSegments(words, f)
      BY <2>1, <2>2 DEF match, matchPathPattern, Stars
    <3>2. words = <<Stars>>
      BY <1>4, <1>8, <2>2
    <3>3. match(p, f)
      BY <1>1, <3>1, <3>2, SegmentCases
    <3>4. Fits(words, f)
      <4>. DEFINE word == [i \in 1 .. m |-> 1]
      <4>1. DOMAIN f = 1 .. m /\ DOMAIN words = 1 .. 1
        BY <1>1, <1>8 DEF n, m
      <4>2. word \in [DOMAIN f -> DOMAIN words] /\ \A i \in DOMAIN f : word[i] = 1
        BY <4>1
      <4>. HIDE DEF word
      <4>3. \A i, k \in DOMAIN f : i <= k => word[i] <= word[k]
        BY <4>2
      <4>4. \A i \in DOMAIN f : words[word[i]] = Stars
        BY <2>2, <4>2
      <4>5. ASSUME NEW w \in DOMAIN words PROVE words[w] = Stars
        <5>1. w = 1
          BY <4>1
        <5>. QED
          BY <2>2, <5>1
      <4>. QED
        BY <4>2, <4>3, <4>4, <4>5 DEF Fits, Stars
    <3>5. Means(words, f) <=> Fits(words, f)
      <4>1. ~(n = 1 /\ words # <<Stars>>) /\ n # 2
        BY <1>8, <3>2
      <4>2. ~(Len(words) = 1 /\ words # <<"**">>) /\ Len(words) # 2
        BY <4>1 DEF n, Stars
      <4>. QED
        BY <4>2, Zenon DEF Means
    <3>. QED
      BY <3>3, <3>4, <3>5 DEF p, words
  <2>3. CASE words[1] # Stars
    <3>1. match(p, f) <=> Base(f) \in Glob[words[1]]
      BY <2>1, <2>3 DEF match, Stars
    <3>. QED
      BY <1>4, <1>6, <1>7, <1>8, <2>3, <3>1 DEF p, words
  <2>. QED
    BY <2>2, <2>3
<1>9. CASE n = 2 /\ words[1] # Stars /\ words[2] = Nothing
  <2>1. p.dirOnly /\ p.segments = Front(words)
    BY <1>1, <1>2, <1>3, <1>9
  <2>2. Len(Front(words)) = 1 /\ Front(words)[1] = words[1]
    <3>1. Len(words) > 1 /\ 1 \in 1 .. Len(words) - 1 /\ Len(words) - 1 = 1
      BY <1>9 DEF n
    <3>. QED
      BY <1>1, <3>1, FrontElements
  <2>3. match(p, f) <=> f[1] = words[1]
    BY <1>9, <2>1, <2>2 DEF match, Stars
  <2>. QED
    BY <1>6, <1>9, <2>3 DEF p, words
<1>11. CASE n = 2 /\ words[1] = Stars /\ words[2] \notin {Nothing, Stars}
  <2>1. ~p.dirOnly /\ p.segments = words /\ Len(words) = 2
    BY <1>2, <1>3, <1>11 DEF n
  <2>2. match(p, f) <=> matchSegments(words, f)
    BY <2>1 DEF match, matchPathPattern
  <2>3. Base(f) \in Glob[words[2]] => match(p, f)
    <3>1. Len(words) > 1
      BY <2>1
    <3>. QED
      BY <1>1, <1>11, <2>1, <2>2, <3>1, SegmentCases
  <2>4. ASSUME Fits(words, f) PROVE f[m] \in Glob[words[2]]
    <3>1. DOMAIN f = 1 .. m /\ DOMAIN words = 1 .. 2 /\ m > 0
      BY <1>1, <2>1 DEF m
    <3>0. PICK word \in [DOMAIN f -> DOMAIN words] :
            /\ \A i, k \in DOMAIN f : i <= k => word[i] <= word[k]
            /\ \A i \in DOMAIN f : words[word[i]] # Stars => f[i] \in Glob[words[word[i]]]
            /\ \A w \in DOMAIN words : words[w] # Stars => \E i \in DOMAIN f : word[i] = w
      BY <2>4, Zenon DEF Fits, Stars
    <3>2. /\ word \in [1 .. m -> 1 .. 2]
          /\ \A i, k \in 1 .. m : i <= k => word[i] <= word[k]
          /\ \A i \in 1 .. m : words[word[i]] # Stars => f[i] \in Glob[words[word[i]]]
          /\ \A w \in 1 .. 2 : words[w] # Stars => \E i \in 1 .. m : word[i] = w
      BY <3>0, <3>1
    <3>3. PICK i \in 1 .. m : word[i] = 2
      BY <1>11, <3>2
    <3>4. m \in 1 .. m /\ i <= m
      BY <1>1, <3>1
    <3>5. word[m] \in 1 .. 2 /\ word[i] <= word[m]
      BY <3>2, <3>4
    <3>6. word[m] = 2
      BY <3>3, <3>5
    <3>. QED
      BY <1>11, <3>2, <3>4, <3>6
  <2>5. Means(words, f) => match(p, f)
    <3>1. n > 1 /\ words[n] \notin {Nothing, Stars}
      BY <1>11
    <3>2. Means(words, f) <=> Fits(words, f)
      BY <1>6, <3>1
    <3>. QED
      BY <1>7, <2>3, <2>4, <3>2
  <2>6. ~Exact(words, f)
    BY <1>0, <1>11
  <2>. QED
    BY <2>5, <2>6 DEF p, words
<1>10. CASE n > 1 /\ words[1] # Stars /\ words[n] # Nothing
  <2>1. ~p.dirOnly /\ p.segments = words
    BY <1>2, <1>3, <1>10
  <2>2. match(p, f) <=> matchSegments(words, f)
    <3>1. Len(words) # 1
      <4>1. n # 1
        BY <1>1, <1>10
      <4>. QED
        BY <4>1 DEF n
    <3>. QED
      BY <2>1, <3>1 DEF match, matchPathPattern
  <2>3. CASE n = 2 /\ words[n] = Stars
    <3>. DEFINE prefix == Front(words)
    <3>1. matchSegments(words, f) <=> UnderPrefix(prefix, f)
      <4>1. Len(words) > 1 /\ words[Len(words)] = Stars
        BY <1>10, <2>3 DEF n
      <4>. QED
        BY <1>1, <1>10, <4>1, SegmentCases
    <3>2. prefix \in Seq(Text) /\ Len(prefix) = 1 /\ prefix[1] = words[1]
      <4>1. Len(words) > 1 /\ 1 \in 1 .. Len(words) - 1 /\ Len(words) - 1 = 1
        BY <2>3 DEF n
      <4>. QED
        BY <1>1, <4>1, FrontElements
    <3>. HIDE DEF prefix
    <3>3. UnderPrefix(prefix, f) <=> UnderElements(prefix, f)
      <4>1. Len(prefix) > 0
        BY <3>2
      <4>. QED
        BY <3>2, <4>1, UnderByElements
    <3>4. UnderElements(prefix, f) <=> \E i \in 1 .. m : f[i] = words[1]
      <4>1. m > 0 /\ 1 \in 1 .. m
        BY <1>1 DEF m
      <4>2. ASSUME NEW i \in 2 .. m PROVE i + 1 - 1 = i /\ i \in 1 .. m
        OBVIOUS
      <4>3. UnderElements(prefix, f) =>  \E i \in 1 .. m : f[i] = words[1]
        BY <1>1, <3>2, <4>1, <4>2 DEF UnderElements, m
      <4>4. (\E i \in 1 .. m : f[i] = words[1]) => UnderElements(prefix, f)
        BY <3>2 DEF UnderElements, m
      <4>. QED
        BY <4>3, <4>4
    <3>. QED
      BY <1>6, <2>2, <2>3, <3>1, <3>3, <3>4 DEF p, words
  <2>4. CASE words[n] # Stars
    <3>1. matchSegments(words, f) <=>
            IF Len(words) # Len(f) THEN matchSegmentsFlexible(words, f) ELSE NameByName(words, f)
      <4>1. Len(words) > 0 /\ (Len(words) > 1 => words[Len(words)] # Stars)
        BY <1>1, <1>10, <2>4 DEF n
      <4>. QED
        BY <1>1, <1>10, <4>1, SegmentCases
    <3>2. matchSegmentsFlexible(words, f) <=> Fits(words, f)
      BY <1>1, FlexibleFits
    <3>3. Len(words) = Len(f) => (NameByName(words, f) <=> Fits(words, f) \/ TakesMore(words, f))
      BY <1>1, SameLength
    <3>4. Means(words, f) <=> Fits(words, f)
      BY <1>6, <1>10, <2>4
    <3>5. Exact(words, f) => Len(words) # Len(f) \/ ~TakesMore(words, f)
      <4>1. n # 1
        BY <1>1, <1>10
      <4>. QED
        BY <1>0, <2>4, <4>1 DEF n, m
    <3>. QED
      BY <2>2, <3>1, <3>2, <3>3, <3>4, <3>5 DEF p, words
  <2>. QED
    BY <1>5, <1>10, <2>3, <2>4, <1>1
<1>. QED
  BY <1>1, <1>5, <1>8, <1>9, <1>10, <1>11

LEMMA Meaning ==
    ASSUME raws \in Seq(RawPatterns)
    PROVE  MatchesReference
<1>. SUFFICES ASSUME \A i \in DOMAIN raws : Documented(raws[i]), NEW f \in AllFiles
              PROVE  LET hits == {i \in DOMAIN raws : Means(raws[i].words, f)}
                     IN /\ hits # {} /\ (\A i \in DOMAIN raws : ~raws[i].bang) =>
                              Ignored(patterns, f)
                        /\ (\A i \in DOMAIN raws : i \in hits \/ Exact(raws[i].words, f)) =>
                              (Ignored(patterns, f) <=> hits # {} /\ ~raws[Max(hits)].bang)
  BY DEF MatchesReference
<1>. DEFINE n == Len(raws)
            hits == {i \in DOMAIN raws : Means(raws[i].words, f)}
<1>1. DOMAIN patterns = 1 .. n /\ Len(patterns) = n /\ n \in Nat /\ DOMAIN raws = 1 .. n
  BY DEF patterns
<1>. HIDE DEF n
<1>2. PICK k \in DOMAIN Tree : f = Tree[k].path /\ Tree[k].kind = "file"
  BY DEF AllFiles
<1>3. f \in Seq(Text)
  BY <1>2, Entries, Widen
<1>4. f # <<>>
  <2>. SUFFICES ASSUME f = <<>> PROVE FALSE
    OBVIOUS
  <2>1. 1 \in DOMAIN Tree /\ Tree[1].path = <<>> /\ Tree[1].kind = "dir"
    <3>1. Tree \in Seq(Entry) /\ Tree # <<>>
      BY TreeScanAssumption
    <3>2. Len(Tree) \in Nat \ {0}
      BY <3>1, EmptySeq
    <3>3. 1 \in DOMAIN Tree
      BY <3>1, <3>2
    <3>4. Tree[1] = [path |-> <<>>, kind |-> "dir"]
      BY TreeScanAssumption
    <3>. QED
      BY <3>3, <3>4
  <2>2. k = 1
    BY <1>2, <2>1, TreeScanAssumption
  <2>. QED
    BY <1>2, <2>1, <2>2
<1>5. Len(f) > 0 /\ f[Len(f)] # Nothing
  <2>1. Len(f) \in Nat \ {0}
    BY <1>3, <1>4, EmptySeq
  <2>2. Len(f) \in 1 .. Len(f)
    BY <2>1
  <2>. QED
    BY <1>2, <2>1, <2>2, TreeNames
<1>6. ASSUME NEW i \in 1 .. n
      PROVE  /\ i \in hits => match(patterns[i], f)
             /\ i \in hits \/ Exact(raws[i].words, f) => (match(patterns[i], f) <=> i \in hits)
             /\ patterns[i].negate = raws[i].bang
  <2>1. i \in DOMAIN patterns /\ i \in DOMAIN raws
    BY <1>1
  <2>2. raws[i] \in [bang : BOOLEAN, words : Seq(STRING)] /\ patterns[i] = parsePattern(raws[i])
    BY <2>1, Patterns
  <2>3. /\ Means(raws[i].words, f) => match(parsePattern(raws[i]), f)
        /\ Exact(raws[i].words, f) =>
              (match(parsePattern(raws[i]), f) <=> Means(raws[i].words, f))
    BY <1>3, <1>5, <2>1, <2>2, MatchIsMeant
  <2>4. parsePattern(raws[i]).negate = raws[i].bang
    BY <2>2, Parsed
  <2>. QED
    BY <2>1, <2>2, <2>3, <2>4
<1>7. \A i \in hits : i \in 1 .. n
  BY <1>1
<1>. HIDE DEF hits
<1>8. Ignored(patterns, f) <=>
        \E i \in 1 .. n : /\ match(patterns[i], f) /\ ~raws[i].bang
                         /\ \A l \in i + 1 .. n : ~match(patterns[l], f)
  BY <1>1, <1>4, <1>6 DEF Ignored
\* Without `!', the last pattern that matches hides the file.
<1>9. ASSUME hits # {}, \A i \in DOMAIN raws : ~raws[i].bang PROVE Ignored(patterns, f)
  <2>. DEFINE M == {i \in 0 .. n : i # 0 /\ match(patterns[i], f)}
  <2>1. PICK h \in 1 .. n : match(patterns[h], f)
    <3>1. PICK h \in hits : TRUE
      BY <1>9
    <3>2. h \in 1 .. n
      BY <1>7, <3>1
    <3>. QED
      BY <1>6, <3>1, <3>2
  <2>2. h \in M /\ M \in SUBSET (0 .. n)
    <3>1. h # 0 /\ h \in 0 .. n
      BY <1>1, <2>1
    <3>2. h \in M
      BY <2>1, <3>1
    <3>3. M \subseteq 0 .. n
      OBVIOUS
    <3>. QED
      BY <3>2, <3>3
  <2>3. ASSUME NEW i \in M PROVE i \in 1 .. n /\ match(patterns[i], f)
    <3>1. i \in 0 .. n /\ i # 0 /\ match(patterns[i], f)
      OBVIOUS
    <3>. QED
      BY <1>1, <3>1
  <2>4. ASSUME NEW i \in 1 .. n, match(patterns[i], f) PROVE i \in M
    <3>1. i \in 0 .. n /\ i # 0
      BY <1>1
    <3>. QED
      BY <2>4, <3>1
  <2>. HIDE DEF M
  <2>5. PICK g \in M : \A y \in M : y <= g
    BY <1>1, <2>2, GreatestOf
  <2>6. g \in 1 .. n /\ match(patterns[g], f)
    BY <2>3, <2>5
  <2>7. ASSUME NEW l \in g + 1 .. n PROVE ~match(patterns[l], f)
    <3>1. l \in 1 .. n /\ ~(l <= g)
      BY <1>1, <2>6
    <3>. QED
      BY <2>4, <2>5, <3>1
  <2>. QED
    BY <1>1, <1>8, <1>9, <2>6, <2>7
\* Where every pattern matches what it means, the last that means it decides.
<1>10. ASSUME \A i \in DOMAIN raws : i \in hits \/ Exact(raws[i].words, f)
       PROVE  Ignored(patterns, f) <=> hits # {} /\ ~raws[Max(hits)].bang
  <2>0. Ignored(patterns, f) <=>
          \E i \in 1 .. n : i \in hits /\ ~raws[i].bang /\ \A l \in i + 1 .. n : l \notin hits
    <3>1. \A i \in 1 .. n : match(patterns[i], f) <=> i \in hits
      BY <1>1, <1>6, <1>10
    <3>2. ASSUME NEW i \in 1 .. n PROVE \A l \in i + 1 .. n : l \in 1 .. n
      BY <1>1
    <3>. QED
      BY <1>8, <3>1, <3>2
  <2>1. CASE hits = {}
    BY <2>0, <2>1
  <2>2. CASE hits # {}
    <3>1. hits \in SUBSET (0 .. n)
      <4>1. ASSUME NEW i \in hits PROVE i \in 0 .. n
        <5>1. i \in 1 .. n
          BY <1>7
        <5>. QED
          BY <1>1, <5>1
      <4>. QED
        BY <4>1
    <3>2. \E g \in hits : \A y \in hits : y <= g
      BY <1>1, <2>2, <3>1, GreatestOf
    <3>. DEFINE g == Max(hits)
    <3>3. g \in hits /\ \A y \in hits : y <= g
      <4>1. \E x \in hits : \A y \in hits : x >= y
        BY <3>2
      <4>2. g \in hits /\ \A y \in hits : g >= y
        BY <4>1, Zenon DEF Max
      <4>. QED
        BY <4>2
    <3>. HIDE DEF g
    <3>4. g \in 1 .. n
      BY <1>7, <3>3
    <3>5. \A l \in g + 1 .. n : l \notin hits
      <4>1. \A l \in g + 1 .. n : ~(l <= g)
        BY <1>1, <3>4
      <4>. QED
        BY <3>3, <4>1
    <3>6. ASSUME NEW i \in 1 .. n, i \in hits, \A l \in i + 1 .. n : l \notin hits PROVE i = g
      <4>1. g \notin i + 1 .. n /\ i <= g
        BY <3>3, <3>6
      <4>. QED
        BY <1>1, <3>4, <4>1
    <3>7. Ignored(patterns, f) <=> ~raws[g].bang
      BY <2>0, <3>3, <3>4, <3>5, <3>6
    <3>. QED
      BY <2>2, <3>7 DEF g
  <2>. QED
    BY <2>1, <2>2
<1>. QED
  BY <1>9, <1>10 DEF hits

\* No file that a documented pattern means is let out, and where the matcher does
\* not hide more (Exact) the last pattern that means a file decides, for any names,
\* globs and lists of documented patterns.
THEOREM PatternsAreMeant == Spec => []MatchesReference
<1>1. ScanInv => MatchesReference
  BY Meaning DEF ScanInv
<1>. QED
  BY <1>1, Scanning, PTL
=============================================================================
