--------------------------- MODULE IgnoreMatcher ---------------------------
(***************************************************************************)
(* The ignore patterns of a sync group (internal/ignore/ignore.go).  A     *)
(* path is the sequence of its names: strings.Split(path, "/").  The path  *)
(* "dir/" ends in the empty name, and "" is the empty sequence.  What is   *)
(* inside a name is given by two constants.                                *)
(***************************************************************************)
EXTENDS Integers, Sequences, FiniteSets, SequencesExt

CONSTANTS
    Glob,      \* Glob[s]: the names that filepath.Match(s, name) accepts
    EndsWith   \* pairs of a name and a text that it ends with

\* A pattern as it is written: `!', and what is between the slashes.  The words
\* of "dir/" are <<"dir", "">>, those of a blank line are <<>>.
parsePattern(raw) ==
    LET dirOnly == Len(raw.words) > 1 /\ Last(raw.words) = ""
    IN [negate |-> raw.bang, dirOnly |-> dirOnly,
        segments |-> IF dirOnly THEN Front(raw.words) ELSE raw.words]

\* filepath.Base, which drops a trailing slash; of "" it is ".".
Base(path) ==
    IF Last(path) # "" THEN Last(path) ELSE IF Len(path) = 1 THEN "." ELSE path[Len(path) - 1]

\* strings.HasSuffix(full, suffix): text, so that its first name may be the end
\* of a longer one.
HasSuffix(path, suffix) ==
    LET n == Len(path) - Len(suffix)
    IN /\ n >= 0
       /\ <<path[n + 1], suffix[1]>> \in EndsWith
       /\ \A i \in 2 .. Len(suffix) : path[n + i] = suffix[i]

\* Mutant: `**' takes at least one name.
FlexibleNonEmpty(segments, parts) ==
    LET n == Len(segments)
        m == Len(parts)
        F[i \in 1 .. n + 1] == [j \in 1 .. m + 1 |->
            IF i > n \/ j > m
            THEN j = m + 1 /\ \A k \in i .. n : segments[k] = "**"
            ELSE IF segments[i] = "**"
                 THEN i = n \/ \E k \in j + 1 .. m + 1 : F[i + 1][k]
                 ELSE parts[j] \in Glob[segments[i]] /\ F[i + 1][j + 1]]
    IN F[1][1]

matchSegmentsFlexible(segments, parts) ==
    LET n == Len(segments)
        m == Len(parts)
        F[i \in 1 .. n + 1] == [j \in 1 .. m + 1 |->
            IF i > n \/ j > m
            THEN j = m + 1 /\ \A k \in i .. n : segments[k] = "**"
            ELSE IF segments[i] = "**"
                 THEN i = n \/ \E k \in j .. m + 1 : F[i + 1][k]
                 ELSE parts[j] \in Glob[segments[i]] /\ F[i + 1][j + 1]]
    IN F[1][1]

\* "prefix/**": the prefix at the start; or as one of the names; or between two
\* slashes.
UnderPrefix(prefix, parts) ==
    \/ IsPrefix(prefix, parts)
    \/ \E i \in 1 .. Len(parts) : prefix = <<parts[i]>>
    \/ \E i \in 2 .. Len(parts) :
          /\ i + Len(prefix) <= Len(parts)
          /\ SubSeq(parts, i, i + Len(prefix) - 1) = prefix

\* The same number of names on both sides: name by name up to the first `**',
\* which ends the comparison.
NameByName(segments, parts) ==
    \A i \in 1 .. Len(parts) :
        (\E k \in 1 .. i : segments[k] = "**") \/ parts[i] \in Glob[segments[i]]

matchSegments(segments, parts) ==
    CASE segments = <<>> -> FALSE
      [] segments = <<"**">> -> TRUE
      [] Len(segments) > 1 /\ segments[1] = "**" ->
            LET suffix == Tail(segments)
            IN HasSuffix(parts, suffix) \/ (Len(suffix) = 1 /\ Base(parts) \in Glob[suffix[1]])
      [] Len(segments) > 1 /\ segments[1] # "**" /\ Last(segments) = "**" ->
            UnderPrefix(Front(segments), parts)
      [] OTHER ->
            IF Len(segments) # Len(parts) THEN matchSegmentsFlexible(segments, parts)
            ELSE NameByName(segments, parts)

\* Mutant: "dir/" is the directory alone.
PathPatternExact(p, path) == matchSegments(p.segments, path)

\* "dir/": a directory above the path, or the path itself.
matchPathPattern(p, path) ==
    IF p.dirOnly
    THEN \E i \in 1 .. Len(path) : matchSegments(p.segments, SubSeq(path, 1, i))
    ELSE matchSegments(p.segments, path)

\* A single name matches at any depth, but as "dir/" only at the top.
match(p, path) ==
    IF Len(p.segments) = 1 /\ p.segments[1] # "**"
    THEN IF p.dirOnly THEN path[1] = p.segments[1]
         ELSE Base(path) \in Glob[p.segments[1]]
    ELSE matchPathPattern(p, path)

\* Ignored: the last pattern that matches decides.
Ignored(patterns, path) ==
    /\ path # <<>>
    /\ \E i \in DOMAIN patterns :
          /\ match(patterns[i], path) /\ ~patterns[i].negate
          /\ \A k \in i + 1 .. Len(patterns) : ~match(patterns[k], path)
=============================================================================
