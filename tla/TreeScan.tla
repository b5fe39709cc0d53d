------------------------------ MODULE TreeScan ------------------------------
(***************************************************************************)
(* What a scan of the tree finds (internal/sync/engine.go:                 *)
(* buildManifestForFolder, and the same walk in CatchUp), and what the     *)
(* engine lets in and out by path alone (applyManifest, sendFiles).  The   *)
(* two sides use the patterns differently: the walk asks about directories *)
(* and never looks into one that is skipped, the others ask about files.   *)
(* Every file can be read.                                                 *)
(***************************************************************************)
EXTENDS IgnoreMatcher

CONSTANTS
    RawPatterns,  \* what `ignore' may list
    MaxPatterns,  \* bound
    Tree,         \* the entries of LocalPath in the order of filepath.Walk, the
                  \* root first: [path, kind], kind "dir", "file" or "link"
    TempNames     \* names that isTempRel knows as temporary files

Entry == [path : Seq(STRING), kind : {"dir", "file", "link"}]
Beneath(path) == {i \in DOMAIN Tree : IsStrictPrefix(path, Tree[i].path)}

\* filepath.Walk comes to each entry once, to a directory before what is below
\* it, and to all of that before it goes on.
ASSUME TreeScanAssumption ==
    /\ MaxPatterns \in Nat /\ RawPatterns \subseteq [bang : BOOLEAN, words : Seq(STRING)]
    /\ Tree \in Seq(Entry) /\ Tree # <<>> /\ Tree[1] = [path |-> <<>>, kind |-> "dir"]
    /\ \A i, k \in DOMAIN Tree : Tree[i].path = Tree[k].path => i = k
    /\ \A i \in DOMAIN Tree :
        LET path == Tree[i].path
        IN /\ Beneath(path) = i + 1 .. i + Cardinality(Beneath(path))
           /\ \A n \in DOMAIN path :
                path[n] # "" /\ [path |-> SubSeq(path, 1, n - 1), kind |-> "dir"] \in Range(Tree)

VARIABLES
    raws,   \* Sync.Ignore
    at,     \* the entry the walk visits next; 0: it has not begun
    files   \* Manifest.Files, and rows of file_state

vars == <<raws, at, files>>

\* ignore.New
patterns == [i \in DOMAIN raws |-> parsePattern(raws[i])]

isTempRel(path) == Last(path) \in TempNames

\* The directory itself, with a slash, and with "/**"; for the root the first
\* two are "", which is never ignored.
SkipDir(path) ==
    \/ Ignored(patterns, path)
    \/ path # <<>> /\ Ignored(patterns, Append(path, ""))
    \/ Ignored(patterns, IF path = <<>> THEN <<"", "**">> ELSE Append(path, "**"))

-----------------------------------------------------------------------------
\* The user lists one more pattern.
AddPattern(raw) ==
    /\ at = 0 /\ Len(raws) < MaxPatterns
    /\ raws' = Append(raws, raw)
    /\ UNCHANGED <<at, files>>

StartScan ==
    /\ at = 0
    /\ at' = 1
    /\ UNCHANGED <<raws, files>>

\* Mutant: the walk ends.
SkipAll ==
    /\ at \in DOMAIN Tree /\ Tree[at].kind = "dir"
    /\ at' = IF SkipDir(Tree[at].path) THEN Len(Tree) + 1 ELSE at + 1
    /\ UNCHANGED <<raws, files>>

\* filepath.SkipDir: on with what is not below the directory.
VisitDir ==
    /\ at \in DOMAIN Tree /\ Tree[at].kind = "dir"
    /\ at' = IF SkipDir(Tree[at].path) THEN at + 1 + Cardinality(Beneath(Tree[at].path))
             ELSE at + 1
    /\ UNCHANGED <<raws, files>>

VisitFile ==
    /\ at \in DOMAIN Tree /\ Tree[at].kind \in {"file", "link"}
    /\ LET path == Tree[at].path
       IN files' = IF Tree[at].kind = "link" \/ isTempRel(path) \/ Ignored(patterns, path)
                   THEN files ELSE files \cup {path}
    /\ at' = at + 1
    /\ UNCHANGED raws

Init == raws = <<>> /\ at = 0 /\ files = {}

Next == (\E raw \in RawPatterns : AddPattern(raw)) \/ StartScan \/ VisitDir \/ VisitFile

Spec == Init /\ [][Next]_vars

-----------------------------------------------------------------------------
(* Properties *)

Scanned == at = Len(Tree) + 1
AllFiles == {Tree[i].path : i \in {k \in DOMAIN Tree : Tree[k].kind = "file"}}
AllDirs == {Tree[i].path : i \in {k \in DOMAIN Tree : Tree[k].kind = "dir"}} \ {<<>>}

\* applyManifest takes a file from a peer.
Accepted(path) == ~Ignored(patterns, path) /\ ~isTempRel(path)

\* The walk puts a slash or "/**" after a directory and asks about that: a word
\* that this fits is one that every name fits.
Names == UNION {Range(Tree[i].path) : i \in DOMAIN Tree}
Even(word) ==
    \A y \in {"", ".", "**"} :
        y \in Glob[word] \/ <<y, word>> \in EndsWith => Names \subseteq Glob[word]

\* No empty names, no glob that fits "/**" by accident, and no `**' before a last
\* one.
Sensible(words) ==
    LET n == Len(words)
    IN /\ \A i \in 1 .. n : words[i] # "" /\ (words[i] # "**" => Even(words[i]))
       /\ n > 1 /\ words[1] # "**" => "" \notin Glob[words[1]]
       /\ n > 1 /\ words[n] = "**" => "**" \notin {words[1], words[n - 1]}
Plain == \A i \in DOMAIN raws : ~raws[i].bang /\ Sensible(patterns[i].segments)

\* A pattern that says which directories, or which files, by name only.
NamesFiles(raw) ==
    Len(raw.words) = 1 /\ \A d \in AllDirs : raw.words # <<"**">> /\ Last(d) \notin Glob[raw.words[1]]
NamesDirs(raw) ==
    Len(raw.words) > 1 /\ raw.words[1] # "**" /\ Last(raw.words) \in {"", "**"}

(***************************************************************************)
(* With sensible patterns that do not begin with `!', the walk finds every *)
(* file that the patterns let through and that is in no ignored directory: *)
(* what is asked of a directory, with a slash and with "/**", hides        *)
(* nothing more (engine.go: buildManifestForFolder).                       *)
(***************************************************************************)
ScanFindsFiles ==
    Scanned /\ Plain =>
        files = {f \in AllFiles :
                    Accepted(f) /\ \A d \in AllDirs : IsStrictPrefix(d, f) => ~Ignored(patterns, d)}

(***************************************************************************)
(* With patterns for directories ("dir/", "dir/**") and for names that no  *)
(* directory has, as in the README, the walk and the filters agree: a file *)
(* that this side does not announce is refused when a peer announces it,   *)
(* and the other way round (engine.go: buildManifestForFolder,             *)
(* applyManifest).                                                         *)
(***************************************************************************)
HiddenIsRefused ==
    Scanned /\ Plain /\ (\A i \in DOMAIN raws : NamesFiles(raws[i]) \/ NamesDirs(raws[i])) =>
        files = {f \in AllFiles : Accepted(f)}

\* `**' stands for any number of names: every name of the path belongs to one
\* word of the pattern, in order, and every other word has exactly one name.
Fits(words, path) ==
    \E word \in [DOMAIN path -> DOMAIN words] :
        /\ \A i, k \in DOMAIN path : i <= k => word[i] <= word[k]
        /\ \A i \in DOMAIN path : words[word[i]] # "**" => path[i] \in Glob[words[word[i]]]
        /\ \A w \in DOMAIN words : words[w] # "**" => \E i \in DOMAIN path : word[i] = w
        /\ \A i, k \in DOMAIN path :
              i # k /\ word[i] = word[k] => words[word[i]] = "**"

\* The forms of the README, the example configuration and the comments.
Documented(raw) ==
    LET n == Len(raw.words)
    IN \/ n = 1
       \/ n = 2 /\ raw.words[1] = "**" /\ raw.words[2] \notin {"", "**"}
       \/ n > 1 /\ raw.words[1] # "**" /\ (raw.words[n] \in {"", "**"} => n = 2)

Means(words, path) ==
    CASE Len(words) = 1 /\ words # <<"**">> -> Last(path) \in Glob[words[1]]
      [] Len(words) = 2 /\ words[2] = "" -> path[1] = words[1]
      [] Len(words) = 2 /\ words[2] = "**" -> \E i \in DOMAIN path : path[i] = words[1]
      [] OTHER -> Fits(words, path)

\* The code hides more than a pattern means in two cases: behind a leading "**/"
\* it compares text ("**/.env" hides prod.env), and with as many words as names
\* it looks at nothing behind a `**' in the middle.  Here neither arises.
Exact(words, path) ==
    \/ Len(words) = 1
    \/ /\ words[1] # "**"
       /\ "**" \in Range(words) /\ Last(words) # "**" => Len(words) # Len(path)

(***************************************************************************)
(* What the documented patterns mean is hidden: a name or a glob at any    *)
(* depth ("*.log", "**/.env"), a directory at the top ("dir/") or anywhere *)
(* ("dir/**"), any number of names for a `**' in the middle.  Without `!'  *)
(* no file that a pattern means is let out.  Where the matcher does not    *)
(* hide more than that (Exact), Ignored is just this, and the last pattern *)
(* that means the file decides, `!' or not (ignore.go).                    *)
(***************************************************************************)
MatchesReference ==
    at = 0 /\ (\A i \in DOMAIN raws : Documented(raws[i])) =>
        \A f \in AllFiles :
            LET hits == {i \in DOMAIN raws : Means(raws[i].words, f)}
            IN /\ hits # {} /\ (\A i \in DOMAIN raws : ~raws[i].bang) => Ignored(patterns, f)
               /\ (\A i \in DOMAIN raws : i \in hits \/ Exact(raws[i].words, f)) =>
                    (Ignored(patterns, f) <=> hits # {} /\ ~raws[Max(hits)].bang)
=============================================================================
