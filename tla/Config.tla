------------------------------- MODULE Config -------------------------------
(***************************************************************************)
(* config.Load: five sources are merged into one tree of settings, each    *)
(* over the ones before it: the default file, the file of the deployment   *)
(* environment, the local file, environment variables, flags.  The source  *)
(* of each setting is recorded on the way; the result is validated and     *)
(* printed with its secrets masked.                                        *)
(*                                                                         *)
(* Abstractions: trees have two levels.  A value is the text it prints as  *)
(* with the Go type it has; the texts that parsing tells apart are named.  *)
(* Decoding into the caller's struct, the hash and what maskURI does to    *)
(* values that are not sensitive are left out.                             *)
(***************************************************************************)
EXTENDS Integers, Sequences, FiniteSets

CONSTANTS FileTrees,    \* what a config file may hold
          Assignments,  \* lists of <<path, text>>: environment variables, flags
          Sensitive,    \* the runs of path elements that, joined by dots,
                        \* contain one of SensitiveKeys
          Required      \* RequiredKeys, as paths

VARIABLES phase,        \* the source Load reads next, 6 to validate, or the end
          merged,       \* merged
          sourceMap,    \* sourceMap
          sources,      \* sources
          given,        \* what each source contained, in order
          summary       \* Meta.Summary, by path

vars == <<phase, merged, sourceMap, sources, given, summary>>

Order == <<"default", "env-file", "local", "env", "flags">>
Failed == 0
Accepted == 7
Empty == <<>>
Leaf(v) == [leaf |-> TRUE, v |-> v]
Map(f) == [leaf |-> FALSE, sub |-> f]
Value(text, kind) == [text |-> text, kind |-> kind]

Init ==
    /\ phase = 1
    /\ merged = Empty /\ sourceMap = Empty /\ sources = <<>>
    /\ given = <<>> /\ summary = Empty

-----------------------------------------------------------------------------
(* Trees                                                                   *)

Paths(t) ==
    {<<k>> : k \in {j \in DOMAIN t : t[j].leaf}} \cup
    UNION {{<<k, s>> : s \in DOMAIN t[k].sub} : k \in {j \in DOMAIN t : ~t[j].leaf}}

At(t, p) == IF Len(p) = 1 THEN t[p[1]].v ELSE t[p[1]].sub[p[2]]

\* The keys of f, and those of g that f lacks.
Over(f, g) == [k \in DOMAIN f \cup DOMAIN g |-> IF k \in DOMAIN f THEN f[k] ELSE g[k]]

\* A file is a tree, and what looks empty or masked in it is a string; variables
\* and flags are lists.
ASSUME SourceAssumption ==
    /\ \A t \in FileTrees :
          /\ \A k \in DOMAIN t : t[k].leaf \in BOOLEAN
          /\ \A p \in Paths(t) : At(t, p).text \in {"", "***"} => At(t, p).kind = "str"
    /\ \A list \in Assignments : Len(list) \in Nat

mergeMaps(dst, src) ==
    [k \in DOMAIN dst \cup DOMAIN src |->
        IF k \notin DOMAIN src THEN dst[k]
        ELSE IF k \in DOMAIN dst /\ ~dst[k].leaf /\ ~src[k].leaf
        THEN Map(Over(src[k].sub, dst[k].sub))
        ELSE src[k]]

setPath(m, p, v) ==
    LET group == IF p[1] \in DOMAIN m /\ ~m[p[1]].leaf THEN m[p[1]].sub ELSE Empty
        node == IF Len(p) = 1 THEN Leaf(v) ELSE Map(Over([s \in {p[2]} |-> v], group))
    IN  Over([k \in {p[1]} |-> node], m)

\* envToMap and argsToMap: the variables in the order of os.Environ, the flags
\* in the order of the command line; every value is a string.
ToMap(list) ==
    LET m[n \in 0 .. Len(list)] ==
          IF n = 0 THEN Empty ELSE setPath(m[n - 1], list[n][1], Value(list[n][2], "str"))
    IN  m[Len(list)]

\* The source a value had first is kept.
FaultyRecord(dest, m, source) == Over(dest, [p \in Paths(m) |-> source])

recordSources(dest, m, source) == Over([p \in Paths(m) |-> source], dest)

-----------------------------------------------------------------------------
(* Values of variables and flags take the type of what they override       *)

\* The texts strconv accepts, and how the number it returns prints.
IsBool(text) == text \in {"1", "true"}
IsInt(text) == text \in {"1", "7", "007"}
IsFloat(text) == IsInt(text) \/ text = "0.50"
Number(text) == IF text = "007" THEN "7" ELSE IF text = "0.50" THEN "0.5" ELSE text

Parsed(text) ==
    IF IsBool(text) THEN Value("true", "bool")
    ELSE IF IsInt(text) THEN Value(Number(text), "int64")
    ELSE IF IsFloat(text) THEN Value(Number(text), "float64")
    ELSE Value(text, "str")

\* The text is parsed without looking at the value it overrides.
FaultyParse(hint, text) == Parsed(text)

parseWithHint(hint, text) ==
    IF (hint \in {"int", "int64"} /\ IsInt(text)) \/ (hint = "float64" /\ IsFloat(text))
    THEN Value(Number(text), hint)
    ELSE Parsed(text)

Hint(base, p) == IF p \in Paths(base) THEN At(base, p).kind ELSE "none"

applyTypedOverrides(base, over) ==
    [k \in DOMAIN over |->
        IF over[k].leaf THEN Leaf(parseWithHint(Hint(base, <<k>>), over[k].v.text))
        ELSE Map([s \in DOMAIN over[k].sub |->
                    parseWithHint(Hint(base, <<k, s>>), over[k].sub[s].text)])]

-----------------------------------------------------------------------------
(* Load                                                                    *)

Merge(m, typed, source) ==
    /\ merged' = mergeMaps(merged, typed)
    /\ sourceMap' = recordSources(sourceMap, m, source)
    /\ sources' = Append(sources, source)
    /\ given' = Append(given, <<source, m>>)

Skip == UNCHANGED <<merged, sourceMap, sources, given>>

\* A file that does not exist is skipped; one that cannot be read ends Load.
LoadFile ==
    /\ phase \in 1 .. 3
    /\ \/ phase' = phase + 1
          /\ \/ \E m \in FileTrees : Merge(m, m, Order[phase])
             \/ Skip
       \/ phase' = Failed /\ Skip
    /\ UNCHANGED summary

Override ==
    /\ phase \in 4 .. 5
    /\ phase' = phase + 1
    /\ \E list \in Assignments :
          LET m == ToMap(list) IN
          IF m = Empty THEN Skip
          ELSE Merge(m, applyTypedOverrides(merged, m), Order[phase])
    /\ UNCHANGED summary

isSensitivePath(p) == \E w \in Sensitive : \E i, j \in 1 .. Len(p) : SubSeq(p, i, j) = w
isEmpty(v) == v.kind = "str" /\ v.text = ""
isPlaceholder(v) == v.kind = "str" /\ v.text = "***"

getPath(t, p) == p \in Paths(t) \/ (Len(p) = 1 /\ p[1] \in DOMAIN t)
\* A group is empty when it has no keys.
EmptyAt(t, p) ==
    IF p \in Paths(t) THEN isEmpty(At(t, p)) ELSE t[p[1]].sub = Empty

validateRequired(m) == \A p \in Required : getPath(m, p) /\ ~EmptyAt(m, p)

\* The source of the sensitive value is not looked up.
FaultySensitive(m, src) ==
    \A p \in Paths(m) : isSensitivePath(p) => ~isPlaceholder(At(m, p))

validateSensitiveSources(m, src) ==
    \A p \in Paths(m) : isSensitivePath(p) /\ ~isEmpty(At(m, p)) =>
        src[p] \in {"env", "local"} /\ ~isPlaceholder(At(m, p))

\* maskValue: the items of a list have the path of the list before their keys.
maskValue(p, v) ==
    IF v.kind = "list" THEN IF isSensitivePath(Append(p, v.text)) THEN "***" ELSE v.text
    ELSE IF isSensitivePath(p) THEN "***" ELSE v.text

Validate ==
    /\ phase = 6
    /\ IF validateRequired(merged) /\ validateSensitiveSources(merged, sourceMap)
       THEN /\ \/ phase' = Accepted
               \/ phase' = Failed      \* ValidateMap, decoding or ValidateConfig
            /\ summary' = [p \in Paths(merged) |-> maskValue(p, At(merged, p))]
       ELSE phase' = Failed /\ UNCHANGED summary
    /\ Skip

Next == LoadFile \/ Override \/ Validate

Spec == Init /\ [][Next]_vars
-----------------------------------------------------------------------------
(* What the result should be, from what the sources contained              *)

AllPaths(n) == UNION {Paths(given[i][2]) : i \in 1 .. n}

\* Source i has p as a value; source i has a group where p is a value, or a
\* value where p has a group.
Gives(i, p) == p \in Paths(given[i][2])
Hides(i, p) ==
    LET t == given[i][2] IN p[1] \in DOMAIN t /\ t[p[1]].leaf = (Len(p) = 2)

\* The source among the first n whose value for p is in force.
Winners(n, p) ==
    {i \in 1 .. n : Gives(i, p) /\ \A j \in (i + 1) .. n : ~Gives(j, p) /\ ~Hides(j, p)}
Winner(n, p) == CHOOSE i \in Winners(n, p) : TRUE

\* A text of a variable or a flag stands in the tree as it is, or as the truth
\* value or the number it spells; what a file says, as it is.
Spells(text, v) ==
    \/ v = Value(text, "str")
    \/ v = Value("true", "bool") /\ IsBool(text)
    \/ v.kind \in {"int", "int64", "float64"} /\ IsFloat(text) /\ v.text = Number(text)

StandsFor(v, source, said) ==
    IF source \in {"env", "flags"} THEN Spells(said.text, v) ELSE v = said

\* Precedence (mergeMaps, setPath, recordSources): the merged tree has exactly
\* the settings some source gave and no later source replaced, by a value, by a
\* group where the value was or by a value where its group was; each standing for
\* what the last source that gave it says, and with that source recorded, also
\* after the setting was hidden and given again.
LastSourceWins ==
    LET n == Len(given) IN
    /\ Paths(merged) = {p \in AllPaths(n) : Winners(n, p) # {}}
    /\ \A p \in Paths(merged) :
          LET source == given[Winner(n, p)] IN
          /\ StandsFor(At(merged, p), source[1], At(source[2], p))
          /\ sourceMap[p] = source[1]

\* validateSensitiveSources, maskMap: in an accepted configuration every secret
\* that is not empty came from the environment or the local file and is no
\* placeholder, and a summary never shows it, accepted or not.
SecretsContained ==
    /\ phase = Accepted =>
          \A p \in Paths(merged) : isSensitivePath(p) /\ At(merged, p).text # "" =>
             /\ given[Winner(Len(given), p)][1] \in {"env", "local"}
             /\ At(merged, p).text # "***"
    /\ \A p \in DOMAIN summary : isSensitivePath(p) => summary[p] = "***"

\* applyTypedOverrides: a number from a file that variables and flags override
\* with numbers only is still of the type it has in the file.
TypeKept ==
    \A p \in Paths(merged) :
       LET files == Cardinality({i \in DOMAIN given : given[i][1] \notin {"env", "flags"}})
           Numeric(i) == Gives(i, p) => IsInt(At(given[i][2], p).text)
       IN  (/\ Winners(files, p) # {}
            /\ At(given[Winner(files, p)][2], p).kind = "int"
            /\ \A i \in (files + 1) .. Len(given) : Numeric(i) /\ ~Hides(i, p))
              => At(merged, p).kind = "int"
=============================================================================
