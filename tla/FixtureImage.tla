---------------------------- MODULE FixtureImage ----------------------------
(***************************************************************************)
(* From a FixtureImage to its build in internal/lab/docker/image.go:       *)
(* validate, the sorted COPY --chown lines of the Dockerfile and the build *)
(* context they copy from.                                                 *)
(*                                                                         *)
(* A path is a sequence of bytes, since both path.Clean and the sort order *)
(* work on them.  "/fixture" is shortened to "/f" and ".wh." to ".w".  The *)
(* builder is external: COPY creates missing parents for root and gives    *)
(* the owner only to a destination it creates itself.                      *)
(***************************************************************************)
EXTENDS Integers, Sequences, SequencesExt, FiniteSetsExt

CONSTANTS MaxPath,    \* bound: bytes of a path
          MaxDirs     \* bound: owned directories

Dollar == 36
Dot == 46
Slash == 47
Letters == {97, 102, 119}    \* a, f and w
Bytes == {Dollar, Dot, Slash} \cup Letters

fixtureBinary == <<Slash, 102>>
whiteoutPrefix == <<Dot, 119>>
maxID == 2147483647

VARIABLES
    dirs,     \* FixtureImage.Dirs as the lesson lists them
    named,    \* lesson, tag, package and user have the form validate asks for
    build,    \* "describing", "refused", "failed" or "built"
    fs        \* the image's files: path -> owner

imageVars == <<dirs, named, build, fs>>

RootId == 0
OwnerId == 1
OwnedDir(p, id) == [path |-> p, id |-> id]

-----------------------------------------------------------------------------
(* validate *)

ownedPathChar(c) == c # Dollar

Slashes(p) == {i \in 1..Len(p) : p[i] = Slash}
SegmentAfter(p, i) ==
    SubSeq(p, i + 1, Min({j \in Slashes(p) : j > i} \cup {Len(p) + 1}) - 1)
Segments(p) == {SegmentAfter(p, i) : i \in Slashes(p)}

\* path.Clean leaves an absolute path alone.
IsClean(p) == Segments(p) \cap {<<>>, <<Dot>>, <<Dot, Dot>>} = {}

validateOwnedPath(p) ==
    /\ p # <<>> /\ p[1] = Slash /\ p # <<Slash>>
    /\ \A i \in 1..Len(p) : ownedPathChar(p[i])
    /\ IsClean(p)
    /\ p # fixtureBinary /\ ~IsPrefix(Append(fixtureBinary, Slash), p)
    /\ \A s \in Segments(p) : ~IsPrefix(whiteoutPrefix, s)

validID(n) == n \in 0..maxID

validDir(d) == validateOwnedPath(d.path) /\ validID(d.id)

validate ==
    /\ named
    /\ \A i \in 1..Len(dirs) : validDir(dirs[i])
    /\ \A i, j \in 1..Len(dirs) : i # j => dirs[i].path # dirs[j].path

-----------------------------------------------------------------------------
(* Dockerfile and context *)

\* strings.Compare(p, q) < 0
Below(p, q) ==
    \/ IsStrictPrefix(p, q)
    \/ \E i \in 1..Min({Len(p), Len(q)}) :
        p[i] < q[i] /\ \A j \in 1..(i - 1) : p[j] = q[j]

\* Mutant of sortedDirs: the order of the caller.
callersDirs(ds) == ds

\* slices.SortFunc by path, for the distinct paths that validate leaves.
sortedDirs(ds) ==
    CHOOSE s \in [1..Len(ds) -> ToSet(ds)] :
        /\ ToSet(s) = ToSet(ds)
        /\ \A i, j \in 1..Len(ds) : i < j => Below(s[i].path, s[j].path)

ownedSrc(i) == <<"d", i>>

\* The COPY lines of the owned directories, in order.
fixtureDockerfile(ds) ==
    LET s == sortedDirs(ds)
    IN  [i \in 1..Len(s) |-> [src |-> ownedSrc(i), dst |-> s[i].path, owner |-> s[i].id]]

fixtureContext(ds) == {<<"fixture">>} \cup {ownedSrc(i) : i \in 1..Len(ds)}

-----------------------------------------------------------------------------
(* The builder *)

Parents(p) == {SubSeq(p, 1, i - 1) : i \in Slashes(p) \ {1}}

Copy(files, line) ==
    LET missing == (Parents(line.dst) \cup {line.dst}) \ DOMAIN files
    IN  [p \in DOMAIN files \cup missing |->
            IF p \in DOMAIN files THEN files[p]
            ELSE IF p = line.dst THEN line.owner ELSE RootId]

Scratch == [p \in {fixtureBinary} |-> RootId]

RunDockerfile(ds) == FoldLeft(Copy, Scratch, fixtureDockerfile(ds))

-----------------------------------------------------------------------------
ImageInit == dirs = <<>> /\ named \in BOOLEAN /\ build = "describing" /\ fs = Scratch

\* The lesson lists one more directory; after a bad name or directory the
\* rest makes no difference.
ListDir ==
    /\ build = "describing" /\ named /\ Len(dirs) < MaxDirs
    /\ \A i \in 1..Len(dirs) : validDir(dirs[i])
    /\ \E p \in SeqOf(Bytes, MaxPath), id \in {OwnerId, -1} :
        dirs' = Append(dirs, OwnedDir(p, id))
    /\ UNCHANGED <<named, build, fs>>

RefuseImage ==
    /\ build = "describing" /\ ~validate
    /\ build' = "refused" /\ UNCHANGED <<dirs, named, fs>>

\* The context is sent and the builder runs the Dockerfile.
BuildImage ==
    /\ build = "describing" /\ validate
    /\ LET lines == fixtureDockerfile(dirs)
       IN  IF \A i \in 1..Len(lines) : lines[i].src \in fixtureContext(dirs)
           THEN build' = "built" /\ fs' = RunDockerfile(dirs)
           ELSE build' = "failed" /\ UNCHANGED fs
    /\ UNCHANGED <<dirs, named>>

ImageNext == ListDir \/ RefuseImage \/ BuildImage

-----------------------------------------------------------------------------
(* Properties *)

\* "The order of Dirs does not matter": whatever the lesson lists, every listed
\* directory has its owner, every other path belongs to root, the binary
\* included, and no COPY misses its source.
OwnersAreAsListed ==
    /\ build # "failed"
    /\ build = "built" =>
        LET listed == {dirs[i].path : i \in 1..Len(dirs)}
        IN  /\ \A i \in 1..Len(dirs) : fs[dirs[i].path] = dirs[i].id
            /\ \A p \in DOMAIN fs \ listed : fs[p] = RootId
            /\ fixtureBinary \in DOMAIN fs \ listed
=============================================================================
