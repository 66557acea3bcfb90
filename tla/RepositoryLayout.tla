-------------------------- MODULE RepositoryLayout --------------------------
(***************************************************************************)
(* What a community repository's archive has to look like: the operator    *)
(* reads it in memory and resolves what is to be installed (fetch.go,      *)
(* manifest.go and target.go of internal/communityrepo), and the scripts   *)
(* that run in the pod download it again and put it in place               *)
(* (community_repository_pod.go).                                          *)
(*                                                                         *)
(* An archive is a set of members: a path, which is a sequence of names, a *)
(* kind, a size, and what it says if it is a manifest.  The limits are     *)
(* scaled down.  A name is its base and its extension.                     *)
(***************************************************************************)
EXTENDS Integers, FiniteSets, SequencesExt

Categories == {"integration", "plugin", "theme", "python_script", "template"}

\* Bounds, for 20000 entries, 100 MiB, 32 MiB and 1 MiB.
MaxEntries == 5
MaxTotal == 4
MaxRetained == 2
MaxRetainedEntry == 1

Name(base, ext) == [base |-> base, ext |-> ext]
Dir(name) == Name(name, "")
Up == Dir("..")
Hacs == Name("hacs", "json")
Manifest == Name("manifest", "json")

Size(members) == Cardinality(UNION {{m} \X (1 .. m.size) : m \in members})

\* What hacs.json or a manifest.json says; or that it is not JSON, or too large.
Says(category, filename, domain) ==
    [category |-> category, filename |-> filename, domain |-> domain]
Nothing == Says("", <<>>, "")
Garbage == Says("garbage", <<>>, "")

\* What a function that can fail returns then.
Invalid == [source |-> <<>>, target |-> "invalid"]
NoTree == [files |-> {}, dirs |-> {<<Up>>}]

-----------------------------------------------------------------------------
(* fetch.go.                                                                *)

\* markParentDirs: the directories above a path.
Parents(path) == {SubSeq(path, 1, n) : n \in 1 .. Len(path) - 1}

\* extractTarGz: everything but directories and regular files is skipped.
Files(archive) == {m \in archive : m.kind = "file"}
TooBig(archive) ==
    \/ Cardinality(archive) > MaxEntries
    \/ Size(Files(archive)) > MaxTotal
    \/ Size({m \in Files(archive) : m.size <= MaxRetainedEntry}) > MaxRetained
Extract(archive) ==
    IF TooBig(archive) \/ \E m \in archive : m.path[1] = Up THEN NoTree
    ELSE [files |-> Files(archive),
          dirs |-> {m.path : m \in {d \in archive : d.kind = "dir"}} \cup
                   UNION {Parents(m.path) : m \in {d \in archive : d.kind \in {"dir", "file"}}}]

\* stripTopLevelDir.
StripTopLevelDir(tree) ==
    LET tops == {d \in tree.dirs : Len(d) = 1} IN
    IF Cardinality(tops) # 1 THEN NoTree
    ELSE [files |-> {[f EXCEPT !.path = Tail(@)] : f \in {g \in tree.files : Len(g.path) > 1}},
          dirs |-> {Tail(d) : d \in {e \in tree.dirs : Len(e) > 1}}]

\* FetchTarball, once the download has begun.
FetchTarball(archive) ==
    LET tree == Extract(archive) IN IF tree = NoTree THEN NoTree ELSE StripTopLevelDir(tree)

\* ReadFile and Exists: what a large file says is not kept.
Reads(tree, path) ==
    {IF f.size <= MaxRetainedEntry THEN f.says ELSE Garbage : f \in {g \in tree.files : g.path = path}}
Exists(tree, path) == path \in tree.dirs \/ \E f \in tree.files : f.path = path

\* ReadDir: the names of the files, and of the directories, directly inside.
DirectChild(dir, path) == Len(path) = Len(dir) + 1 /\ IsPrefix(dir, path)
FileNames(tree, dir) == {Last(f.path) : f \in {g \in tree.files : DirectChild(dir, g.path)}}
DirNames(tree, dir) == {Last(d) : d \in {e \in tree.dirs : DirectChild(dir, e)}}

-----------------------------------------------------------------------------
(* manifest.go.                                                             *)

Resolved(source, target) == [source |-> source, target |-> target]

\* Mutation of ResolveIntegration: the manifest is not read, the directory is the domain.
ResolveByDirectory(tree) ==
    LET dirs == DirNames(tree, <<Dir("custom_components")>>) IN
    IF Cardinality(dirs) # 1 THEN Invalid
    ELSE LET name == CHOOSE n \in dirs : TRUE IN
         Resolved(<<Dir("custom_components"), name>>, name.base)

\* resolveIntegration: one component, whose manifest names its domain.
ResolveIntegration(tree) ==
    LET dirs == DirNames(tree, <<Dir("custom_components")>>)
        path == <<Dir("custom_components"), CHOOSE n \in dirs : TRUE>>
        domains == {m.domain : m \in Reads(tree, Append(path, Manifest))} \ {""} IN
    IF Cardinality(dirs) # 1 \/ domains = {} THEN Invalid
    ELSE Resolved(path, CHOOSE d \in domains : TRUE)

\* resolveSingleFile: one file with one of the extensions; none means any.
ResolveSingleFile(tree, dir, extensions) ==
    LET matches == {n \in FileNames(tree, dir) : extensions = {} \/ n.ext \in extensions}
        match == CHOOSE n \in matches : TRUE IN
    IF (dir # <<>> /\ dir \notin tree.dirs) \/ Cardinality(matches) # 1 THEN Invalid
    ELSE Resolved(Append(dir, match), match.base)

\* resolvePlugin: the file that hacs.json names, or the one script there is.
ResolvePlugin(tree, hacs) ==
    IF hacs.filename = <<>> THEN ResolveSingleFile(tree, <<>>, {"js"})
    ELSE IF Exists(tree, hacs.filename)
         THEN Resolved(hacs.filename, Last(hacs.filename).base) ELSE Invalid

\* readHACSManifest: there may be none.
HacsManifest(tree) ==
    LET says == Reads(tree, <<Hacs>>) IN IF says = {} THEN Nothing ELSE CHOOSE h \in says : TRUE

\* ValidateAndResolve.
ValidateAndResolve(tree, category) ==
    LET hacs == HacsManifest(tree) IN
    IF tree = NoTree \/ hacs.category \notin {"", category} THEN Invalid
    ELSE CASE category = "integration" -> ResolveIntegration(tree)
           [] category = "plugin" -> ResolvePlugin(tree, hacs)
           [] category = "theme" ->
                  ResolveSingleFile(tree, <<Dir("themes")>>, {"yaml", "yml"})
           [] category = "python_script" ->
                  ResolveSingleFile(tree, <<Dir("python_scripts")>>, {"py"})
           [] category = "template" ->
                  ResolveSingleFile(tree, <<Dir("custom_templates")>>, {})

-----------------------------------------------------------------------------
(* fetch_and_place of the two scripts.                                      *)

\* integration_paths, of the init container's script only: a target has to be the name of one
\* directory.  "a/b" stands for all that have a slash.
Unsafe(category, target) == category = "integration" /\ target \in {"", ".", "..", "a/b"}

\* safe_extractall.
SafeExtract(archive) ==
    Size(Files(archive)) <= MaxTotal /\ \A m \in archive : m.path[1] # Up

\* The target, the top-level directory, the source in it, and for an integration its manifest.
TopLevel(archive) == {m.path[1] : m \in archive}
Places(archive, category, resolved) ==
    /\ ~Unsafe(category, resolved.target) /\ SafeExtract(archive) /\ Cardinality(TopLevel(archive)) = 1
    /\ \A top \in TopLevel(archive) :
          LET path == <<top>> \o resolved.source IN
          /\ \E m \in archive : m.kind # "link" /\ IsPrefix(path, m.path)
          /\ category = "integration" => \E m \in Files(archive) : m.path = Append(path, Manifest)
=============================================================================
