----------------------- MODULE MCCommunityRepository -----------------------
(***************************************************************************)
(* The archives that CommunityRepository is checked with, and what is      *)
(* checked of RepositoryLayout.                                            *)
(***************************************************************************)
EXTENDS CommunityRepository

Top == Dir("repository")
File(path, size, says) == [path |-> <<Top>> \o path, kind |-> "file", size |-> size, says |-> says]
Folder(path) == [path |-> <<Top>> \o path, kind |-> "dir", size |-> 0, says |-> Nothing]
Component(dir, domain) ==
    File(<<Dir("custom_components"), Dir(dir), Manifest>>, 0, Says("", <<>>, domain))
Theme(base) == File(<<Dir("themes"), Name(base, "yaml")>>, 1, Nothing)
Script(base) == File(<<Dir("python_scripts"), Name(base, "py")>>, 1, Nothing)
Declares(what) == File(<<Hacs>>, 0, Says(what, <<>>, ""))

\* The repositories install t or u, have a target that the script refuses, are not what they
\* are said to be, or are empty.
MCRefs == 1 .. 3
MCTargets == {"t", "u", ".."}
MCFirstRefs == {[a |-> 2, b |-> 1]}
MCMaxEvents == [integration |-> 2, theme |-> 1, python_script |-> 1]
MCArchive ==
    [integration |-> <<{Component("t", "t")}, {Component("u", "u")}, {Component("t", "..")}>>,
     theme |-> <<{Theme("t"), Declares("theme")}, {Theme("u")}, {Declares("plugin"), Theme("t")}>>,
     python_script |-> <<{Script("t")}, {Script("u")}, {}>>]

\* Archives with some of these: manifests, too large, of no domain or one that is no name,
\* themes, plugins, a directory of its own, a link within, a path that leads outside.
Components ==
    {Component("code", "t"), Component("more", ""), Component("away", ".."),
     Folder(<<Dir("custom_components"), Dir("code")>>),
     File(<<Dir("custom_components"), Dir("large"), Manifest>>, 2, Says("", <<>>, "u"))}
SingleFiles ==
    {Theme("t"), File(<<Dir("themes"), Name("u", "yml")>>, 2, Nothing),
     File(<<Name("t", "js")>>, 1, Nothing), File(<<Name("u", "js")>>, 1, Nothing)}
OtherMembers ==
    {File(<<Hacs>>, 0, Says("plugin", <<Name("u", "js")>>, "")),
     [path |-> <<Top, Dir("link")>>, kind |-> "link", size |-> 0, says |-> Nothing],
     [path |-> <<Up, Dir("x")>>, kind |-> "file", size |-> 0, says |-> Nothing]}
Members == Components \cup SingleFiles \cup OtherMembers
Samples == UNION {kSubset(n, Members) : n \in 0 .. MaxEntries + 1}

Placeable(c, archive) ==
    LET resolved == ValidateAndResolve(FetchTarball(archive), c) IN
    resolved = Invalid \/ Places(archive, c, resolved) \/ Unsafe(c, resolved.target)
Unplaceable == {p \in Categories \X Samples : ~Placeable(p[1], p[2])}
UnplaceableRefs == {p \in Used \X Refs : ~Placeable(p[1], Archive[p[1]][p[2]])}

\* What the operator validates, the scripts can put in place, unless it is an integration with
\* a domain that is no name, which the operator accepts: nothing is too large, the source is
\* there, and an integration has its manifest.  That is so of the samples and of the
\* repositories of the behaviour.  Archives with links that lead outside, which the scripts
\* refuse and the operator ignores, are not among them.
ValidatedIsPlaceable ==
    /\ Unplaceable = {}
    /\ \A ref \in Refs : <<chosen, ref>> \notin UnplaceableRefs
=============================================================================
