------------------------------- MODULE MCVfs -------------------------------
EXTENDS Vfs, TLC

D(n) == [fs |-> "disk", type |-> "dir", id |-> n]
F(n) == [fs |-> "disk", type |-> "file", id |-> n]

\* bin/init and an empty directory to mount on.
SmallTar ==
    <<[path |-> <<<<"bin">>>>, dir |-> TRUE],
      [path |-> <<<<"bin">>, SLASH, <<"init">>>>, dir |-> FALSE],
      [path |-> <<<<"m">>>>, dir |-> TRUE]>>

\* An unused entry, exFAT, another file system, and one beyond 2 TB.
SmallGpt ==
    <<[used |-> FALSE, beyond2tb |-> FALSE, name |-> <<"p1">>, exfat |-> FALSE],
      [used |-> TRUE, beyond2tb |-> FALSE, name |-> <<"p2">>, exfat |-> TRUE],
      [used |-> TRUE, beyond2tb |-> FALSE, name |-> <<"p3">>, exfat |-> FALSE],
      [used |-> TRUE, beyond2tb |-> TRUE, name |-> <<"p4">>, exfat |-> TRUE]>>

\* The root directory takes clusters 2 and 5, and the entries of its file are
\* split between them; the file takes clusters 6 and 4.
SmallPages ==
    2 :> <<[e |-> "label"], [e |-> "file", type |-> "dir"], [e |-> "info", start |-> 3, length |-> 1],
           [e |-> "name", part |-> <<"d">>], [e |-> "file", type |-> "file"]>>
    @@ 5 :> <<[e |-> "info", start |-> 6, length |-> 2], [e |-> "name", part |-> <<"f">>],
              [e |-> "name", part |-> <<"x">>], [e |-> "end"], [e |-> "file", type |-> "file"]>>
    @@ 3 :> <<[e |-> "file", type |-> "file"], [e |-> "info", start |-> 0, length |-> 0],
              [e |-> "name", part |-> <<"g">>], [e |-> "end"]>>

SmallFat == 2 :> 5 @@ 5 :> EOC @@ 3 :> EOC @@ 6 :> 4 @@ 4 :> EOC

SmallTree ==
    {[dir |-> D(2), name |-> <<"d">>, obj |-> D(3)],
     [dir |-> D(2), name |-> <<"f", "x">>, obj |-> F(6)],
     [dir |-> D(3), name |-> <<"g">>, obj |-> F(0)]}

OpenOf(path, create, truncate) == [op |-> "open", path |-> path, create |-> create, truncate |-> truncate]
MountOf(path, on, exfat) == [op |-> "mount", path |-> path, on |-> on, exfat |-> exfat]
MkdirOf(path) == [op |-> "mkdir", path |-> path]

M == <<"m">>
SmallCalls ==
    {MountOf(<<<<"dev">>, SLASH, <<"p2">>>>, <<M>>, TRUE),
     MountOf(<<<<"dev">>, SLASH, <<"p3">>>>, <<SLASH, M>>, TRUE),
     MountOf(<<<<"dev">>, SLASH, <<"zero">>>>, <<M, SLASH, <<"d">>>>, TRUE),
     MountOf(<<M, SLASH, <<"f", "x">>>>, <<<<"bin">>, SLASH, <<"init">>>>, FALSE),
     OpenOf(<<M, SLASH, <<"f", "x">>>>, TRUE, TRUE),
     OpenOf(<<M, SLASH, SLASH, <<"d">>, SLASH, <<"g">>, SLASH>>, FALSE, FALSE),
     OpenOf(<<M, SLASH, <<"d">>, SLASH, <<"g">>>>, FALSE, FALSE),
     OpenOf(<<<<"sys">>, SLASH, <<"meminfo">>>>, TRUE, TRUE),
     OpenOf(<<M, SLASH, <<"n">>>>, TRUE, FALSE),
     MkdirOf(<<M, SLASH, <<"d">>>>),
     MkdirOf(<<SLASH, M, SLASH, <<"n">>>>),
     MkdirOf(<<M, SLASH, <<"n">>, SLASH, <<"n">>>>)}

\* The phases behind the entries of each cluster.
Phases ==
    2 :> (0 :> "none" @@ 1 :> "none" @@ 2 :> "dir" @@ 3 :> "info" @@ 4 :> "name" @@ 5 :> "file")
    @@ 5 :> (0 :> "file" @@ 1 :> "info" @@ 2 :> "name" @@ 3 :> "name")
    @@ 3 :> (0 :> "none" @@ 1 :> "file" @@ 2 :> "info" @@ 3 :> "name")

\* The small disk is a volume of the kind the proofs suppose.
ASSUME DiskIsVolume == Grammar(Phases)

Symmetry == Permutations(Tasks)
=============================================================================
