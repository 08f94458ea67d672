---------------------------- MODULE MCFileStore ----------------------------
(* Finite instances of FileStore for TLC.                                  *)
EXTENDS FileStore

\* Two keys in a nested directory and one in the directory above it.
NestedKeys == << <<"d", "e", "x">>, <<"d", "e", "y">>, <<"d", "z">> >>
TopDir == {<<"d">>}

SlotSymmetry == Permutations(Slots)

\* A crash and all faults happen while nothing is listed; beside a listing there is
\* at most one of them, and then one call fewer.
FewFailuresListing ==
    \/ lister' = NewLister(lister.prefix)
    \/ crashes' + faults' = 0
    \/ crashes' + faults' = 1 /\ ops' < MaxOps

MCNext == Next /\ FewFailuresListing

MCSpec == Init /\ [][MCNext]_vars
=============================================================================
