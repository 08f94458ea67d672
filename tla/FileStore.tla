----------------------------- MODULE FileStore -----------------------------
(***************************************************************************)
(* FileSystemDataStore: put writes a temporary file and renames it, remove  *)
(* unlinks the file and prunes the directories it leaves empty, clear       *)
(* removes the entries of the base directory one by one, list walks the     *)
(* directories and then reads the files of one page.                        *)
(*                                                                         *)
(* Every file-system call is awaited and those of different callers reach   *)
(* the disk in any order.  Each may also fail with an error that is no race  *)
(* of the store's own (EIO, EACCES, ENOSPC), which the store rethrows.  A    *)
(* crash ends all calls and keeps the disk.                                 *)
(* Paths are sequences of segments; a value is the number of its put.       *)
(***************************************************************************)
EXTENDS Integers, Sequences, SequencesExt

CONSTANTS
    KeyOrder,     \* the keys of the store, in the order keys.sort() gives
    Listed,     \* directories that are listed
    Slots,        \* puts, removes and clears in progress at a time
    Limits,       \* page limits of list (0 is no limit)
    MaxOps,       \* bound: calls started
    MaxCrashes,   \* bound: crashes
    MaxFaults     \* bound: file-system calls that fail with a rethrown error

Base == <<>>   \* the base directory

Members(s) == {s[i] : i \in DOMAIN s}

Keys == Members(KeyOrder)

ASSUME FileBoundsAssumption ==
    Limits \subseteq Nat /\ MaxOps \in Nat /\ MaxCrashes \in Nat /\ MaxFaults \in Nat

VARIABLES
    dirs,      \* the directories that exist
    files,     \* the .json files, a function on the keys that have one
    tmps,      \* the temporary files: [key, by], by the number of the put
    call,      \* call[s]: the put, remove or clear in slot s
    ops,       \* number of calls started
    crashes,   \* number of crashes
    faults,    \* number of rethrown errors
    strayTmps, \* temporary files whose put was cut off by an error or a crash
    strayDirs, \* directories that a call cut off so was to fill or to prune
    lister     \* a client that pages through list

disk == <<dirs, files, tmps>>
strays == <<strayTmps, strayDirs>>
calls == <<call, ops, crashes, faults, strays>>
vars == <<disk, calls, lister>>

Idle == [pc |-> "idle"]

\* dirname; and the directories on the way to a path, as mkdir -p makes them.
DirName(path) == SubSeq(path, 1, Len(path) - 1)
DirsTo(path) == {SubSeq(path, 1, n) : n \in 0..(Len(path) - 1)}

AllDirs == UNION {DirsTo(k) : k \in Keys}

ASSUME KeysAssumption ==
    /\ KeyOrder \in Seq(Keys)
    /\ \A k \in Keys : k # Base /\ k \in Seq(Members(k))
    /\ Listed \subseteq AllDirs
    /\ \A i, j \in DOMAIN KeyOrder : KeyOrder[i] = KeyOrder[j] => i = j

\* readdir: the directories, the .json files and the temporary files in d.
SubDirs(d) == {e \in dirs : e # Base /\ DirName(e) = d}
KeysIn(d)  == {k \in DOMAIN files : DirName(k) = d}
TmpsIn(d)  == {t \in tmps : DirName(t.key) = d}
IsEmpty(d) == SubDirs(d) = {} /\ KeysIn(d) = {} /\ TmpsIn(d) = {}

Keeping(f, keys) == [k \in DOMAIN f \cap keys |-> f[k]]

NewLister(d) ==
    [pc |-> "idle", prefix |-> d, cursor |-> Base, limit |-> 0, todo |-> {}, found |-> {},
     page |-> {}, got |-> <<>>, lost |-> FALSE, owed |-> {}]

Init ==
    /\ dirs = {} /\ tmps = {} /\ files = [k \in {} |-> 0]
    /\ call = [s \in Slots |-> Idle]
    /\ ops = 0 /\ crashes = 0 /\ faults = 0
    /\ strayTmps = {} /\ strayDirs = {}
    /\ \E d \in Listed : lister = NewLister(d)

Goes(s, c) == call' = [call EXCEPT ![s] = c]

Starts(s) ==
    /\ call[s] = Idle /\ ops < MaxOps
    /\ ops' = ops + 1
    /\ UNCHANGED crashes

Continues(s, pc) == call[s].pc = pc /\ UNCHANGED <<ops, crashes>>

Faultless == UNCHANGED faults

Faults == faults < MaxFaults /\ faults' = faults + 1

\* The directory that a call in progress is to fill or to prune.
Tends(c) ==
    CASE c.pc = "write"             -> {DirName(c.key)}
      [] c.pc \in {"prune", "rmdir"} -> {c.dir}
      [] OTHER                      -> {}

\* A remove or a clear that starts during a put may take its directory away.
Disturb == [t \in Slots |-> IF "alone" \in DOMAIN call[t]
                            THEN [call[t] EXCEPT !.alone = FALSE] ELSE call[t]]

----------------------------------------------------------------------------
(* put.                                                                    *)

\* Mutant: directories are made for the first put only.
MadeForOnce(key) == IF dirs = {} THEN DirsTo(key) ELSE {}

MadeFor(key) == DirsTo(key)

PutMkdir(s, key) ==
    /\ Starts(s) /\ Faultless
    /\ dirs' = dirs \cup MadeFor(key)
    /\ Goes(s, [pc |-> "write", key |-> key, by |-> ops + 1,
                alone |-> \A t \in Slots : call[t] = Idle \/ "alone" \in DOMAIN call[t]])
    /\ UNCHANGED <<files, tmps, strays, lister>>

\* mkdir fails on its way, with the directories made so far.
MkdirFails(s, key) ==
    /\ Starts(s) /\ Faults
    /\ \E d \in DirsTo(DirName(key)) :
          /\ dirs' = dirs \cup DirsTo(d) \cup {d}
          /\ strayDirs' = strayDirs \cup ({d} \ dirs)
    /\ UNCHANGED <<files, tmps, call, strayTmps, lister>>

\* Mutant: the file is written in place, then again by the rename.
PutWriteInPlace(s) ==
    LET c == call[s] IN
    /\ Continues(s, "write") /\ Faultless /\ DirName(c.key) \in dirs
    /\ files' = [k \in DOMAIN files \cup {c.key} |-> IF k = c.key THEN c.by ELSE files[k]]
    /\ tmps' = tmps \cup {[key |-> c.key, by |-> c.by]}
    /\ Goes(s, [c EXCEPT !.pc = "rename"])
    /\ UNCHANGED <<dirs, strays, lister>>

PutWrite(s) ==
    LET c == call[s] IN
    /\ Continues(s, "write") /\ Faultless /\ DirName(c.key) \in dirs
    /\ tmps' = tmps \cup {[key |-> c.key, by |-> c.by]}
    /\ Goes(s, [c EXCEPT !.pc = "rename"])
    /\ UNCHANGED <<dirs, files, strays, lister>>

PutRename(s) ==
    LET c == call[s] IN
    /\ Continues(s, "rename") /\ Faultless /\ [key |-> c.key, by |-> c.by] \in tmps
    /\ files' = [k \in DOMAIN files \cup {c.key} |-> IF k = c.key THEN c.by ELSE files[k]]
    /\ tmps' = tmps \ {[key |-> c.key, by |-> c.by]}
    /\ strayTmps' = strayTmps \cap tmps'
    /\ strayDirs' = strayDirs \ {DirName(c.key)}
    /\ Goes(s, Idle)
    /\ UNCHANGED <<dirs, lister>>

\* ENOENT: the directory, or the temporary file with it, is gone.
PutFails(s) ==
    LET c == call[s] IN
    /\ \/ Continues(s, "write") /\ DirName(c.key) \notin dirs
       \/ Continues(s, "rename") /\ [key |-> c.key, by |-> c.by] \notin tmps
    /\ Faultless
    /\ Goes(s, Idle)
    /\ UNCHANGED <<disk, strays, lister>>

\* writeFile or rename fails otherwise: the directory stays, and so does the
\* temporary file if it was opened.
PutErrors(s) ==
    LET c == call[s]
        t == [key |-> c.key, by |-> c.by]
    IN
    /\ \/ Continues(s, "write") /\ DirName(c.key) \in dirs
       \/ Continues(s, "rename") /\ t \in tmps
    /\ Faults
    /\ \E opened \in SUBSET {t} : tmps' = tmps \cup opened
    /\ strayTmps' = strayTmps \cup (tmps' \cap {t})
    /\ strayDirs' = strayDirs \cup {DirName(c.key)}
    /\ Goes(s, Idle)
    /\ UNCHANGED <<dirs, files, lister>>

----------------------------------------------------------------------------
(* remove and pruneEmptyDirs.                                              *)

RemoveUnlink(s, key) ==
    /\ Starts(s) /\ Faultless /\ key \in DOMAIN files
    /\ files' = Keeping(files, Keys \ {key})
    /\ call' = [Disturb EXCEPT ![s] = [pc |-> "prune", dir |-> DirName(key)]]
    /\ lister' = [lister EXCEPT !.owed = @ \ {key}]
    /\ UNCHANGED <<dirs, tmps, strays>>

PruneReads(s) ==
    LET d == call[s].dir IN
    /\ Continues(s, "prune") /\ Faultless /\ d # Base /\ d \in dirs /\ IsEmpty(d)
    /\ Goes(s, [pc |-> "rmdir", dir |-> d])
    /\ UNCHANGED <<disk, strays, lister>>

\* rmdir refuses a directory that is not empty.
StillEmpty(d) == IsEmpty(d)

\* Mutant: the pruning stops at the first directory.
NextUpStop(d) == Base

NextUp(d) == DirName(d)

PruneRmdir(s) ==
    LET d == call[s].dir IN
    /\ Continues(s, "rmdir") /\ Faultless /\ d \in dirs /\ StillEmpty(d)
    /\ dirs' = dirs \ {d}
    /\ strayDirs' = strayDirs \ {d}
    /\ Goes(s, [pc |-> "prune", dir |-> NextUp(d)])
    /\ UNCHANGED <<files, tmps, strayTmps, lister>>

\* At the base, or the directory is gone, in use or in use again.
PruneEnds(s) ==
    LET d == call[s].dir IN
    /\ \/ Continues(s, "prune") /\ (d = Base \/ d \notin dirs \/ ~IsEmpty(d))
       \/ Continues(s, "rmdir") /\ (d \notin dirs \/ ~StillEmpty(d))
    /\ Faultless
    /\ Goes(s, Idle)
    /\ UNCHANGED <<disk, strays, lister>>

\* Any other error of readdir or rmdir is rethrown: the remove has taken effect
\* and fails, and nobody prunes the directory any more.
PruneErrors(s) ==
    LET d == call[s].dir IN
    /\ Continues(s, "prune") \/ Continues(s, "rmdir")
    /\ Faults /\ d # Base /\ d \in dirs
    /\ strayDirs' = strayDirs \cup {d}
    /\ Goes(s, Idle)
    /\ UNCHANGED <<disk, strayTmps, lister>>

----------------------------------------------------------------------------
(* clear.                                                                  *)

\* The entries of the base directory are read; none if it does not exist.
ClearReads(s) ==
    /\ Starts(s) /\ Faultless
    /\ call' = [Disturb EXCEPT ![s] =
                   [pc |-> "clear",
                    todo |-> ({"dir"} \X SubDirs(Base)) \cup ({"file"} \X KeysIn(Base))
                                \cup ({"tmp"} \X TmpsIn(Base))]]
    /\ UNCHANGED <<disk, strays, lister>>

\* What rm -r of an entry takes: the entry, and all below it if a directory.
Below(entry, d) == entry[1] = "dir" /\ IsPrefix(entry[2], d)

ClearEntry(s) ==
    /\ Continues(s, "clear") /\ Faultless
    /\ \E e \in call[s].todo :
          LET kept == {k \in Keys : ~Below(e, DirName(k)) /\ e # <<"file", k>>} IN
          /\ dirs' = {d \in dirs : ~Below(e, d)}
          /\ files' = Keeping(files, kept)
          /\ tmps' = {t \in tmps : ~Below(e, DirName(t.key)) /\ e # <<"tmp", t>>}
          /\ lister' = [lister EXCEPT !.owed = @ \cap kept]
          /\ Goes(s, [call[s] EXCEPT !.todo = @ \ {e}])
    /\ strayDirs' = strayDirs \cap dirs'
    /\ strayTmps' = strayTmps \cap tmps'

\* rm of an entry fails when it has removed some of what is below it, a directory
\* after all that was in it: the clear goes no further.
ClearErrors(s) ==
    /\ Continues(s, "clear") /\ Faults
    /\ \E e \in call[s].todo :
          \E goneDirs \in SUBSET {d \in dirs : Below(e, d) /\ d # e[2]},
             goneKeys \in SUBSET {k \in DOMAIN files : Below(e, DirName(k))},
             goneTmps \in SUBSET {t \in tmps : Below(e, DirName(t.key))} :
             /\ \A d \in goneDirs : /\ {f \in dirs : d \in DirsTo(f)} \subseteq goneDirs
                                    /\ KeysIn(d) \subseteq goneKeys
                                    /\ TmpsIn(d) \subseteq goneTmps
             /\ dirs' = dirs \ goneDirs
             /\ files' = Keeping(files, Keys \ goneKeys)
             /\ tmps' = tmps \ goneTmps
             /\ strayDirs' = (strayDirs \ goneDirs) \cup {d \in dirs' : Below(e, d)}
             /\ lister' = [lister EXCEPT !.owed = @ \ goneKeys]
    /\ strayTmps' = strayTmps \cap tmps'
    /\ Goes(s, [call[s] EXCEPT !.todo = {}])

ClearEnds(s) ==
    /\ Continues(s, "clear") /\ Faultless /\ call[s].todo = {}
    /\ Goes(s, Idle)
    /\ UNCHANGED <<disk, strays, lister>>

----------------------------------------------------------------------------
(* list.                                                                   *)

ListBegin(limit) ==
    /\ lister.pc = "idle"
    /\ lister' = [lister EXCEPT !.pc = "walk", !.limit = limit, !.todo = {lister.prefix},
                                !.found = {},
                                !.owed = IF lister.cursor = Base
                                         THEN {k \in DOMAIN files : lister.prefix \in DirsTo(k)}
                                         ELSE @]
    /\ UNCHANGED <<disk, calls>>

\* collectFiles reads one directory; one that is gone has no entries.
Walk ==
    /\ lister.pc = "walk"
    /\ \E d \in lister.todo :
          lister' = [lister EXCEPT !.todo = (@ \ {d}) \cup SubDirs(d),
                                   !.found = @ \cup KeysIn(d)]
    /\ UNCHANGED <<disk, calls>>

\* The array of keys that list sorts is a set here, ordered by Place.
Place(key) == CHOOSE i \in DOMAIN KeyOrder : KeyOrder[i] = key

First(keys) == CHOOSE k \in keys : \A j \in keys : Place(k) <= Place(j)
Final(keys) == CHOOSE k \in keys : \A j \in keys : Place(j) <= Place(k)

\* slice(0, limit).
Slice(keys, limit) ==
    {k \in keys : Cardinality({j \in keys : Place(j) <= Place(k)}) <= limit}

\* A cursor that names no key is ignored.
AfterCursor(keys, cursor) ==
    IF cursor \in keys THEN {k \in keys : Place(cursor) < Place(k)} ELSE keys

\* Mutant: the cursor of the next page is the first key that page should have.
NextCursorPast(keys, limit) == First(keys \ Slice(keys, limit))

NextCursor(keys, limit) == Final(Slice(keys, limit))

Paginate ==
    LET keys == AfterCursor(lister.found, lister.cursor)
        more == lister.limit > 0 /\ Cardinality(keys) > lister.limit
    IN
    /\ lister.pc = "walk" /\ lister.todo = {}
    /\ lister' = [lister EXCEPT
                     !.pc = "read",
                     !.found = {},
                     !.page = IF more THEN Slice(keys, lister.limit) ELSE keys,
                     !.lost = @ \/ (lister.cursor # Base /\ lister.cursor \notin lister.found),
                     !.cursor = IF more THEN NextCursor(keys, lister.limit) ELSE Base]
    /\ UNCHANGED <<disk, calls>>

\* get: a file that is gone is left out.
ReadItem ==
    LET k == First(lister.page) IN
    /\ lister.pc = "read" /\ lister.page # {}
    /\ lister' = [lister EXCEPT !.page = @ \ {k},
                                !.got = IF k \in DOMAIN files THEN Append(@, k) ELSE @]
    /\ UNCHANGED <<disk, calls>>

\* The page is returned; without a next cursor it was the last.
ListEnds ==
    /\ lister.pc = "read" /\ lister.page = {}
    /\ lister' = [lister EXCEPT !.pc = IF lister.cursor = Base THEN "done" ELSE "idle"]
    /\ UNCHANGED <<disk, calls>>

\* A readdir or a readFile fails otherwise: the listing is over, and the client
\* may begin another.
ListErrors ==
    /\ lister.pc \in {"walk", "read"}
    /\ Faults
    /\ lister' = NewLister(lister.prefix)
    /\ UNCHANGED <<disk, call, ops, crashes, strays>>

----------------------------------------------------------------------------

Crash ==
    /\ crashes < MaxCrashes
    /\ crashes' = crashes + 1
    /\ call' = [s \in Slots |-> Idle]
    /\ strayTmps' = tmps
    /\ strayDirs' = strayDirs \cup (dirs \cap UNION {Tends(call[s]) : s \in Slots})
    /\ lister' = NewLister(lister.prefix)
    /\ UNCHANGED <<disk, ops, faults>>

PutCall(s) ==
    \/ PutWrite(s) \/ PutRename(s) \/ PutFails(s) \/ PutErrors(s)
    \/ \E k \in Keys : PutMkdir(s, k) \/ MkdirFails(s, k)

RemoveCall(s) ==
    \/ PruneReads(s) \/ PruneRmdir(s) \/ PruneEnds(s) \/ PruneErrors(s)
    \/ \E k \in Keys : RemoveUnlink(s, k)

ClearCall(s) == ClearReads(s) \/ ClearEntry(s) \/ ClearErrors(s) \/ ClearEnds(s)

List ==
    \/ Walk \/ Paginate \/ ReadItem \/ ListEnds \/ ListErrors
    \/ \E n \in Limits : ListBegin(n)

Next ==
    \/ \E s \in Slots : PutCall(s) \/ RemoveCall(s) \/ ClearCall(s)
    \/ List
    \/ Crash

Spec == Init /\ [][Next]_vars

----------------------------------------------------------------------------
(* Properties.                                                             *)

\* Every file and every temporary file is in a directory that exists, and so is
\* every directory: pruning never takes a directory another writer uses.
TypeOK ==
    /\ dirs \subseteq AllDirs /\ DOMAIN files \subseteq Keys
    /\ \A d \in dirs : DirsTo(d) \subseteq dirs
    /\ \A k \in DOMAIN files \cup {t.key : t \in tmps} : DirName(k) \in dirs
    /\ \A k \in DOMAIN files : files[k] \in 1..ops
    /\ strayTmps \subseteq tmps /\ strayDirs \subseteq dirs
    /\ \A s \in Slots : call[s].pc \in {"idle", "write", "rename", "prune", "rmdir", "clear"}

\* Between calls there is no temporary file but of a put that was cut off by an
\* error or a crash, and no empty directory but one a call cut off so had made,
\* was to fill or was to prune, and nobody has filled or pruned since: overlapping
\* removes, puts and clears leave nothing behind, and neither do the calls that
\* ran beside the one that failed (FileSystemDataStore.put, #pruneEmptyDirs).
NothingLeft ==
    (\A s \in Slots : call[s] = Idle) =>
        /\ tmps \subseteq strayTmps
        /\ {d \in dirs \ {Base} : IsEmpty(d)} \subseteq strayDirs

\* The disk is a tree at every moment, no file without its directory, and
\* between calls it holds nothing but the files, the directories they need and
\* what the calls that were cut off have left.
DiskSound == TypeOK /\ NothingLeft

\* A put fails for want of its directory only if a remove or a clear was in
\* progress at some time during it.
FailsOnlyDisturbed ==
    [][\A s \in Slots : PutFails(s) => ~call[s].alone]_vars

\* The pages of a listing come in the order of the keys, no key twice, while
\* puts and removes go on, unless the key that served as cursor was removed
\* before the next page was read (list ignores an unknown cursor).
PagesOrdered ==
    ~lister.lost =>
        \A i, j \in DOMAIN lister.got :
            i < j => Place(lister.got[i]) < Place(lister.got[j])

\* A listing read to its end has every key that was stored when it began and
\* has not been removed since.
ListsAll == lister.pc = "done" => lister.owed \subseteq Members(lister.got)

\* A listing is ordered, without repetition, and complete.
ListingSound == PagesOrdered /\ ListsAll

\* What a call in progress amounts to for the abstract store.
AbstractOp(c) ==
    CASE c.pc \in {"write", "rename"} -> [op |-> "put", key |-> c.key, value |-> c.by]
      [] c.pc \in {"prune", "rmdir"}  -> [op |-> "done"]
      [] c.pc = "clear"               -> [op |-> "clear"]
      [] OTHER                        -> [op |-> "none"]

\* The .json files are an atomic map: each put and each remove takes effect in
\* one step, a put that fails or is cut off by a crash has no effect, and
\* nothing else changes them.
Promise == INSTANCE DataStore WITH
    Values <- 1..MaxOps,
    map <- files,
    op <- [s \in Slots |-> AbstractOp(call[s])]

ImplementsDataStore == Promise!Spec
=============================================================================
