-------------------------- MODULE FileStoreProofs --------------------------
(***************************************************************************)
(* The files on disk are an atomic map, the directories stay a tree with    *)
(* nothing left over but by the calls that an error or a crash cut off, a   *)
(* put finds its directory gone only next to a remove or a clear, and a      *)
(* listing read page by page is ordered and complete; for any keys, callers, *)
(* calls, errors and crashes.                                               *)
(***************************************************************************)
EXTENDS FileStore, FiniteSetTheorems, SequenceTheorems, WellFoundedInduction, TLAPS

----------------------------------------------------------------------------
(* Paths.                                                                  *)

Segments == UNION {Members(k) : k \in Keys}
Paths == Seq(Segments)

LEMMA KeyPaths == Keys \subseteq Paths /\ Base \in Paths /\ \A k \in Keys : k # Base
  <1>1. ASSUME NEW k \in Keys PROVE k \in Paths /\ k # Base
    <2>1. k \in Seq(Members(k)) /\ k # Base
      BY KeysAssumption
    <2>2. Members(k) \subseteq Segments
      BY DEF Segments
    <2> QED BY <2>1, <2>2 DEF Paths
  <1> QED BY <1>1 DEF Paths, Base

(* A prefix of a path, and the prefixes of that. *)
LEMMA PrefixFacts ==
    ASSUME NEW p \in Paths, NEW n \in 0 .. Len(p)
    PROVE  /\ SubSeq(p, 1, n) \in Paths /\ Len(SubSeq(p, 1, n)) = n
           /\ \A i \in 1 .. n : SubSeq(p, 1, n)[i] = p[i]
           /\ \A m \in 0 .. n : SubSeq(SubSeq(p, 1, n), 1, m) = SubSeq(p, 1, m)
  <1> Len(p) \in Nat
    BY DEF Paths
  <1>1. /\ SubSeq(p, 1, n) \in Paths /\ Len(SubSeq(p, 1, n)) = n
        /\ \A i \in 1 .. n : SubSeq(p, 1, n)[i] = p[i]
    BY SubSeqProperties DEF Paths
  <1>2. ASSUME NEW m \in 0 .. n PROVE SubSeq(SubSeq(p, 1, n), 1, m) = SubSeq(p, 1, m)
    <2> DEFINE q == SubSeq(p, 1, n)
    <2> HIDE DEF q
    <2>0. q \in Paths /\ Len(q) = n /\ \A i \in 1 .. n : q[i] = p[i]
      BY <1>1 DEF q
    <2>1. /\ SubSeq(p, 1, m) \in Seq(Segments) /\ Len(SubSeq(p, 1, m)) = m
          /\ \A i \in 1 .. m : SubSeq(p, 1, m)[i] = p[i]
      BY SubSeqProperties DEF Paths
    <2>2. /\ SubSeq(q, 1, m) \in Seq(Segments) /\ Len(SubSeq(q, 1, m)) = m
          /\ \A i \in 1 .. m : SubSeq(q, 1, m)[i] = q[i]
      BY <2>0, SubSeqProperties DEF Paths
    <2> QED BY <2>0, <2>1, <2>2, SeqEqual DEF q
  <1> QED BY <1>1, <1>2

(* The directory of a path is the longest on the way to it. *)
LEMMA DirNameFacts ==
    ASSUME NEW p \in Paths, p # Base
    PROVE  /\ DirName(p) \in Paths /\ DirName(p) \in DirsTo(p)
           /\ Len(DirName(p)) = Len(p) - 1
  <1>1. Len(p) \in Nat /\ Len(p) # 0
    BY EmptySeq DEF Paths, Base
  <1>2. Len(p) - 1 \in 0 .. Len(p) /\ Len(p) - 1 \in 0 .. (Len(p) - 1)
    BY <1>1
  <1>3. DirName(p) \in Paths /\ Len(DirName(p)) = Len(p) - 1
    BY <1>2, PrefixFacts DEF DirName
  <1>4. DirName(p) \in DirsTo(p)
    BY <1>2 DEF DirName, DirsTo
  <1> QED BY <1>3, <1>4

(* Directories on the way are paths, and so are those on the way to them.  *)
LEMMA DirsToFacts ==
    ASSUME NEW p \in Paths, NEW d \in DirsTo(p)
    PROVE  /\ d \in Paths /\ Len(d) < Len(p) /\ p # Base
           /\ DirsTo(d) \subseteq DirsTo(p)
           /\ \/ d = DirName(p)
              \/ \E c \in DirsTo(p) : c # Base /\ DirName(c) = d
  <1> PICK n \in 0 .. (Len(p) - 1) : d = SubSeq(p, 1, n)
    BY DEF DirsTo
  <1>0. Len(p) \in Nat /\ n \in 0 .. Len(p) /\ n + 1 \in 0 .. Len(p)
    BY DEF Paths
  <1>1. d \in Paths /\ Len(d) = n
    BY <1>0, PrefixFacts
  <1>2. p # Base
    BY <1>0, EmptySeq DEF Base
  <1>3. ASSUME NEW e \in DirsTo(d) PROVE e \in DirsTo(p)
    <2> PICK m \in 0 .. (Len(d) - 1) : e = SubSeq(d, 1, m)
      BY DEF DirsTo
    <2>1. m \in 0 .. n /\ m \in 0 .. (Len(p) - 1)
      BY <1>0, <1>1
    <2>2. e = SubSeq(p, 1, m)
      BY <1>0, <2>1, PrefixFacts
    <2> QED BY <2>1, <2>2 DEF DirsTo
  <1>4. CASE n = Len(p) - 1
    BY <1>0, <1>1, <1>2, <1>3, <1>4 DEF DirName
  <1>5. CASE n # Len(p) - 1
    <2> DEFINE c == SubSeq(p, 1, n + 1)
    <2>1. n + 1 \in 0 .. (Len(p) - 1)
      BY <1>0, <1>5
    <2>2. c \in DirsTo(p)
      BY <2>1 DEF DirsTo
    <2>3. Len(c) = n + 1 /\ SubSeq(c, 1, n) = d
      BY <1>0, PrefixFacts
    <2>4. c # Base /\ DirName(c) = d
      BY <1>0, <2>3, EmptySeq DEF DirName, Base
    <2> HIDE DEF c
    <2>5. Len(d) < Len(p)
      BY <1>0, <1>1
    <2> QED BY <1>1, <1>2, <1>3, <2>2, <2>4, <2>5
  <1> QED BY <1>4, <1>5

LEMMA DirsToBase == DirsTo(Base) = {}
  BY EmptySeq DEF DirsTo, Base

(* Deleting a directory takes all on the way below it. *)
LEMMA BelowFacts ==
    ASSUME NEW p \in Paths, NEW e \in Paths, Len(e) = 1
    PROVE  /\ \A d \in DirsTo(p) : IsPrefix(e, d) => IsPrefix(e, p)
           /\ p # Base /\ IsPrefix(e, p) => IsPrefix(e, DirName(p)) \/ DirName(p) = Base
  <1>0. Len(p) \in Nat
    BY DEF Paths
  <1>1. ASSUME NEW d \in DirsTo(p), IsPrefix(e, d) PROVE IsPrefix(e, p)
    <2> PICK n \in 0 .. (Len(p) - 1) : d = SubSeq(p, 1, n)
      BY DEF DirsTo
    <2>1. n \in 0 .. Len(p)
      BY <1>0
    <2>2. Len(d) = n
      BY <2>1, PrefixFacts
    <2>3. 1 <= n
      BY <1>1, <2>2 DEF IsPrefix
    <2>4. SubSeq(d, 1, 1) = SubSeq(p, 1, 1)
      BY <2>1, <2>3, PrefixFacts
    <2> QED BY <1>0, <1>1, <2>3, <2>4 DEF IsPrefix
  <1>2. ASSUME p # Base, IsPrefix(e, p), DirName(p) # Base PROVE IsPrefix(e, DirName(p))
    <2>1. Len(DirName(p)) = Len(p) - 1 /\ Len(DirName(p)) \in Nat \ {0}
      BY <1>2, DirNameFacts, EmptySeq DEF Paths, Base
    <2>2. Len(p) - 1 \in 0 .. Len(p) /\ 1 \in 0 .. (Len(p) - 1)
      BY <1>0, <2>1
    <2>3. SubSeq(DirName(p), 1, 1) = SubSeq(p, 1, 1)
      BY <2>2, PrefixFacts DEF DirName
    <2> QED BY <1>2, <2>1, <2>3 DEF IsPrefix
  <1> QED BY <1>1, <1>2

(* A directory of the store is a path, and those on the way to it are        *)
(* directories of the store.                                                 *)
LEMMA AllDirsFacts ==
    /\ AllDirs \subseteq Paths
    /\ \A k \in Keys : DirsTo(k) \subseteq AllDirs /\ DirName(k) \in DirsTo(k)
    /\ \A d \in AllDirs : DirsTo(d) \subseteq AllDirs
  <1>1. ASSUME NEW d \in AllDirs PROVE d \in Paths /\ DirsTo(d) \subseteq AllDirs
    <2> PICK k \in Keys : d \in DirsTo(k)
      BY DEF AllDirs
    <2>1. d \in Paths /\ DirsTo(d) \subseteq DirsTo(k)
      BY KeyPaths, DirsToFacts
    <2> QED BY <2>1 DEF AllDirs
  <1>2. \A k \in Keys : DirName(k) \in DirsTo(k)
    BY KeyPaths, DirNameFacts
  <1> QED BY <1>1, <1>2 DEF AllDirs

----------------------------------------------------------------------------
(* The inductive invariant.                                                *)

TmpType == [key : Keys, by : 1 .. MaxOps]

(* What clear finds in the base directory. *)
Entries ==
    ({"dir"} \X {d \in AllDirs : d # Base /\ DirName(d) = Base})
        \cup ({"file"} \X {k \in Keys : DirName(k) = Base})
        \cup ({"tmp"} \X {t \in TmpType : DirName(t.key) = Base})

PutType == [pc : {"write", "rename"}, key : Keys, by : 1 .. MaxOps, alone : BOOLEAN]

CallType ==
    {Idle} \cup PutType
        \cup [pc : {"prune"}, dir : AllDirs] \cup [pc : {"rmdir"}, dir : AllDirs \ {Base}]
        \cup [pc : {"clear"}, todo : SUBSET Entries]

CallsTyped ==
    /\ call \in [Slots -> CallType]
    /\ tmps \subseteq TmpType
    /\ ops \in 0 .. MaxOps /\ crashes \in Nat

(* The directories are a tree, and every file is in it. *)
Tree ==
    /\ dirs \subseteq AllDirs /\ DOMAIN files \subseteq Keys
    /\ \A d \in dirs : DirsTo(d) \subseteq dirs
    /\ \A k \in DOMAIN files \cup {t.key : t \in tmps} : DirName(k) \in dirs
    /\ \A k \in DOMAIN files : files[k] \in 1 .. ops

IsPut(s) == call[s].pc \in {"write", "rename"}

(* A remove at directory d, or a put about to write into it. *)
Cares(s, d) ==
    \/ call[s].pc \in {"prune", "rmdir"} /\ call[s].dir = d
    \/ call[s].pc = "write" /\ DirName(call[s].key) = d

(* The put in slot s is the one that renames t. *)
Renames(s, t) == call[s].pc = "rename" /\ call[s].key = t.key /\ call[s].by = t.by

(* Whatever would be left over has a call that deals with it, or is a stray. *)
CaredFor ==
    /\ \A t \in tmps : t \in strayTmps \/ \E s \in Slots : Renames(s, t)
    /\ \A d \in dirs \ {Base} :
          IsEmpty(d) => d \in strayDirs \/ \E s \in Slots : Cares(s, d)

StraysExist == strayTmps \subseteq tmps /\ strayDirs \subseteq dirs

(* A put that met no remove and no clear has its directory and its file. *)
PutsNumbered ==
    \A s \in Slots : IsPut(s) =>
        /\ call[s].by <= ops
        /\ \A t \in Slots \ {s} : IsPut(t) => call[t].by # call[s].by

PutsAlone ==
    \A s \in Slots : IsPut(s) /\ call[s].alone =>
        /\ \A t \in Slots : call[t].pc \notin {"prune", "rmdir", "clear"}
        /\ DirName(call[s].key) \in dirs
        /\ call[s].pc = "rename" => [key |-> call[s].key, by |-> call[s].by] \in tmps

DiskInv == CallsTyped /\ Tree /\ CaredFor /\ StraysExist /\ PutsNumbered /\ PutsAlone

----------------------------------------------------------------------------
(* Calls.                                                                  *)

LEMMA CallFacts ==
    ASSUME NEW c \in CallType
    PROVE  /\ c.pc \in {"idle", "write", "rename", "prune", "rmdir", "clear"}
           /\ c.pc = "idle" <=> c = Idle
           /\ c.pc \in {"write", "rename"} <=> c \in PutType
           /\ "alone" \in DOMAIN c <=> c \in PutType
           /\ c.pc \in {"prune", "rmdir"} => c.dir \in AllDirs
           /\ c.pc = "rmdir" => c.dir # Base
           /\ c.pc = "clear" => c.todo \subseteq Entries
  BY DEF CallType, PutType, Idle

LEMMA PutFacts ==
    ASSUME NEW c \in PutType
    PROVE  /\ c.key \in Keys /\ c.by \in 1 .. MaxOps
           /\ [key |-> c.key, by |-> c.by] \in TmpType
           /\ DirName(c.key) \in AllDirs
           /\ [c EXCEPT !.pc = "rename"] \in PutType
           /\ [c EXCEPT !.pc = "rename"].pc = "rename"
           /\ [c EXCEPT !.pc = "rename"].key = c.key
           /\ [c EXCEPT !.pc = "rename"].by = c.by
           /\ [c EXCEPT !.pc = "rename"].alone = c.alone
  <1>1. /\ c.key \in Keys /\ c.by \in 1 .. MaxOps
    BY DEF PutType
  <1>2. DirName(c.key) \in AllDirs
    BY <1>1, AllDirsFacts
  <1> QED BY <1>1, <1>2 DEF PutType, TmpType

(* Disturb only takes the mark alone from the puts. *)
LEMMA DisturbFacts ==
    ASSUME CallsTyped, NEW t \in Slots
    PROVE  /\ Disturb \in [Slots -> CallType]
           /\ Disturb[t].pc = call[t].pc
           /\ Disturb[t] \in PutType <=> call[t] \in PutType
           /\ call[t] \in PutType => /\ Disturb[t].key = call[t].key
                                     /\ Disturb[t].by = call[t].by
                                     /\ Disturb[t].alone = FALSE
           /\ call[t] \notin PutType => Disturb[t] = call[t]
  <1>1. ASSUME NEW u \in Slots, call[u] \in PutType
        PROVE  /\ Disturb[u] = [call[u] EXCEPT !.alone = FALSE]
               /\ Disturb[u] \in PutType
               /\ Disturb[u].pc = call[u].pc /\ Disturb[u].key = call[u].key
               /\ Disturb[u].by = call[u].by /\ Disturb[u].alone = FALSE
    <2>1. Disturb[u] = [call[u] EXCEPT !.alone = FALSE]
      BY <1>1, CallFacts DEF Disturb, CallsTyped
    <2> QED BY <1>1, <2>1 DEF PutType
  <1>2. ASSUME NEW u \in Slots, call[u] \notin PutType
        PROVE  Disturb[u] = call[u]
    BY <1>2, CallFacts DEF Disturb, CallsTyped
  <1>3. PutType \subseteq CallType
    BY DEF CallType
  <1>4. Disturb = [u \in Slots |-> Disturb[u]]
    BY DEF Disturb
  <1>5. Disturb \in [Slots -> CallType]
    BY <1>1, <1>2, <1>3, <1>4 DEF CallsTyped
  <1> QED BY <1>1, <1>2, <1>5

(* The slots after a call has moved on to c. *)
LEMMA GoesFacts ==
    ASSUME CallsTyped, NEW s \in Slots, NEW c \in CallType,
           \/ call' = [call EXCEPT ![s] = c]
           \/ call' = [Disturb EXCEPT ![s] = c]
    PROVE  /\ call' \in [Slots -> CallType]
           /\ call'[s] = c
           /\ \A t \in Slots \ {s} : call'[t] = call[t] \/ call'[t] = Disturb[t]
           /\ \A t \in Slots \ {s} :
                 /\ call'[t].pc = call[t].pc
                 /\ IsPut(t) => call'[t].key = call[t].key /\ call'[t].by = call[t].by
                 /\ ~IsPut(t) => call'[t] = call[t]
  <1>0. call \in [Slots -> CallType] /\ Disturb \in [Slots -> CallType]
    BY DisturbFacts DEF CallsTyped
  <1>1. /\ call' \in [Slots -> CallType] /\ call'[s] = c
        /\ \A t \in Slots \ {s} : call'[t] = call[t] \/ call'[t] = Disturb[t]
    BY <1>0
  <1>2. ASSUME NEW t \in Slots \ {s}
        PROVE  /\ call'[t].pc = call[t].pc
               /\ IsPut(t) => call'[t].key = call[t].key /\ call'[t].by = call[t].by
               /\ ~IsPut(t) => call'[t] = call[t]
    <2>1. IsPut(t) <=> call[t] \in PutType
      BY <1>0, CallFacts DEF IsPut
    <2>2. CASE call'[t] = call[t]
      BY <2>2
    <2>3. CASE call'[t] = Disturb[t]
      BY <2>1, <2>3, DisturbFacts
    <2> QED BY <1>1, <2>2, <2>3
  <1> QED BY <1>1, <1>2

LEMMA Idles == Idle \in CallType /\ Idle.pc = "idle" /\ Idle \notin PutType
  BY DEF CallType, Idle, PutType

----------------------------------------------------------------------------
(* Types and the tree.                                                     *)

(* The entries clear reads are entries of the base directory. *)
LEMMA ReadEntries ==
    ASSUME CallsTyped, Tree
    PROVE  ({"dir"} \X SubDirs(Base)) \cup ({"file"} \X KeysIn(Base))
              \cup ({"tmp"} \X TmpsIn(Base)) \subseteq Entries
  BY DEF SubDirs, KeysIn, TmpsIn, Entries, CallsTyped, Tree

LEMMA TypedInit == Init => CallsTyped /\ Tree
  <1> SUFFICES ASSUME Init PROVE CallsTyped /\ Tree
    OBVIOUS
  <1>1. CallsTyped
    BY FileBoundsAssumption, Idles DEF Init, CallsTyped
  <1>2. Tree
    BY DEF Init, Tree
  <1> QED BY <1>1, <1>2

(* Each action of a caller, with what it makes of its slot. *)
LEMMA TypedStep == CallsTyped /\ Tree /\ [Next]_vars => CallsTyped'
  <1> SUFFICES ASSUME CallsTyped, Tree, [Next]_vars PROVE CallsTyped'
    OBVIOUS
  <1>0. call \in [Slots -> CallType] /\ ops \in 0 .. MaxOps
    BY DEF CallsTyped
  <1>a. ASSUME NEW s \in Slots, NEW c \in CallType,
               \/ call' = [call EXCEPT ![s] = c]
               \/ call' = [Disturb EXCEPT ![s] = c],
               tmps' \subseteq tmps, UNCHANGED crashes,
               Starts(s) \/ UNCHANGED ops
        PROVE  CallsTyped'
    <2>1. ops' \in 0 .. MaxOps
      BY <1>a, FileBoundsAssumption DEF CallsTyped, Starts
    <2> QED BY <1>a, <2>1, GoesFacts DEF CallsTyped
  <1>1. ASSUME NEW s \in Slots, NEW k \in Keys, PutMkdir(s, k) PROVE CallsTyped'
    <2> DEFINE c == [pc |-> "write", key |-> k, by |-> ops + 1,
                     alone |-> \A t \in Slots : call[t] = Idle \/ "alone" \in DOMAIN call[t]]
    <2>1. ops + 1 \in 1 .. MaxOps
      BY <1>0, <1>1, FileBoundsAssumption DEF PutMkdir, Starts
    <2>2. c \in CallType
      BY <2>1 DEF CallType, PutType
    <2>3. /\ call' = [call EXCEPT ![s] = c] /\ Starts(s)
          /\ UNCHANGED <<crashes, tmps>>
      BY <1>1 DEF PutMkdir, Goes, Starts
    <2> HIDE DEF c
    <2> QED BY <1>a, <2>2, <2>3
  <1>2. ASSUME NEW s \in Slots, PutWrite(s) PROVE CallsTyped'
    <2>1. call[s] \in PutType
      BY <1>0, <1>2, CallFacts DEF PutWrite, Continues
    <2>2. [call[s] EXCEPT !.pc = "rename"] \in CallType
      BY <2>1, PutFacts DEF CallType
    <2>3. tmps' \subseteq TmpType
      BY <1>2, <2>1, PutFacts DEF PutWrite, CallsTyped
    <2>4. call' \in [Slots -> CallType]
      BY <1>0, <1>2, <2>2 DEF PutWrite, Goes
    <2> QED BY <1>2, <2>3, <2>4 DEF PutWrite, Continues, CallsTyped
  <1>3. ASSUME NEW s \in Slots, PutRename(s) PROVE CallsTyped'
    BY <1>3, <1>a, Idles DEF PutRename, Goes, Continues
  <1>4. ASSUME NEW s \in Slots, PutFails(s) PROVE CallsTyped'
    BY <1>4, <1>a, Idles DEF PutFails, Goes, Continues, disk
  <1>5. ASSUME NEW s \in Slots, NEW k \in Keys, RemoveUnlink(s, k) PROVE CallsTyped'
    <2> DEFINE c == [pc |-> "prune", dir |-> DirName(k)]
    <2>1. DirName(k) \in AllDirs
      BY AllDirsFacts
    <2>2. c \in CallType
      BY <2>1 DEF CallType
    <2>3. /\ call' = [Disturb EXCEPT ![s] = c] /\ Starts(s)
          /\ UNCHANGED <<crashes, tmps>>
      BY <1>5 DEF RemoveUnlink, Starts
    <2> HIDE DEF c
    <2> QED BY <1>a, <2>2, <2>3
  <1>6. ASSUME NEW s \in Slots, PruneReads(s) PROVE CallsTyped'
    <2> DEFINE c == [pc |-> "rmdir", dir |-> call[s].dir]
    <2>1. call[s].dir \in AllDirs \ {Base}
      BY <1>0, <1>6, CallFacts DEF PruneReads, Continues
    <2>2. c \in CallType
      BY <2>1 DEF CallType
    <2>3. call' = [call EXCEPT ![s] = c] /\ UNCHANGED <<crashes, tmps, ops>>
      BY <1>6 DEF PruneReads, Goes, Continues, disk
    <2> HIDE DEF c
    <2> QED BY <1>a, <2>2, <2>3
  <1>7. ASSUME NEW s \in Slots, PruneRmdir(s) PROVE CallsTyped'
    <2> DEFINE c == [pc |-> "prune", dir |-> NextUp(call[s].dir)]
    <2>1. call[s].dir \in AllDirs /\ call[s].dir # Base
      BY <1>0, <1>7, CallFacts DEF PruneRmdir, Continues
    <2>2. NextUp(call[s].dir) \in AllDirs
      BY <2>1, AllDirsFacts, DirNameFacts DEF NextUp
    <2>3. c \in CallType
      BY <2>2 DEF CallType
    <2>4. call' = [call EXCEPT ![s] = c] /\ UNCHANGED <<crashes, tmps, ops>>
      BY <1>7 DEF PruneRmdir, Goes, Continues
    <2> HIDE DEF c
    <2> QED BY <1>a, <2>3, <2>4
  <1>8. ASSUME NEW s \in Slots, PruneEnds(s) PROVE CallsTyped'
    BY <1>8, <1>a, Idles DEF PruneEnds, Goes, Continues, disk
  <1>9. ASSUME NEW s \in Slots, ClearReads(s) PROVE CallsTyped'
    <2> DEFINE c == [pc |-> "clear",
                     todo |-> ({"dir"} \X SubDirs(Base)) \cup ({"file"} \X KeysIn(Base))
                                \cup ({"tmp"} \X TmpsIn(Base))]
    <2>1. c \in CallType
      BY ReadEntries DEF CallType
    <2>2. /\ call' = [Disturb EXCEPT ![s] = c] /\ Starts(s)
          /\ UNCHANGED <<crashes, tmps>>
      BY <1>9 DEF ClearReads, Starts, disk
    <2> HIDE DEF c
    <2> QED BY <1>a, <2>1, <2>2
  <1>10. ASSUME NEW s \in Slots, ClearEntry(s) PROVE CallsTyped'
    <2> PICK e \in call[s].todo : Goes(s, [call[s] EXCEPT !.todo = @ \ {e}])
      BY <1>10 DEF ClearEntry
    <2>1. tmps' \subseteq tmps /\ UNCHANGED <<ops, crashes>>
      BY <1>10 DEF ClearEntry, Continues
    <2>2. [call[s] EXCEPT !.todo = @ \ {e}] \in CallType
      <3>1. call[s] \in [pc : {"clear"}, todo : SUBSET Entries]
        BY <1>0, <1>10 DEF ClearEntry, Continues, CallType, PutType, Idle
      <3> QED BY <3>1 DEF CallType
    <2> QED BY <1>a, <2>1, <2>2 DEF Goes
  <1>11. ASSUME NEW s \in Slots, ClearEnds(s) PROVE CallsTyped'
    BY <1>11, <1>a, Idles DEF ClearEnds, Goes, Continues, disk
  <1>12. CASE List
    BY <1>12
    DEF List, Walk, Paginate, ReadItem, ListEnds, ListErrors, ListBegin, disk, calls, CallsTyped
  <1>13. CASE Crash
    BY <1>13, Idles, FileBoundsAssumption DEF Crash, disk, CallsTyped
  <1>14. CASE UNCHANGED vars
    BY <1>14 DEF vars, disk, calls, CallsTyped
  <1>15. ASSUME NEW s \in Slots, NEW k \in Keys, MkdirFails(s, k) PROVE CallsTyped'
    <2>1. ops' \in 0 .. MaxOps
      BY <1>0, <1>15, FileBoundsAssumption DEF MkdirFails, Starts
    <2> QED BY <1>15, <2>1 DEF MkdirFails, Starts, CallsTyped
  <1>16. ASSUME NEW s \in Slots, PutErrors(s) PROVE CallsTyped'
    <2>1. call[s] \in PutType
      BY <1>0, <1>16, CallFacts DEF PutErrors, Continues
    <2>2. tmps' \subseteq tmps \cup {[key |-> call[s].key, by |-> call[s].by]}
      BY <1>16 DEF PutErrors
    <2>3. tmps' \subseteq TmpType
      BY <2>1, <2>2, PutFacts DEF CallsTyped
    <2>4. call' \in [Slots -> CallType]
      BY <1>0, <1>16, Idles DEF PutErrors, Goes
    <2> QED BY <1>16, <2>3, <2>4 DEF PutErrors, Continues, CallsTyped
  <1>17. ASSUME NEW s \in Slots, PruneErrors(s) PROVE CallsTyped'
    BY <1>17, <1>a, Idles DEF PruneErrors, Goes, Continues, disk
  <1>18. ASSUME NEW s \in Slots, ClearErrors(s) PROVE CallsTyped'
    <2>1. tmps' \subseteq tmps /\ UNCHANGED <<ops, crashes>>
      BY <1>18 DEF ClearErrors, Continues
    <2>2. [call[s] EXCEPT !.todo = {}] \in CallType
      <3>1. call[s] \in [pc : {"clear"}, todo : SUBSET Entries]
        BY <1>0, <1>18 DEF ClearErrors, Continues, CallType, PutType, Idle
      <3> QED BY <3>1 DEF CallType
    <2> QED BY <1>18, <1>a, <2>1, <2>2 DEF ClearErrors, Goes
  <1> QED
    BY <1>1, <1>2, <1>3, <1>4, <1>5, <1>6, <1>7, <1>8, <1>9, <1>10, <1>11, <1>12,
       <1>13, <1>14, <1>15, <1>16, <1>17, <1>18
    DEF Next, PutCall, RemoveCall, ClearCall

(* A step that keeps the disk keeps the tree. *)
LEMMA TreeKept ==
    ASSUME Tree, UNCHANGED disk, ops \in Nat, ops' = ops \/ ops' = ops + 1
    PROVE  Tree'
  BY DEF Tree, disk

(* A path below a directory that is empty does not exist. *)
LEMMA EmptyIsLeaf ==
    ASSUME Tree, NEW d \in dirs, IsEmpty(d), NEW e \in dirs
    PROVE  d \notin DirsTo(e)
  <1> SUFFICES ASSUME d \in DirsTo(e) PROVE FALSE
    OBVIOUS
  <1>1. e \in Paths /\ DirsTo(e) \subseteq dirs
    BY AllDirsFacts DEF Tree
  <1>2. e # Base
    BY DirsToBase
  <1>3. d = DirName(e) \/ \E c \in DirsTo(e) : c # Base /\ DirName(c) = d
    BY <1>1, DirsToFacts
  <1> QED BY <1>1, <1>2, <1>3 DEF IsEmpty, SubDirs

(* What clear takes for an entry is closed below it. *)
LEMMA EntryFacts ==
    ASSUME NEW e \in Entries
    PROVE  /\ \A p \in Paths : \A d \in DirsTo(p) : Below(e, d) => Below(e, p)
           /\ \A p \in Paths : p # Base /\ Below(e, p) =>
                                  Below(e, DirName(p)) \/ DirName(p) = Base
           /\ \A k \in Keys : e = <<"file", k>> => DirName(k) = Base
           /\ \A t : e = <<"tmp", t>> => DirName(t.key) = Base
  <1>1. CASE e[1] = "dir"
    <2>1. e[2] \in AllDirs /\ e[2] # Base /\ DirName(e[2]) = Base
      BY <1>1 DEF Entries
    <2>2. e[2] \in Paths /\ Len(e[2]) - 1 = 0 /\ Len(e[2]) \in Nat
      BY <2>1, AllDirsFacts, DirNameFacts, EmptySeq DEF Base, Paths
    <2>3. Len(e[2]) = 1
      BY <2>2
    <2> QED BY <1>1, <2>2, <2>3, BelowFacts DEF Below
  <1>2. CASE e[1] # "dir"
    BY <1>2 DEF Entries, Below
  <1> QED BY <1>1, <1>2

(* The disk after an entry is removed. *)
EntryRemoved(e) ==
    LET kept == {k \in Keys : ~Below(e, DirName(k)) /\ e # <<"file", k>>} IN
    /\ dirs' = {d \in dirs : ~Below(e, d)}
    /\ files' = Keeping(files, kept)
    /\ tmps' = {t \in tmps : ~Below(e, DirName(t.key)) /\ e # <<"tmp", t>>}

LEMMA ClearFacts ==
    ASSUME CallsTyped, NEW s \in Slots, ClearEntry(s)
    PROVE  /\ call[s].pc = "clear" /\ UNCHANGED <<ops, crashes>>
           /\ \E e \in Entries :
                 /\ EntryRemoved(e)
                 /\ call' = [call EXCEPT ![s] = [call[s] EXCEPT !.todo = @ \ {e}]]
  BY CallFacts DEF ClearEntry, Continues, CallsTyped, EntryRemoved, Goes

(* The disk after the removal of an entry has failed on its way. *)
EntryCut(e, goneDirs, goneKeys, goneTmps) ==
    /\ goneDirs \subseteq {d \in dirs : Below(e, d)}
    /\ goneKeys \subseteq {k \in DOMAIN files : Below(e, DirName(k))}
    /\ goneTmps \subseteq {t \in tmps : Below(e, DirName(t.key))}
    /\ \A d \in goneDirs : /\ {f \in dirs : d \in DirsTo(f)} \subseteq goneDirs
                           /\ KeysIn(d) \subseteq goneKeys
                           /\ TmpsIn(d) \subseteq goneTmps
    /\ dirs' = dirs \ goneDirs
    /\ files' = Keeping(files, Keys \ goneKeys)
    /\ tmps' = tmps \ goneTmps
    /\ strayDirs' = (strayDirs \ goneDirs) \cup {d \in dirs' : Below(e, d)}
    /\ lister' = [lister EXCEPT !.owed = @ \ goneKeys]

LEMMA CutFacts ==
    ASSUME CallsTyped, NEW s \in Slots, ClearErrors(s)
    PROVE  /\ call[s].pc = "clear" /\ UNCHANGED <<ops, crashes>>
           /\ strayTmps' = strayTmps \cap tmps'
           /\ call' = [call EXCEPT ![s] = [call[s] EXCEPT !.todo = {}]]
           /\ \E e \in Entries : \E goneDirs, goneKeys, goneTmps :
                 EntryCut(e, goneDirs, goneKeys, goneTmps)
  <1>1. call[s].pc = "clear" /\ call[s].todo \subseteq Entries
    BY CallFacts DEF ClearErrors, Continues, CallsTyped
  <1>2. PICK e \in call[s].todo :
          \E goneDirs, goneKeys, goneTmps : EntryCut(e, goneDirs, goneKeys, goneTmps)
    BY DEF ClearErrors, EntryCut
  <1> QED BY <1>1, <1>2 DEF ClearErrors, Continues, Goes

LEMMA TreeStep == CallsTyped /\ Tree /\ PutsNumbered /\ [Next]_vars => Tree'
  <1> SUFFICES ASSUME CallsTyped, Tree, PutsNumbered, [Next]_vars PROVE Tree'
    OBVIOUS
  <1>0. call \in [Slots -> CallType] /\ ops \in Nat
    BY DEF CallsTyped
  <1>1. ASSUME NEW s \in Slots, NEW k \in Keys, PutMkdir(s, k) PROVE Tree'
    <2>1. /\ dirs' = dirs \cup DirsTo(k) /\ files' = files /\ tmps' = tmps
          /\ ops' = ops + 1
      BY <1>1 DEF PutMkdir, MadeFor, Starts
    <2>2. DirsTo(k) \subseteq AllDirs /\ \A d \in DirsTo(k) : DirsTo(d) \subseteq DirsTo(k)
      BY AllDirsFacts, KeyPaths, DirsToFacts
    <2> QED BY <1>0, <2>1, <2>2 DEF Tree
  <1>2. ASSUME NEW s \in Slots, PutWrite(s) PROVE Tree'
    <2>1. /\ tmps' = tmps \cup {[key |-> call[s].key, by |-> call[s].by]}
          /\ DirName(call[s].key) \in dirs
          /\ dirs' = dirs /\ files' = files /\ ops' = ops
      BY <1>2 DEF PutWrite, Continues
    <2> QED BY <2>1 DEF Tree
  <1>3. ASSUME NEW s \in Slots, PutRename(s) PROVE Tree'
    <2> DEFINE c == call[s]
    <2>1. c \in PutType /\ c.by <= ops
      BY <1>0, <1>3, CallFacts DEF PutRename, Continues, PutsNumbered, IsPut
    <2>2. c.key \in Keys /\ c.by \in 1 .. ops
      BY <1>0, <2>1, FileBoundsAssumption DEF PutType
    <2>3. /\ [key |-> c.key, by |-> c.by] \in tmps
          /\ files' = [k \in DOMAIN files \cup {c.key} |-> IF k = c.key THEN c.by ELSE files[k]]
          /\ tmps' = tmps \ {[key |-> c.key, by |-> c.by]}
          /\ dirs' = dirs /\ ops' = ops
      BY <1>3 DEF PutRename, Continues
    <2> HIDE DEF c
    <2>4. DirName(c.key) \in dirs
      BY <2>3 DEF Tree
    <2> QED BY <2>2, <2>3, <2>4 DEF Tree
  <1>4. ASSUME NEW s \in Slots, PutFails(s) PROVE Tree'
    BY <1>0, <1>4, TreeKept DEF PutFails, Continues
  <1>5. ASSUME NEW s \in Slots, NEW k \in Keys, RemoveUnlink(s, k) PROVE Tree'
    <2>1. /\ files' = [j \in DOMAIN files \cap (Keys \ {k}) |-> files[j]]
          /\ dirs' = dirs /\ tmps' = tmps /\ ops' = ops + 1
      BY <1>5 DEF RemoveUnlink, Keeping, Starts
    <2> QED BY <1>0, <2>1 DEF Tree
  <1>6. ASSUME NEW s \in Slots, PruneReads(s) PROVE Tree'
    BY <1>0, <1>6, TreeKept DEF PruneReads, Continues
  <1>7. ASSUME NEW s \in Slots, PruneRmdir(s) PROVE Tree'
    <2> DEFINE d == call[s].dir
    <2>1. /\ d \in dirs /\ IsEmpty(d) /\ dirs' = dirs \ {d}
          /\ files' = files /\ tmps' = tmps /\ ops' = ops
      BY <1>7 DEF PruneRmdir, Continues, StillEmpty
    <2> HIDE DEF d
    <2>2. \A e \in dirs' : DirsTo(e) \subseteq dirs'
      BY <2>1, EmptyIsLeaf DEF Tree
    <2>3. \A k \in DOMAIN files \cup {t.key : t \in tmps} : DirName(k) \in dirs'
      BY <2>1 DEF Tree, IsEmpty, KeysIn, TmpsIn
    <2> QED BY <2>1, <2>2, <2>3 DEF Tree
  <1>8. ASSUME NEW s \in Slots, PruneEnds(s) PROVE Tree'
    BY <1>0, <1>8, TreeKept DEF PruneEnds, Continues
  <1>9. ASSUME NEW s \in Slots, ClearReads(s) PROVE Tree'
    BY <1>0, <1>9, TreeKept DEF ClearReads, Starts
  <1>10. ASSUME NEW s \in Slots, ClearEntry(s) PROVE Tree'
    <2>1. PICK e \in Entries : EntryRemoved(e) /\ UNCHANGED <<ops, crashes>>
      BY <1>10, ClearFacts
    <2>2. /\ dirs' = {d \in dirs : ~Below(e, d)}
          /\ DOMAIN files' \subseteq DOMAIN files
          /\ \A k \in DOMAIN files' : files'[k] = files[k] /\ ~Below(e, DirName(k))
          /\ \A t \in tmps' : t \in tmps /\ ~Below(e, DirName(t.key))
          /\ ops' = ops
      BY <2>1 DEF EntryRemoved, Keeping
    <2>3. \A d \in dirs' : DirsTo(d) \subseteq dirs'
      BY <2>2, EntryFacts, AllDirsFacts DEF Tree
    <2>4. \A k \in DOMAIN files' \cup {t.key : t \in tmps'} : DirName(k) \in dirs'
      BY <2>2 DEF Tree
    <2> QED BY <2>2, <2>3, <2>4 DEF Tree
  <1>11. ASSUME NEW s \in Slots, ClearEnds(s) PROVE Tree'
    BY <1>0, <1>11, TreeKept DEF ClearEnds, Continues
  <1>12. CASE List
    BY <1>0, <1>12, TreeKept
    DEF List, Walk, Paginate, ReadItem, ListEnds, ListErrors, ListBegin, calls
  <1>13. CASE Crash
    BY <1>0, <1>13, TreeKept DEF Crash
  <1>14. CASE UNCHANGED vars
    BY <1>0, <1>14, TreeKept DEF vars, calls
  <1>15. ASSUME NEW s \in Slots, NEW k \in Keys, MkdirFails(s, k) PROVE Tree'
    <2>1. PICK d \in DirsTo(DirName(k)) :
             /\ dirs' = dirs \cup DirsTo(d) \cup {d} /\ files' = files /\ tmps' = tmps
             /\ ops' = ops + 1
      BY <1>15 DEF MkdirFails, Starts
    <2>2. DirName(k) \in AllDirs
      BY AllDirsFacts
    <2>3. d \in AllDirs
      BY <2>2, AllDirsFacts
    <2>4. d \in Paths /\ DirsTo(d) \subseteq AllDirs
      BY <2>3, AllDirsFacts
    <2>5. \A f \in DirsTo(d) : DirsTo(f) \subseteq DirsTo(d)
      BY <2>4, DirsToFacts
    <2> QED BY <1>0, <2>1, <2>3, <2>4, <2>5 DEF Tree
  <1>16. ASSUME NEW s \in Slots, PutErrors(s) PROVE Tree'
    <2> DEFINE t == [key |-> call[s].key, by |-> call[s].by]
    <2>1. /\ tmps' \subseteq tmps \cup {t}
          /\ DirName(call[s].key) \in dirs \/ t \in tmps
          /\ dirs' = dirs /\ files' = files /\ ops' = ops
      BY <1>16 DEF PutErrors, Continues
    <2>2. t.key = call[s].key
      OBVIOUS
    <2> HIDE DEF t
    <2> QED BY <2>1, <2>2 DEF Tree
  <1>17. ASSUME NEW s \in Slots, PruneErrors(s) PROVE Tree'
    BY <1>0, <1>17, TreeKept DEF PruneErrors, Continues
  <1>18. ASSUME NEW s \in Slots, ClearErrors(s) PROVE Tree'
    <2>1. PICK e \in Entries : \E goneDirs, goneKeys, goneTmps :
                                   EntryCut(e, goneDirs, goneKeys, goneTmps)
      BY <1>18, CutFacts
    <2>2. PICK goneDirs, goneKeys, goneTmps : EntryCut(e, goneDirs, goneKeys, goneTmps)
      BY <2>1
    <2>3. /\ dirs' = dirs \ goneDirs
          /\ DOMAIN files' = DOMAIN files \ goneKeys
          /\ \A k \in DOMAIN files' : files'[k] = files[k]
          /\ tmps' = tmps \ goneTmps /\ ops' = ops
      BY <1>18, <2>2, CutFacts DEF EntryCut, Keeping, Tree
    <2>4. \A d \in dirs' : DirsTo(d) \subseteq dirs'
      BY <2>2, <2>3 DEF EntryCut, Tree
    <2>5. \A k \in DOMAIN files' : DirName(k) \in dirs'
      BY <2>2, <2>3 DEF EntryCut, Tree, KeysIn
    <2>6. \A t \in tmps' : DirName(t.key) \in dirs'
      BY <2>2, <2>3 DEF EntryCut, Tree, TmpsIn
    <2> QED BY <2>3, <2>4, <2>5, <2>6 DEF Tree
  <1> QED
    BY <1>1, <1>2, <1>3, <1>4, <1>5, <1>6, <1>7, <1>8, <1>9, <1>10, <1>11, <1>12,
       <1>13, <1>14, <1>15, <1>16, <1>17, <1>18
    DEF Next, PutCall, RemoveCall, ClearCall

----------------------------------------------------------------------------
(* Puts are told apart, and fail only when disturbed.                      *)

(* A call moves on: it is no put, the same put, or a put with a new number. *)
LEMMA NumberedKept ==
    ASSUME CallsTyped, PutsNumbered, NEW s \in Slots, NEW c \in CallType,
           \/ call' = [call EXCEPT ![s] = c]
           \/ call' = [Disturb EXCEPT ![s] = c],
           ops' = ops \/ ops' = ops + 1,
           \/ c.pc \notin {"write", "rename"}
           \/ IsPut(s) /\ c.by = call[s].by
           \/ c.by = ops + 1 /\ ops' = ops + 1
    PROVE  PutsNumbered'
  <1>0. ops \in Nat /\ \A t \in Slots : IsPut(t) => call[t].by \in Nat
    BY CallFacts DEF CallsTyped, IsPut, PutType
  <1>1. /\ call'[s] = c
        /\ \A t \in Slots \ {s} :
              /\ IsPut(t)' <=> IsPut(t)
              /\ IsPut(t) => call'[t].by = call[t].by
    BY GoesFacts DEF IsPut
  <1>2. \A t \in Slots : IsPut(t) => call[t].by <= ops
    BY DEF PutsNumbered
  <1>3. \A t, u \in Slots : t # u /\ IsPut(t) /\ IsPut(u) => call[u].by # call[t].by
    BY DEF PutsNumbered
  <1>4. CASE c.pc \notin {"write", "rename"}
    <2>1. ~IsPut(s)'
      BY <1>1, <1>4 DEF IsPut
    <2> QED BY <1>0, <1>1, <1>2, <1>3, <2>1 DEF PutsNumbered
  <1>5. CASE IsPut(s) /\ c.by = call[s].by
    BY <1>0, <1>1, <1>2, <1>3, <1>5 DEF PutsNumbered
  <1>6. CASE c.by = ops + 1 /\ ops' = ops + 1
    BY <1>0, <1>1, <1>2, <1>3, <1>6 DEF PutsNumbered
  <1> QED BY <1>4, <1>5, <1>6

LEMMA NumberedStep == CallsTyped /\ Tree /\ PutsNumbered /\ [Next]_vars => PutsNumbered'
  <1> SUFFICES ASSUME CallsTyped, Tree, PutsNumbered, [Next]_vars PROVE PutsNumbered'
    OBVIOUS
  <1>0. call \in [Slots -> CallType] /\ CallsTyped'
    BY TypedStep DEF CallsTyped
  <1>a. ASSUME NEW s \in Slots, Goes(s, Idle), UNCHANGED ops PROVE PutsNumbered'
    BY <1>a, Idles, NumberedKept DEF Goes
  <1>b. ASSUME NEW s \in Slots, NEW c, c.pc \notin {"write", "rename"},
               \/ call' = [call EXCEPT ![s] = c]
               \/ call' = [Disturb EXCEPT ![s] = c],
               ops' = ops \/ ops' = ops + 1
        PROVE  PutsNumbered'
    <2>1. call'[s] = c
      BY <1>0, <1>b, DisturbFacts
    <2>2. c \in CallType
      BY <1>0, <2>1 DEF CallsTyped
    <2> QED BY <1>b, <2>2, NumberedKept
  <1>1. ASSUME NEW s \in Slots, NEW k \in Keys, PutMkdir(s, k) PROVE PutsNumbered'
    <2> DEFINE c == [pc |-> "write", key |-> k, by |-> ops + 1,
                     alone |-> \A t \in Slots : call[t] = Idle \/ "alone" \in DOMAIN call[t]]
    <2>1. call' = [call EXCEPT ![s] = c] /\ c.by = ops + 1 /\ ops' = ops + 1
      BY <1>1 DEF PutMkdir, Goes, Starts
    <2> HIDE DEF c
    <2>2. c \in CallType
      BY <1>0, <2>1 DEF CallsTyped
    <2> QED BY <2>1, <2>2, NumberedKept
  <1>2. ASSUME NEW s \in Slots, PutWrite(s) PROVE PutsNumbered'
    <2>1. call[s] \in PutType /\ IsPut(s)
      BY <1>0, <1>2, CallFacts DEF PutWrite, Continues, IsPut
    <2> DEFINE c == [call[s] EXCEPT !.pc = "rename"]
    <2>2. c \in CallType /\ c.by = call[s].by
      BY <2>1, PutFacts DEF CallType
    <2>3. call' = [call EXCEPT ![s] = c] /\ ops' = ops
      BY <1>2 DEF PutWrite, Goes, Continues
    <2> HIDE DEF c
    <2> QED BY <2>1, <2>2, <2>3, NumberedKept
  <1>3. ASSUME NEW s \in Slots,
               \/ PutRename(s) \/ PutFails(s) \/ PutErrors(s)
               \/ PruneEnds(s) \/ PruneErrors(s) \/ ClearEnds(s)
        PROVE  PutsNumbered'
    BY <1>3, <1>a
    DEF PutRename, PutFails, PutErrors, PruneEnds, PruneErrors, ClearEnds, Continues
  <1>4. ASSUME NEW s \in Slots, NEW k \in Keys, MkdirFails(s, k) PROVE PutsNumbered'
    <2>1. call' = call /\ ops' = ops + 1 /\ ops \in Nat
      BY <1>4 DEF MkdirFails, Starts, CallsTyped
    <2>2. \A t \in Slots : IsPut(t) => call[t].by \in Nat
      <3>1. \A t \in Slots : IsPut(t) => call[t] \in PutType
        BY <1>0, CallFacts DEF IsPut
      <3> QED BY <3>1 DEF PutType
    <2>3. \A t \in Slots : IsPut(t) => call[t].by <= ops'
      BY <2>1, <2>2 DEF PutsNumbered
    <2> QED BY <2>1, <2>3 DEF PutsNumbered, IsPut
  <1>5. ASSUME NEW s \in Slots, NEW k \in Keys, RemoveUnlink(s, k) PROVE PutsNumbered'
    <2> DEFINE c == [pc |-> "prune", dir |-> DirName(k)]
    <2>1. call' = [Disturb EXCEPT ![s] = c] /\ c.pc = "prune" /\ ops' = ops + 1
      BY <1>5 DEF RemoveUnlink, Starts
    <2> HIDE DEF c
    <2> QED BY <2>1, <1>b
  <1>6. ASSUME NEW s \in Slots, PruneReads(s) \/ PruneRmdir(s) PROVE PutsNumbered'
    BY <1>6, <1>b DEF PruneReads, PruneRmdir, Goes, Continues
  <1>9. ASSUME NEW s \in Slots, ClearReads(s) PROVE PutsNumbered'
    <2> DEFINE c == [pc |-> "clear",
                     todo |-> ({"dir"} \X SubDirs(Base)) \cup ({"file"} \X KeysIn(Base))
                                \cup ({"tmp"} \X TmpsIn(Base))]
    <2>1. call' = [Disturb EXCEPT ![s] = c] /\ c.pc = "clear" /\ ops' = ops + 1
      BY <1>9 DEF ClearReads, Starts
    <2> HIDE DEF c
    <2> QED BY <2>1, <1>b
  <1>10. ASSUME NEW s \in Slots, ClearEntry(s) PROVE PutsNumbered'
    <2> PICK e \in Entries : call' = [call EXCEPT ![s] = [call[s] EXCEPT !.todo = @ \ {e}]]
      BY <1>10, ClearFacts
    <2> DEFINE c == [call[s] EXCEPT !.todo = @ \ {e}]
    <2>1. c.pc = call[s].pc
      OBVIOUS
    <2>2. call[s].pc = "clear" /\ ops' = ops
      BY <1>10, ClearFacts
    <2>3. call' = [call EXCEPT ![s] = c]
      OBVIOUS
    <2> HIDE DEF c
    <2> QED BY <2>1, <2>2, <2>3, <1>b
  <1>11. ASSUME NEW s \in Slots, ClearErrors(s) PROVE PutsNumbered'
    <2> DEFINE c == [call[s] EXCEPT !.todo = {}]
    <2>1. c.pc = call[s].pc
      OBVIOUS
    <2>2. call[s].pc = "clear" /\ ops' = ops /\ call' = [call EXCEPT ![s] = c]
      BY <1>11, CutFacts
    <2> HIDE DEF c
    <2> QED BY <2>1, <2>2, <1>b
  <1>12. CASE List
    BY <1>12
    DEF List, Walk, Paginate, ReadItem, ListEnds, ListErrors, ListBegin, calls,
        PutsNumbered, IsPut
  <1>13. CASE Crash
    BY <1>13, Idles DEF Crash, PutsNumbered, IsPut
  <1>14. CASE UNCHANGED vars
    BY <1>14 DEF vars, calls, PutsNumbered, IsPut
  <1> QED
    BY <1>1, <1>2, <1>3, <1>4, <1>5, <1>6, <1>9, <1>10, <1>11, <1>12, <1>13, <1>14
    DEF Next, PutCall, RemoveCall, ClearCall

(* A put that was alone still is, unless a remove or a clear moves. *)
LEMMA AloneStep ==
    CallsTyped /\ Tree /\ PutsNumbered /\ PutsAlone /\ [Next]_vars => PutsAlone'
  <1> SUFFICES ASSUME CallsTyped, Tree, PutsNumbered, PutsAlone, [Next]_vars
               PROVE  PutsAlone'
    OBVIOUS
  <1>0. call \in [Slots -> CallType] /\ CallsTyped' /\ call' \in [Slots -> CallType]
    BY TypedStep DEF CallsTyped
  <1>a. ASSUME NEW s \in Slots, NEW c, call' = [Disturb EXCEPT ![s] = c],
               c.pc \notin {"write", "rename"}
        PROVE  PutsAlone'
    <2>1. call'[s] = c /\ \A t \in Slots \ {s} : call'[t] = Disturb[t]
      BY <1>a, DisturbFacts
    <2>2. \A t \in Slots \ {s} : IsPut(t)' => call'[t].alone = FALSE
      BY <1>0, <2>1, DisturbFacts, CallFacts DEF IsPut
    <2> QED BY <1>a, <2>1, <2>2 DEF PutsAlone, IsPut
  <1>b. ASSUME NEW s \in Slots, call[s].pc \in {"prune", "rmdir", "clear"},
               call'[s].pc \notin {"write", "rename"},
               \A t \in Slots \ {s} : call'[t] = call[t]
        PROVE  PutsAlone'
    BY <1>b DEF PutsAlone, IsPut
  <1>c. ASSUME NEW s \in Slots, call' = [call EXCEPT ![s] = Idle], dirs' = dirs,
               \A t \in Slots \ {s} :
                   IsPut(t) /\ [key |-> call[t].key, by |-> call[t].by] \in tmps =>
                       [key |-> call[t].key, by |-> call[t].by] \in tmps'
        PROVE  PutsAlone'
    <2>1. call'[s] = Idle /\ \A t \in Slots \ {s} : call'[t] = call[t]
      BY <1>0, <1>c
    <2> QED BY <1>c, <2>1, Idles DEF PutsAlone, IsPut
  <1>1. ASSUME NEW s \in Slots, NEW k \in Keys, PutMkdir(s, k) PROVE PutsAlone'
    <2> DEFINE free == \A t \in Slots : call[t] = Idle \/ "alone" \in DOMAIN call[t]
               c == [pc |-> "write", key |-> k, by |-> ops + 1, alone |-> free]
    <2>1. /\ c.pc = "write" /\ c.key = k /\ c.alone = free
          /\ call'[s] = c /\ \A t \in Slots \ {s} : call'[t] = call[t]
      BY <1>0, <1>1 DEF PutMkdir, Goes
    <2>2. dirs' = dirs \cup DirsTo(k) /\ tmps' = tmps
      BY <1>1 DEF PutMkdir, MadeFor
    <2>3. free => \A t \in Slots : call[t].pc \notin {"prune", "rmdir", "clear"}
      BY <1>0, CallFacts, Idles
    <2>4. DirName(k) \in dirs'
      BY <2>2, AllDirsFacts
    <2> HIDE DEF c, free
    <2> QED BY <2>1, <2>2, <2>3, <2>4 DEF PutsAlone, IsPut
  <1>2. ASSUME NEW s \in Slots, PutWrite(s) PROVE PutsAlone'
    <2>1. call[s] \in PutType /\ call[s].pc = "write"
      BY <1>0, <1>2, CallFacts DEF PutWrite, Continues
    <2> DEFINE c == [call[s] EXCEPT !.pc = "rename"]
    <2>2. /\ c.pc = "rename" /\ c.key = call[s].key /\ c.by = call[s].by
          /\ c.alone = call[s].alone
      BY <2>1, PutFacts
    <2>3. /\ call'[s] = c /\ \A t \in Slots \ {s} : call'[t] = call[t]
          /\ dirs' = dirs /\ tmps' = tmps \cup {[key |-> call[s].key, by |-> call[s].by]}
      BY <1>0, <1>2 DEF PutWrite, Goes, Continues
    <2> HIDE DEF c
    <2> QED BY <2>1, <2>2, <2>3 DEF PutsAlone, IsPut
  <1>3. ASSUME NEW s \in Slots, PutRename(s) PROVE PutsAlone'
    <2>1. /\ call[s].pc = "rename" /\ call' = [call EXCEPT ![s] = Idle] /\ dirs' = dirs
          /\ tmps' = tmps \ {[key |-> call[s].key, by |-> call[s].by]}
      BY <1>3 DEF PutRename, Continues, Goes
    <2>2. \A t \in Slots \ {s} : IsPut(t) => call[t].by # call[s].by
      BY <2>1 DEF PutsNumbered, IsPut
    <2> QED BY <2>1, <2>2, <1>c
  <1>4. ASSUME NEW s \in Slots, PutFails(s) PROVE PutsAlone'
    BY <1>4, <1>c DEF PutFails, Goes, disk
  <1>7. ASSUME NEW s \in Slots, PutErrors(s) PROVE PutsAlone'
    BY <1>7, <1>c DEF PutErrors, Goes
  <1>15. ASSUME NEW s \in Slots, NEW k \in Keys, MkdirFails(s, k) PROVE PutsAlone'
    BY <1>15 DEF MkdirFails, PutsAlone, IsPut
  <1>5. ASSUME NEW s \in Slots, NEW k \in Keys, RemoveUnlink(s, k) PROVE PutsAlone'
    <2> DEFINE c == [pc |-> "prune", dir |-> DirName(k)]
    <2>1. call' = [Disturb EXCEPT ![s] = c] /\ c.pc = "prune"
      BY <1>5 DEF RemoveUnlink
    <2> HIDE DEF c
    <2> QED BY <2>1, <1>a
  <1>6. ASSUME NEW s \in Slots, PruneReads(s) \/ PruneRmdir(s) PROVE PutsAlone'
    BY <1>0, <1>6, <1>b DEF PruneReads, PruneRmdir, Goes, Continues
  <1>8. ASSUME NEW s \in Slots, PruneEnds(s) \/ PruneErrors(s) \/ ClearEnds(s)
        PROVE  PutsAlone'
    BY <1>0, <1>8, <1>b, Idles DEF PruneEnds, PruneErrors, ClearEnds, Goes, Continues
  <1>9. ASSUME NEW s \in Slots, ClearReads(s) PROVE PutsAlone'
    <2> DEFINE c == [pc |-> "clear",
                     todo |-> ({"dir"} \X SubDirs(Base)) \cup ({"file"} \X KeysIn(Base))
                                \cup ({"tmp"} \X TmpsIn(Base))]
    <2>1. call' = [Disturb EXCEPT ![s] = c] /\ c.pc = "clear"
      BY <1>9 DEF ClearReads
    <2> HIDE DEF c
    <2> QED BY <2>1, <1>a
  <1>10. ASSUME NEW s \in Slots, ClearEntry(s) PROVE PutsAlone'
    <2> PICK e \in Entries : call' = [call EXCEPT ![s] = [call[s] EXCEPT !.todo = @ \ {e}]]
      BY <1>10, ClearFacts
    <2>1. call[s].pc = "clear" /\ call'[s].pc = call[s].pc
      BY <1>0, <1>10, ClearFacts
    <2> QED BY <1>0, <2>1, <1>b
  <1>11. ASSUME NEW s \in Slots, ClearErrors(s) PROVE PutsAlone'
    <2>1. call[s].pc = "clear" /\ call' = [call EXCEPT ![s] = [call[s] EXCEPT !.todo = {}]]
      BY <1>11, CutFacts
    <2>2. call'[s].pc = call[s].pc
      BY <1>0, <2>1
    <2> QED BY <1>0, <2>1, <2>2, <1>b
  <1>12. CASE List
    BY <1>12
    DEF List, Walk, Paginate, ReadItem, ListEnds, ListErrors, ListBegin, disk, calls,
        PutsAlone, IsPut
  <1>13. CASE Crash
    BY <1>13, Idles DEF Crash, PutsAlone, IsPut
  <1>14. CASE UNCHANGED vars
    BY <1>14 DEF vars, disk, calls, PutsAlone, IsPut
  <1> QED
    BY <1>1, <1>2, <1>3, <1>4, <1>5, <1>6, <1>7, <1>8, <1>9, <1>10, <1>11, <1>12, <1>13,
       <1>14, <1>15
    DEF Next, PutCall, RemoveCall, ClearCall

----------------------------------------------------------------------------
(* Nothing is left over.                                                   *)

(* Slots other than s care for what they cared for. *)
LEMMA CaresKept ==
    ASSUME CallsTyped, NEW s \in Slots, NEW c \in CallType,
           \/ call' = [call EXCEPT ![s] = c]
           \/ call' = [Disturb EXCEPT ![s] = c]
    PROVE  /\ \A u \in Slots \ {s} : \A d : Cares(u, d) => Cares(u, d)'
           /\ \A u \in Slots \ {s} : \A t : Renames(u, t) => Renames(u, t)'
           /\ call'[s] = c
  BY GoesFacts DEF Cares, Renames, IsPut

LEMMA CaredStep == DiskInv /\ [Next]_vars => CaredFor'
  <1> SUFFICES ASSUME DiskInv, [Next]_vars
               PROVE  /\ \A t \in tmps' : t \in strayTmps' \/ \E s \in Slots : Renames(s, t)'
                      /\ \A d \in dirs' \ {Base} :
                            IsEmpty(d)' => d \in strayDirs' \/ \E s \in Slots : Cares(s, d)'
    BY DEF CaredFor
  <1>0. CallsTyped /\ Tree /\ call \in [Slots -> CallType]
    BY DEF DiskInv, CallsTyped
  <1>n. CallsTyped' /\ call' \in [Slots -> CallType]
    BY <1>0, TypedStep DEF CallsTyped
  <1>c. /\ \A t \in tmps : t \in strayTmps \/ \E s \in Slots : Renames(s, t)
        /\ \A d \in dirs \ {Base} :
              IsEmpty(d) => d \in strayDirs \/ \E s \in Slots : Cares(s, d)
    BY DEF DiskInv, CaredFor
  <1> DEFINE Tmps == \A t \in tmps' : t \in strayTmps' \/ \E s \in Slots : Renames(s, t)'
             Dirs == \A d \in dirs' \ {Base} :
                        IsEmpty(d)' => d \in strayDirs' \/ \E s \in Slots : Cares(s, d)'
  <1>a. ASSUME NEW s \in Slots,
               call'[s] \in CallType =>
                   \/ call' = [call EXCEPT ![s] = call'[s]]
                   \/ call' = [Disturb EXCEPT ![s] = call'[s]],
               \A t \in tmps' : \/ t \in strayTmps' \/ Renames(s, t)'
                                \/ t \in tmps /\ ~Renames(s, t) /\ t \notin strayTmps
                                \/ t \in tmps /\ ~Renames(s, t) /\ strayTmps' = strayTmps,
               \A d \in dirs' \ {Base} :
                   IsEmpty(d)' =>
                      \/ d \in strayDirs' \/ Cares(s, d)'
                      \/ d \in dirs /\ IsEmpty(d) /\ ~Cares(s, d) /\ d \notin strayDirs
                      \/ d \in dirs /\ IsEmpty(d) /\ ~Cares(s, d) /\ strayDirs' = strayDirs
        PROVE  Tmps /\ Dirs
    <2>1. /\ \A u \in Slots \ {s} : \A d : Cares(u, d) => Cares(u, d)'
          /\ \A u \in Slots \ {s} : \A t : Renames(u, t) => Renames(u, t)'
      BY <1>0, <1>n, <1>a, CaresKept
    <2> QED BY <1>a, <1>c, <2>1
  <1> HIDE DEF Tmps, Dirs
  <1>i. \A s \in Slots : call[s] = Idle =>
           /\ \A d : ~Cares(s, d)
           /\ \A t : ~Renames(s, t)
    BY Idles DEF Cares, Renames
  <1>1. ASSUME NEW s \in Slots, NEW k \in Keys, PutMkdir(s, k) PROVE Tmps /\ Dirs
    <2> DEFINE c == [pc |-> "write", key |-> k, by |-> ops + 1,
                     alone |-> \A t \in Slots : call[t] = Idle \/ "alone" \in DOMAIN call[t]]
    <2>1. /\ call[s] = Idle /\ call' = [call EXCEPT ![s] = c]
          /\ dirs' = dirs \cup DirsTo(k) /\ files' = files /\ tmps' = tmps
          /\ strayTmps' = strayTmps /\ strayDirs' = strayDirs
      BY <1>1 DEF PutMkdir, Starts, Goes, MadeFor, strays
    <2>2. call'[s] = c /\ c.pc = "write" /\ c.key = k
      BY <1>0, <2>1
    <2> HIDE DEF c
    <2>3. \A d \in dirs : IsEmpty(d)' => IsEmpty(d)
      BY <2>1 DEF IsEmpty, SubDirs, KeysIn, TmpsIn
    <2>4. \A d \in DirsTo(k) : IsEmpty(d)' => d = DirName(k)
      BY <2>1, KeyPaths, DirsToFacts DEF IsEmpty, SubDirs
    <2>5. Cares(s, DirName(k))'
      BY <2>2 DEF Cares
    <2> QED BY <1>a, <1>i, <2>1, <2>2, <2>3, <2>4, <2>5
  <1>2. ASSUME NEW s \in Slots, PutWrite(s) PROVE Tmps /\ Dirs
    <2> DEFINE c == [call[s] EXCEPT !.pc = "rename"]
    <2>0. PICK x : x = [key |-> call[s].key, by |-> call[s].by]
      OBVIOUS
    <2>1. /\ call[s].pc = "write" /\ call' = [call EXCEPT ![s] = c]
          /\ dirs' = dirs /\ files' = files /\ tmps' = tmps \cup {x}
          /\ strayTmps' = strayTmps /\ strayDirs' = strayDirs
      BY <1>2, <2>0 DEF PutWrite, Continues, Goes, strays
    <2>2. call[s] \in PutType
      BY <1>0, <2>1, CallFacts
    <2>3. call'[s] = c /\ c.pc = "rename" /\ c.key = call[s].key /\ c.by = call[s].by
      BY <1>0, <2>1, <2>2, PutFacts
    <2>x. x.key = call[s].key /\ x.by = call[s].by
      BY <2>0
    <2> HIDE DEF c
    <2>4. Renames(s, x)' /\ \A t : ~Renames(s, t)
      BY <2>1, <2>3, <2>x DEF Renames
    <2>5. \A d \in dirs' : IsEmpty(d)' => IsEmpty(d) /\ d # DirName(call[s].key)
      BY <2>1, <2>x DEF IsEmpty, SubDirs, KeysIn, TmpsIn
    <2>6. \A d \in dirs' : IsEmpty(d)' => ~Cares(s, d)
      BY <2>1, <2>5 DEF Cares
    <2> QED BY <1>a, <2>1, <2>3, <2>4, <2>5, <2>6
  <1>3. ASSUME NEW s \in Slots, PutRename(s) PROVE Tmps /\ Dirs
    <2> DEFINE x == [key |-> call[s].key, by |-> call[s].by]
    <2>1. /\ call[s].pc = "rename" /\ call' = [call EXCEPT ![s] = Idle]
          /\ DOMAIN files' = DOMAIN files \cup {call[s].key}
          /\ dirs' = dirs /\ tmps' = tmps \ {x}
          /\ strayTmps' = strayTmps \cap tmps'
          /\ strayDirs' = strayDirs \ {DirName(call[s].key)}
      BY <1>3 DEF PutRename, Continues, Goes
    <2>2. call'[s] = Idle
      BY <1>0, <2>1
    <2>3. \A t \in tmps : Renames(s, t) => t = x
      BY <1>0 DEF CallsTyped, TmpType, Renames
    <2>x. x.key = call[s].key
      OBVIOUS
    <2> HIDE DEF x
    <2>4. \A d : ~Cares(s, d)
      BY <2>1 DEF Cares
    <2>5. \A d : IsEmpty(d)' => IsEmpty(d) /\ d # DirName(call[s].key)
      BY <2>1, <2>x DEF IsEmpty, SubDirs, KeysIn, TmpsIn
    <2> QED BY <1>a, <2>1, <2>2, <2>3, <2>4, <2>5
  <1>4. ASSUME NEW s \in Slots, PutFails(s) PROVE Tmps /\ Dirs
    <2> DEFINE x == [key |-> call[s].key, by |-> call[s].by]
    <2>1. /\ call' = [call EXCEPT ![s] = Idle]
          /\ files' = files /\ dirs' = dirs /\ tmps' = tmps
          /\ strayTmps' = strayTmps /\ strayDirs' = strayDirs
          /\ \/ call[s].pc = "write" /\ DirName(call[s].key) \notin dirs
             \/ call[s].pc = "rename" /\ x \notin tmps
      BY <1>4 DEF PutFails, Continues, Goes, disk, strays
    <2>2. call'[s] = Idle
      BY <1>0, <2>1
    <2>3. \A t \in tmps : Renames(s, t) => t = x
      BY <1>0 DEF CallsTyped, TmpType, Renames
    <2> HIDE DEF x
    <2>4. \A t \in tmps : ~Renames(s, t)
      BY <2>1, <2>3 DEF Renames
    <2>5. \A d \in dirs : ~Cares(s, d)
      BY <2>1 DEF Cares
    <2>6. \A d : IsEmpty(d)' => IsEmpty(d)
      BY <2>1 DEF IsEmpty, SubDirs, KeysIn, TmpsIn
    <2> QED BY <1>a, <2>1, <2>2, <2>4, <2>5, <2>6
  <1>5. ASSUME NEW s \in Slots, NEW k \in Keys, RemoveUnlink(s, k) PROVE Tmps /\ Dirs
    <2> DEFINE c == [pc |-> "prune", dir |-> DirName(k)]
    <2>1. /\ call[s] = Idle /\ call' = [Disturb EXCEPT ![s] = c]
          /\ DOMAIN files' = DOMAIN files \ {k} /\ dirs' = dirs /\ tmps' = tmps
          /\ strayTmps' = strayTmps /\ strayDirs' = strayDirs
      BY <1>0, <1>5 DEF RemoveUnlink, Starts, Keeping, Tree, strays
    <2>2. call'[s] = c /\ c.pc = "prune" /\ c.dir = DirName(k)
      BY <1>0, <2>1, DisturbFacts
    <2> HIDE DEF c
    <2>3. \A d : IsEmpty(d)' => IsEmpty(d) \/ d = DirName(k)
      BY <2>1 DEF IsEmpty, SubDirs, KeysIn, TmpsIn
    <2>4. Cares(s, DirName(k))'
      BY <2>2 DEF Cares
    <2> QED BY <1>a, <1>i, <2>1, <2>2, <2>3, <2>4
  <1>6. ASSUME NEW s \in Slots, PruneReads(s) PROVE Tmps /\ Dirs
    <2> DEFINE c == [pc |-> "rmdir", dir |-> call[s].dir]
    <2>1. /\ call[s].pc = "prune" /\ call' = [call EXCEPT ![s] = c]
          /\ files' = files /\ dirs' = dirs /\ tmps' = tmps
          /\ strayTmps' = strayTmps /\ strayDirs' = strayDirs
      BY <1>6 DEF PruneReads, Continues, Goes, disk, strays
    <2>2. call'[s] = c /\ c.pc = "rmdir" /\ c.dir = call[s].dir
      BY <1>0, <2>1
    <2> HIDE DEF c
    <2>3. \A d : IsEmpty(d)' => IsEmpty(d)
      BY <2>1 DEF IsEmpty, SubDirs, KeysIn, TmpsIn
    <2>4. (\A d : Cares(s, d) => Cares(s, d)') /\ \A t : ~Renames(s, t)
      BY <2>1, <2>2 DEF Cares, Renames
    <2> QED BY <1>a, <2>1, <2>2, <2>3, <2>4
  <1>7. ASSUME NEW s \in Slots, PruneRmdir(s) PROVE Tmps /\ Dirs
    <2>0. PICK gone : gone = call[s].dir
      OBVIOUS
    <2> DEFINE c == [pc |-> "prune", dir |-> NextUp(gone)]
    <2>1. /\ call[s].pc = "rmdir" /\ call' = [call EXCEPT ![s] = c]
          /\ files' = files /\ dirs' = dirs \ {gone} /\ tmps' = tmps
          /\ strayTmps' = strayTmps /\ strayDirs' = strayDirs \ {gone}
      BY <1>7, <2>0 DEF PruneRmdir, Continues, Goes
    <2>2. call'[s] = c /\ c.pc = "prune" /\ c.dir = DirName(gone)
      BY <1>0, <2>1 DEF NextUp
    <2> HIDE DEF c
    <2>3. \A d : IsEmpty(d)' => IsEmpty(d) \/ d = DirName(gone)
      BY <2>1 DEF IsEmpty, SubDirs, KeysIn, TmpsIn
    <2>4. /\ \A t : ~Renames(s, t)
          /\ \A d : Cares(s, d) => d = gone
          /\ Cares(s, DirName(gone))'
      BY <2>0, <2>1, <2>2 DEF Cares, Renames
    <2> QED BY <1>a, <2>1, <2>2, <2>3, <2>4
  <1>8. ASSUME NEW s \in Slots, PruneEnds(s) PROVE Tmps /\ Dirs
    <2> DEFINE d0 == call[s].dir
    <2>1. /\ call[s].pc \in {"prune", "rmdir"} /\ call' = [call EXCEPT ![s] = Idle]
          /\ files' = files /\ dirs' = dirs /\ tmps' = tmps
          /\ d0 = Base \/ d0 \notin dirs \/ ~IsEmpty(d0)
          /\ strayTmps' = strayTmps /\ strayDirs' = strayDirs
      BY <1>8 DEF PruneEnds, Continues, Goes, disk, StillEmpty, strays
    <2>2. call'[s] = Idle
      BY <1>0, <2>1
    <2>3. \A d : IsEmpty(d)' => IsEmpty(d)
      BY <2>1 DEF IsEmpty, SubDirs, KeysIn, TmpsIn
    <2>4. (\A d : Cares(s, d) => d = d0) /\ \A t : ~Renames(s, t)
      BY <2>1 DEF Cares, Renames
    <2> HIDE DEF d0
    <2> QED BY <1>a, <2>1, <2>2, <2>3, <2>4
  <1>9. ASSUME NEW s \in Slots, ClearReads(s) PROVE Tmps /\ Dirs
    <2> DEFINE c == [pc |-> "clear",
                     todo |-> ({"dir"} \X SubDirs(Base)) \cup ({"file"} \X KeysIn(Base))
                                \cup ({"tmp"} \X TmpsIn(Base))]
    <2>1. /\ call[s] = Idle /\ call' = [Disturb EXCEPT ![s] = c]
          /\ files' = files /\ dirs' = dirs /\ tmps' = tmps
          /\ strayTmps' = strayTmps /\ strayDirs' = strayDirs
      BY <1>9 DEF ClearReads, Starts, disk, strays
    <2> HIDE DEF c
    <2>2. call'[s] = c
      BY <1>0, <2>1, DisturbFacts
    <2>3. \A d : IsEmpty(d)' => IsEmpty(d)
      BY <2>1 DEF IsEmpty, SubDirs, KeysIn, TmpsIn
    <2> QED BY <1>a, <1>i, <2>1, <2>2, <2>3
  <1>10. ASSUME NEW s \in Slots, ClearEntry(s) PROVE Tmps /\ Dirs
    <2>1. PICK e \in Entries :
             /\ EntryRemoved(e)
             /\ call' = [call EXCEPT ![s] = [call[s] EXCEPT !.todo = @ \ {e}]]
      BY <1>0, <1>10, ClearFacts
    <2>2. call[s].pc = "clear"
      BY <1>0, <1>10, ClearFacts
    <2>s. strayDirs' = strayDirs \cap dirs' /\ strayTmps' = strayTmps \cap tmps'
      BY <1>10 DEF ClearEntry
    <2>3. call' = [call EXCEPT ![s] = call'[s]]
      BY <1>0, <2>1
    <2>4. (\A d : ~Cares(s, d)) /\ \A t : ~Renames(s, t)
      BY <2>2 DEF Cares, Renames
    <2>5. /\ dirs' = {d \in dirs : ~Below(e, d)}
          /\ DOMAIN files' = DOMAIN files \cap {k \in Keys : ~Below(e, DirName(k))
                                                             /\ e # <<"file", k>>}
          /\ tmps' = {t \in tmps : ~Below(e, DirName(t.key)) /\ e # <<"tmp", t>>}
      BY <2>1 DEF EntryRemoved, Keeping
    <2>6. ASSUME NEW d \in dirs' \ {Base}, IsEmpty(d)' PROVE IsEmpty(d)
      <3>1. SubDirs(d) = {}
        <4> SUFFICES ASSUME NEW f \in SubDirs(d) PROVE FALSE
          OBVIOUS
        <4>1. f \in Paths /\ f # Base /\ DirName(f) = d /\ f \in dirs
          BY <1>0, AllDirsFacts DEF SubDirs, Tree
        <4>2. Below(e, f)
          BY <2>6, <4>1, <2>5 DEF IsEmpty, SubDirs
        <4> QED BY <2>5, <4>1, <4>2, EntryFacts
      <3>2. KeysIn(d) = {}
        <4> SUFFICES ASSUME NEW k \in KeysIn(d) PROVE FALSE
          OBVIOUS
        <4>1. k \in Keys /\ k \in DOMAIN files /\ DirName(k) = d
          BY <1>0 DEF KeysIn, Tree
        <4>2. k \notin DOMAIN files'
          BY <2>6, <4>1 DEF IsEmpty, KeysIn
        <4> QED BY <2>5, <4>1, <4>2, EntryFacts
      <3>3. TmpsIn(d) = {}
        <4> SUFFICES ASSUME NEW t \in TmpsIn(d) PROVE FALSE
          OBVIOUS
        <4>1. t \in tmps /\ DirName(t.key) = d
          BY DEF TmpsIn
        <4>2. t \notin tmps'
          BY <2>6, <4>1 DEF IsEmpty, TmpsIn
        <4> QED BY <2>5, <4>1, <4>2, EntryFacts
      <3> QED BY <3>1, <3>2, <3>3 DEF IsEmpty
    <2> QED BY <1>a, <2>3, <2>4, <2>5, <2>6, <2>s
  <1>11. ASSUME NEW s \in Slots, ClearEnds(s) PROVE Tmps /\ Dirs
    <2>1. /\ call[s].pc = "clear" /\ call' = [call EXCEPT ![s] = Idle]
          /\ files' = files /\ dirs' = dirs /\ tmps' = tmps
          /\ strayTmps' = strayTmps /\ strayDirs' = strayDirs
      BY <1>11 DEF ClearEnds, Continues, Goes, disk, strays
    <2>2. call'[s] = Idle
      BY <1>0, <2>1
    <2>3. \A d : IsEmpty(d)' => IsEmpty(d)
      BY <2>1 DEF IsEmpty, SubDirs, KeysIn, TmpsIn
    <2>4. (\A d : ~Cares(s, d)) /\ \A t : ~Renames(s, t)
      BY <2>1 DEF Cares, Renames
    <2> QED BY <1>a, <2>1, <2>2, <2>3, <2>4
  <1>12. ASSUME UNCHANGED <<disk, call, strays>> PROVE Tmps /\ Dirs
    BY <1>c, <1>12
    DEF disk, strays, Tmps, Dirs, Cares, Renames, IsEmpty, SubDirs, KeysIn, TmpsIn
  <1>13. List \/ UNCHANGED vars => UNCHANGED <<disk, call, strays>>
    BY DEF List, Walk, Paginate, ReadItem, ListEnds, ListErrors, ListBegin, calls, vars
  <1>14. ASSUME Crash PROVE Tmps /\ Dirs
    <2>1. /\ strayTmps' = tmps /\ UNCHANGED <<dirs, files, tmps>>
          /\ strayDirs' = strayDirs \cup (dirs \cap UNION {Tends(call[s]) : s \in Slots})
      BY <1>14 DEF Crash, disk
    <2>2. \A d : IsEmpty(d)' => IsEmpty(d)
      BY <2>1 DEF IsEmpty, SubDirs, KeysIn, TmpsIn
    <2>3. \A s \in Slots : \A d : Cares(s, d) => d \in Tends(call[s])
      BY DEF Cares, Tends
    <2>4. \A d \in dirs : (\E s \in Slots : Cares(s, d)) => d \in strayDirs'
      BY <2>1, <2>3
    <2> QED BY <1>c, <2>1, <2>2, <2>4 DEF Tmps, Dirs
  <1>15. ASSUME NEW s \in Slots, NEW k \in Keys, MkdirFails(s, k) PROVE Tmps /\ Dirs
    <2>1. PICK d0 \in DirsTo(DirName(k)) :
             /\ dirs' = dirs \cup DirsTo(d0) \cup {d0}
             /\ strayDirs' = strayDirs \cup ({d0} \ dirs)
      BY <1>15 DEF MkdirFails
    <2>2. files' = files /\ tmps' = tmps /\ call' = call /\ strayTmps' = strayTmps
      BY <1>15 DEF MkdirFails
    <2>3. d0 \in Paths
      BY AllDirsFacts
    <2>4. \A d \in dirs : IsEmpty(d)' => IsEmpty(d)
      BY <2>1, <2>2 DEF IsEmpty, SubDirs, KeysIn, TmpsIn
    <2>5. ASSUME NEW d \in DirsTo(d0) PROVE ~IsEmpty(d)'
      <3>1. d0 # Base /\ (d = DirName(d0) \/ \E c \in DirsTo(d0) : c # Base /\ DirName(c) = d)
        BY <2>3, DirsToFacts
      <3> QED BY <2>1, <3>1 DEF IsEmpty, SubDirs
    <2> QED BY <1>c, <2>1, <2>2, <2>4, <2>5 DEF Tmps, Dirs, Cares, Renames
  <1>16. ASSUME NEW s \in Slots, PutErrors(s) PROVE Tmps /\ Dirs
    <2>0. PICK x : x = [key |-> call[s].key, by |-> call[s].by]
      OBVIOUS
    <2>1. /\ call[s].pc \in {"write", "rename"} /\ call' = [call EXCEPT ![s] = Idle]
          /\ files' = files /\ dirs' = dirs
          /\ tmps \subseteq tmps' /\ tmps' \subseteq tmps \cup {x}
          /\ strayTmps' = strayTmps \cup (tmps' \cap {x})
          /\ strayDirs' = strayDirs \cup {DirName(call[s].key)}
      BY <1>16, <2>0 DEF PutErrors, Continues, Goes
    <2>2. call'[s] = Idle
      BY <1>0, <2>1
    <2>3. \A t \in tmps : Renames(s, t) => t = x
      BY <1>0, <2>0 DEF CallsTyped, TmpType, Renames
    <2>4. \A d : Cares(s, d) => d \in strayDirs'
      BY <2>1 DEF Cares
    <2>5. \A d : IsEmpty(d)' => IsEmpty(d)
      BY <2>1 DEF IsEmpty, SubDirs, KeysIn, TmpsIn
    <2> QED BY <1>a, <2>1, <2>2, <2>3, <2>4, <2>5
  <1>17. ASSUME NEW s \in Slots, PruneErrors(s) PROVE Tmps /\ Dirs
    <2>1. /\ call[s].pc \in {"prune", "rmdir"} /\ call' = [call EXCEPT ![s] = Idle]
          /\ files' = files /\ dirs' = dirs /\ tmps' = tmps
          /\ strayTmps' = strayTmps /\ strayDirs' = strayDirs \cup {call[s].dir}
      BY <1>17 DEF PruneErrors, Continues, Goes, disk
    <2>2. call'[s] = Idle
      BY <1>0, <2>1
    <2>3. \A d : IsEmpty(d)' => IsEmpty(d)
      BY <2>1 DEF IsEmpty, SubDirs, KeysIn, TmpsIn
    <2>4. (\A d : Cares(s, d) => d \in strayDirs') /\ \A t : ~Renames(s, t)
      BY <2>1 DEF Cares, Renames
    <2> QED BY <1>a, <2>1, <2>2, <2>3, <2>4
  <1>18. ASSUME NEW s \in Slots, ClearErrors(s) PROVE Tmps /\ Dirs
    <2>1. PICK e \in Entries : \E goneDirs, goneKeys, goneTmps :
                                   EntryCut(e, goneDirs, goneKeys, goneTmps)
      BY <1>0, <1>18, CutFacts
    <2>2. PICK goneDirs, goneKeys, goneTmps : EntryCut(e, goneDirs, goneKeys, goneTmps)
      BY <2>1
    <2>3. /\ call[s].pc = "clear" /\ strayTmps' = strayTmps \cap tmps'
          /\ call' = [call EXCEPT ![s] = [call[s] EXCEPT !.todo = {}]]
      BY <1>0, <1>18, CutFacts
    <2>4. call' = [call EXCEPT ![s] = call'[s]]
      BY <1>0, <2>3
    <2>5. (\A d : ~Cares(s, d)) /\ \A t : ~Renames(s, t)
      BY <2>3 DEF Cares, Renames
    <2>6. /\ dirs' = dirs \ goneDirs /\ goneDirs \subseteq {d \in dirs : Below(e, d)}
          /\ DOMAIN files' = DOMAIN files \ goneKeys
          /\ goneKeys \subseteq {k \in DOMAIN files : Below(e, DirName(k))}
          /\ tmps' = tmps \ goneTmps
          /\ goneTmps \subseteq {t \in tmps : Below(e, DirName(t.key))}
          /\ strayDirs' = (strayDirs \ goneDirs) \cup {d \in dirs' : Below(e, d)}
      BY <1>0, <2>2 DEF EntryCut, Keeping, Tree
    <2>7. ASSUME NEW d \in dirs' \ {Base}, IsEmpty(d)', ~Below(e, d) PROVE IsEmpty(d)
      <3>1. SubDirs(d) = {}
        <4> SUFFICES ASSUME NEW f \in SubDirs(d) PROVE FALSE
          OBVIOUS
        <4>1. f \in Paths /\ f # Base /\ DirName(f) = d /\ f \in dirs
          BY <1>0, AllDirsFacts DEF SubDirs, Tree
        <4>2. Below(e, f)
          BY <2>6, <2>7, <4>1 DEF IsEmpty, SubDirs
        <4> QED BY <2>7, <4>1, <4>2, EntryFacts
      <3>2. KeysIn(d) = {}
        BY <2>6, <2>7 DEF IsEmpty, KeysIn
      <3>3. TmpsIn(d) = {}
        BY <2>6, <2>7 DEF IsEmpty, TmpsIn
      <3> QED BY <3>1, <3>2, <3>3 DEF IsEmpty
    <2> QED BY <1>a, <2>3, <2>4, <2>5, <2>6, <2>7
  <1>19. ASSUME NEW s \in Slots, PutCall(s) PROVE Tmps /\ Dirs
    BY <1>1, <1>2, <1>3, <1>4, <1>15, <1>16, <1>19 DEF PutCall
  <1>20. ASSUME NEW s \in Slots, RemoveCall(s) PROVE Tmps /\ Dirs
    BY <1>5, <1>6, <1>7, <1>8, <1>17, <1>20 DEF RemoveCall
  <1>21. ASSUME NEW s \in Slots, ClearCall(s) PROVE Tmps /\ Dirs
    BY <1>9, <1>10, <1>11, <1>18, <1>21 DEF ClearCall
  <1>22. ASSUME List \/ UNCHANGED vars PROVE Tmps /\ Dirs
    BY <1>12, <1>13, <1>22
  <1>23. Tmps /\ Dirs
    BY <1>14, <1>19, <1>20, <1>21, <1>22 DEF Next
  <1> QED BY <1>23 DEF Tmps, Dirs

(* What an error or a crash left is counted only while it is there. *)
LEMMA StrayStep == CallsTyped /\ Tree /\ StraysExist /\ [Next]_vars => StraysExist'
  <1> SUFFICES ASSUME CallsTyped, Tree, StraysExist, [Next]_vars PROVE StraysExist'
    OBVIOUS
  <1> USE DEF StraysExist, strays
  <1>1. ASSUME NEW s \in Slots, NEW k \in Keys, PutMkdir(s, k) \/ MkdirFails(s, k)
        PROVE  StraysExist'
    BY <1>1 DEF PutMkdir, MkdirFails
  <1>2. ASSUME NEW s \in Slots, PutWrite(s) \/ PutRename(s) \/ PutFails(s) PROVE StraysExist'
    BY <1>2 DEF PutWrite, PutRename, PutFails, disk
  <1>3. ASSUME NEW s \in Slots, PutErrors(s) PROVE StraysExist'
    <2> DEFINE t == [key |-> call[s].key, by |-> call[s].by]
    <2>1. /\ DirName(call[s].key) \in dirs \/ t \in tmps
          /\ tmps \subseteq tmps' /\ dirs' = dirs
          /\ strayTmps' = strayTmps \cup (tmps' \cap {t})
          /\ strayDirs' = strayDirs \cup {DirName(call[s].key)}
      BY <1>3 DEF PutErrors, Continues
    <2>2. t.key = call[s].key
      OBVIOUS
    <2> HIDE DEF t
    <2> QED BY <2>1, <2>2 DEF Tree
  <1>4. ASSUME NEW s \in Slots,
               \/ PruneReads(s) \/ PruneRmdir(s) \/ PruneEnds(s) \/ PruneErrors(s)
               \/ \E k \in Keys : RemoveUnlink(s, k)
        PROVE  StraysExist'
    BY <1>4 DEF PruneReads, PruneRmdir, PruneEnds, PruneErrors, RemoveUnlink, disk
  <1>5. ASSUME NEW s \in Slots, ClearReads(s) \/ ClearEntry(s) \/ ClearEnds(s)
        PROVE  StraysExist'
    BY <1>5 DEF ClearReads, ClearEntry, ClearEnds, disk
  <1>6. ASSUME NEW s \in Slots, ClearErrors(s) PROVE StraysExist'
    <2>1. PICK e \in Entries : \E goneDirs, goneKeys, goneTmps :
                                   EntryCut(e, goneDirs, goneKeys, goneTmps)
      BY <1>6, CutFacts
    <2>2. PICK goneDirs, goneKeys, goneTmps : EntryCut(e, goneDirs, goneKeys, goneTmps)
      BY <2>1
    <2> QED BY <1>6, <2>2, CutFacts DEF EntryCut
  <1>7. CASE List
    BY <1>7
    DEF List, Walk, Paginate, ReadItem, ListEnds, ListErrors, ListBegin, disk, calls
  <1>8. CASE Crash
    BY <1>8 DEF Crash, disk
  <1>9. CASE UNCHANGED vars
    BY <1>9 DEF vars, disk, calls
  <1> QED
    BY <1>1, <1>2, <1>3, <1>4, <1>5, <1>6, <1>7, <1>8, <1>9
    DEF Next, PutCall, RemoveCall, ClearCall

LEMMA DiskInit == Init => DiskInv
  <1> SUFFICES ASSUME Init PROVE DiskInv
    OBVIOUS
  <1>1. \A s \in Slots : call[s].pc = "idle"
    BY Idles DEF Init
  <1>2. PutsNumbered /\ PutsAlone
    BY <1>1 DEF PutsNumbered, PutsAlone, IsPut
  <1>3. CaredFor /\ StraysExist
    BY DEF Init, CaredFor, StraysExist
  <1> QED BY <1>2, <1>3, TypedInit DEF DiskInv

LEMMA DiskStep == DiskInv /\ [Next]_vars => DiskInv'
  BY TypedStep, TreeStep, NumberedStep, AloneStep, CaredStep, StrayStep DEF DiskInv

LEMMA DiskIsSound == DiskInv => DiskSound
  <1> SUFFICES ASSUME DiskInv PROVE DiskSound
    OBVIOUS
  <1>1. \A s \in Slots : call[s] \in CallType
    BY DEF DiskInv, CallsTyped
  <1>2. TypeOK
    BY <1>1, CallFacts DEF DiskInv, Tree, StraysExist, TypeOK
  <1>3. ASSUME \A s \in Slots : call[s] = Idle
        PROVE  /\ tmps \subseteq strayTmps
               /\ \A d \in dirs \ {Base} : IsEmpty(d) => d \in strayDirs
    <2>1. \A s \in Slots : call[s].pc = "idle"
      BY <1>3, Idles
    <2> QED BY <1>3, <2>1 DEF DiskInv, CaredFor, Cares, Renames
  <1> QED BY <1>2, <1>3 DEF DiskSound, NothingLeft

(* However puts, removes and clears overlap, fail and are cut off, every    *)
(* file is in a directory that exists; and between calls there is no         *)
(* temporary file but of a put that an error or a crash cut off, and no      *)
(* empty directory but one such a call was to fill or to prune               *)
(* (FileSystemDataStore.put, #pruneEmptyDirs and clear).                     *)
THEOREM DiskStaysSound == Spec => []DiskSound
  BY DiskInit, DiskStep, DiskIsSound, PTL DEF Spec

(* A put that finds its directory or its temporary file gone has met a       *)
(* remove or a clear: between puts alone neither can be missing.             *)
THEOREM PutsFailOnlyDisturbed == Spec => FailsOnlyDisturbed
  <1>1. DiskInv /\ [Next]_vars => [\A s \in Slots : PutFails(s) => ~call[s].alone]_vars
    BY DEF DiskInv, PutsAlone, IsPut, PutFails, Continues
  <1> QED BY <1>1, DiskInit, DiskStep, PTL DEF Spec, FailsOnlyDisturbed

----------------------------------------------------------------------------
(* The files are an atomic map.                                            *)

AbstractOps == [s \in Slots |-> AbstractOp(call[s])]

LEMMA AbstractFacts ==
    ASSUME NEW c \in CallType
    PROVE  /\ c \in PutType => AbstractOp(c) = [op |-> "put", key |-> c.key, value |-> c.by]
           /\ c.pc \in {"prune", "rmdir"} => AbstractOp(c) = [op |-> "done"]
           /\ c.pc = "clear" => AbstractOp(c) = [op |-> "clear"]
           /\ c = Idle => AbstractOp(c) = [op |-> "none"]
  BY CallFacts, Idles DEF AbstractOp

(* A call that moves on, next to puts that are only disturbed. *)
LEMMA AbstractGoes ==
    ASSUME CallsTyped, NEW s \in Slots, NEW c \in CallType,
           \/ call' = [call EXCEPT ![s] = c]
           \/ call' = [Disturb EXCEPT ![s] = c]
    PROVE  AbstractOps' = [AbstractOps EXCEPT ![s] = AbstractOp(c)]
  <1>0. call \in [Slots -> CallType] /\ Disturb \in [Slots -> CallType]
    BY DisturbFacts DEF CallsTyped
  <1>1. call'[s] = c /\ \A t \in Slots \ {s} : call'[t] = call[t] \/ call'[t] = Disturb[t]
    BY GoesFacts
  <1>2. ASSUME NEW t \in Slots PROVE AbstractOp(Disturb[t]) = AbstractOp(call[t])
    <2>1. CASE call[t] \in PutType
      <3>1. /\ Disturb[t] \in PutType /\ Disturb[t] \in CallType /\ call[t] \in CallType
            /\ Disturb[t].key = call[t].key /\ Disturb[t].by = call[t].by
        BY <1>0, <2>1, DisturbFacts
      <3> QED BY <2>1, <3>1, AbstractFacts
    <2>2. CASE call[t] \notin PutType
      BY <2>2, DisturbFacts
    <2> QED BY <2>1, <2>2
  <1>3. \A t \in Slots : AbstractOp(call'[t]) = IF t = s THEN AbstractOp(c)
                                                ELSE AbstractOp(call[t])
    BY <1>1, <1>2
  <1> QED BY <1>3 DEF AbstractOps

LEMMA PromiseInit == Init => Promise!Init
  <1> SUFFICES ASSUME Init PROVE Promise!Init
    OBVIOUS
  <1>1. files = [k \in {} |-> {}]
    BY DEF Init
  <1>2. AbstractOps = [s \in Slots |-> [op |-> "none"]]
    BY AbstractFacts, Idles DEF Init, AbstractOps
  <1> QED BY <1>1, <1>2 DEF Promise!Init, Promise!Idle, AbstractOps

(* Every step of the files is a step of the map, or leaves it alone. *)
LEMMA PromiseStep == DiskInv /\ [Next]_vars => [Promise!Next]_Promise!vars
  <1> SUFFICES ASSUME DiskInv, [Next]_vars PROVE [Promise!Next]_Promise!vars
    OBVIOUS
  <1>0. CallsTyped /\ Tree /\ call \in [Slots -> CallType] /\ call' \in [Slots -> CallType]
    BY TypedStep DEF DiskInv, CallsTyped
  <1>u. UNCHANGED <<files, AbstractOps>> => [Promise!Next]_Promise!vars
    BY DEF Promise!vars, AbstractOps
  <1>m. ASSUME NEW s \in Slots,
               \/ call' = [call EXCEPT ![s] = call'[s]]
               \/ call' = [Disturb EXCEPT ![s] = call'[s]]
        PROVE  /\ AbstractOps[s] = AbstractOp(call[s])
               /\ Promise!Ends(s, AbstractOp(call'[s]))
               /\ AbstractOp(call'[s]) = AbstractOp(call[s]) => UNCHANGED AbstractOps
    BY <1>0, <1>m, AbstractGoes DEF AbstractOps, Promise!Ends
  <1>1. ASSUME NEW s \in Slots, NEW k \in Keys, PutMkdir(s, k)
        PROVE  Promise!Call(s)
    <2> DEFINE c == [pc |-> "write", key |-> k, by |-> ops + 1,
                     alone |-> \A t \in Slots : call[t] = Idle \/ "alone" \in DOMAIN call[t]]
    <2>1. /\ call[s] = Idle /\ call' = [call EXCEPT ![s] = c]
          /\ files' = files
      BY <1>1 DEF PutMkdir, Starts, Goes
    <2>2. call'[s] = c /\ c.pc = "write" /\ c.key = k /\ c \in CallType
      BY <1>0, <2>1
    <2> HIDE DEF c
    <2>3. c \in PutType /\ c.by \in 1 .. MaxOps
      BY <2>2, CallFacts, PutFacts
    <2>4. AbstractOp(c) = [op |-> "put", key |-> k, value |-> c.by]
      BY <2>2, <2>3, AbstractFacts
    <2>5. AbstractOps[s] = [op |-> "none"]
      BY <2>1, Idles, AbstractFacts DEF AbstractOps
    <2>6. Promise!Ends(s, [op |-> "put", key |-> k, value |-> c.by])
      BY <1>m, <2>1, <2>2, <2>4
    <2> QED BY <2>1, <2>3, <2>5, <2>6 DEF Promise!Call, Promise!Idle, AbstractOps
  <1>2. ASSUME NEW s \in Slots, PutWrite(s) PROVE UNCHANGED <<files, AbstractOps>>
    <2> DEFINE c == [call[s] EXCEPT !.pc = "rename"]
    <2>1. call[s].pc = "write" /\ call' = [call EXCEPT ![s] = c] /\ files' = files
      BY <1>2 DEF PutWrite, Continues, Goes
    <2>2. call[s] \in PutType
      BY <1>0, <2>1, CallFacts
    <2>3. /\ call'[s] = c /\ c \in PutType /\ c \in CallType
          /\ c.key = call[s].key /\ c.by = call[s].by
      BY <1>0, <2>1, <2>2, PutFacts
    <2> HIDE DEF c
    <2>4. AbstractOp(c) = AbstractOp(call[s])
      BY <1>0, <2>2, <2>3, AbstractFacts
    <2> QED BY <1>m, <2>1, <2>3, <2>4
  <1>3. ASSUME NEW s \in Slots, PutRename(s) PROVE Promise!Put(s)
    <2>1. /\ call[s].pc = "rename" /\ call' = [call EXCEPT ![s] = Idle]
          /\ files' = [k \in DOMAIN files \cup {call[s].key} |->
                          IF k = call[s].key THEN call[s].by ELSE files[k]]
      BY <1>3 DEF PutRename, Continues, Goes
    <2>2. call'[s] = Idle /\ call[s] \in PutType
      BY <1>0, <2>1, CallFacts
    <2>3. AbstractOps[s] = [op |-> "put", key |-> call[s].key, value |-> call[s].by]
      BY <1>0, <2>2, AbstractFacts DEF AbstractOps
    <2>4. Promise!Ends(s, [op |-> "none"])
      BY <1>m, <2>1, <2>2, Idles, AbstractFacts
    <2> QED BY <2>1, <2>3, <2>4 DEF Promise!Put, Promise!Idle, AbstractOps
  <1>4. ASSUME NEW s \in Slots, PutFails(s) \/ PutErrors(s) PROVE Promise!PutFails(s)
    <2>1. /\ call[s].pc \in {"write", "rename"} /\ call' = [call EXCEPT ![s] = Idle]
          /\ files' = files
      BY <1>4 DEF PutFails, PutErrors, Continues, Goes, disk
    <2>2. call'[s] = Idle /\ call[s] \in PutType
      BY <1>0, <2>1, CallFacts
    <2>3. AbstractOps[s].op = "put"
      BY <1>0, <2>2, AbstractFacts DEF AbstractOps
    <2>4. Promise!Ends(s, [op |-> "none"])
      BY <1>m, <2>1, <2>2, Idles, AbstractFacts
    <2> QED BY <2>1, <2>3, <2>4 DEF Promise!PutFails, Promise!Idle, AbstractOps
  <1>5. ASSUME NEW s \in Slots, NEW k \in Keys, RemoveUnlink(s, k) PROVE Promise!Remove(s)
    <2> DEFINE c == [pc |-> "prune", dir |-> DirName(k)]
    <2>1. /\ call[s] = Idle /\ call' = [Disturb EXCEPT ![s] = c] /\ k \in DOMAIN files
          /\ files' = [j \in DOMAIN files \cap (Keys \ {k}) |-> files[j]]
      BY <1>5 DEF RemoveUnlink, Starts, Keeping
    <2>2. call'[s] = c /\ c.pc = "prune" /\ c \in CallType
      BY <1>0, <2>1, DisturbFacts
    <2> HIDE DEF c
    <2>3. AbstractOps[s] = [op |-> "none"]
      BY <2>1, Idles, AbstractFacts DEF AbstractOps
    <2>4. Promise!Ends(s, [op |-> "done"])
      BY <1>m, <2>1, <2>2, AbstractFacts
    <2>5. DOMAIN files \cap (Keys \ {k}) = DOMAIN files \ {k}
      BY <1>0 DEF Tree
    <2>6. files' = Promise!Without({k})
      BY <2>1, <2>5 DEF Promise!Without
    <2> QED
      BY <2>1, <2>3, <2>4, <2>6 DEF Promise!Remove, Promise!Idle, Promise!Done, AbstractOps
  <1>6. ASSUME NEW s \in Slots, PruneReads(s) \/ PruneRmdir(s)
        PROVE  UNCHANGED <<files, AbstractOps>>
    <2>1. /\ call[s].pc \in {"prune", "rmdir"} /\ files' = files
          /\ \E c : call' = [call EXCEPT ![s] = c] /\ c.pc \in {"prune", "rmdir"}
      BY <1>6 DEF PruneReads, PruneRmdir, Continues, Goes, disk
    <2>2. /\ call'[s].pc \in {"prune", "rmdir"} /\ call' = [call EXCEPT ![s] = call'[s]]
      BY <1>0, <2>1
    <2>3. AbstractOp(call'[s]) = AbstractOp(call[s])
      BY <1>0, <2>1, <2>2, AbstractFacts
    <2> QED BY <1>m, <2>1, <2>2, <2>3
  <1>7. ASSUME NEW s \in Slots, NEW k \in Keys, MkdirFails(s, k)
        PROVE  UNCHANGED <<files, AbstractOps>>
    BY <1>7 DEF MkdirFails, AbstractOps
  <1>8. ASSUME NEW s \in Slots, PruneEnds(s) \/ PruneErrors(s) \/ ClearEnds(s)
        PROVE  Promise!Return(s)
    <2>1. /\ call[s].pc \in {"prune", "rmdir", "clear"} /\ call' = [call EXCEPT ![s] = Idle]
          /\ files' = files
      BY <1>8 DEF PruneEnds, PruneErrors, ClearEnds, Continues, Goes, disk
    <2>2. call'[s] = Idle
      BY <1>0, <2>1
    <2>3. AbstractOps[s].op \in {"done", "clear"}
      BY <1>0, <2>1, AbstractFacts DEF AbstractOps
    <2>4. Promise!Ends(s, [op |-> "none"])
      BY <1>m, <2>1, <2>2, Idles, AbstractFacts
    <2> QED BY <2>1, <2>3, <2>4 DEF Promise!Return, Promise!Idle, AbstractOps
  <1>9. ASSUME NEW s \in Slots, ClearReads(s) PROVE Promise!Call(s)
    <2> DEFINE c == [pc |-> "clear",
                     todo |-> ({"dir"} \X SubDirs(Base)) \cup ({"file"} \X KeysIn(Base))
                                \cup ({"tmp"} \X TmpsIn(Base))]
    <2>1. /\ call[s] = Idle /\ call' = [Disturb EXCEPT ![s] = c] /\ files' = files
      BY <1>9 DEF ClearReads, Starts, disk
    <2>2. call'[s] = c /\ c.pc = "clear" /\ c \in CallType
      BY <1>0, <2>1, DisturbFacts
    <2> HIDE DEF c
    <2>3. AbstractOps[s] = [op |-> "none"]
      BY <2>1, Idles, AbstractFacts DEF AbstractOps
    <2>4. Promise!Ends(s, [op |-> "clear"])
      BY <1>m, <2>1, <2>2, AbstractFacts
    <2> QED BY <2>1, <2>3, <2>4 DEF Promise!Call, Promise!Idle, AbstractOps
  <1>10. ASSUME NEW s \in Slots, ClearEntry(s) PROVE Promise!ClearSome(s)
    <2>1. PICK e \in Entries :
             /\ EntryRemoved(e)
             /\ call' = [call EXCEPT ![s] = [call[s] EXCEPT !.todo = @ \ {e}]]
      BY <1>0, <1>10, ClearFacts
    <2>2. call[s].pc = "clear"
      BY <1>0, <1>10, ClearFacts
    <2>3. call' = [call EXCEPT ![s] = call'[s]] /\ call'[s].pc = "clear"
      BY <1>0, <2>1, <2>2
    <2>4. AbstractOps[s].op = "clear" /\ AbstractOp(call'[s]) = AbstractOp(call[s])
      BY <1>0, <2>2, <2>3, AbstractFacts DEF AbstractOps
    <2>5. UNCHANGED AbstractOps
      BY <1>m, <2>3, <2>4
    <2>6. PICK kept : files' = [j \in DOMAIN files \cap kept |-> files[j]]
      BY <2>1 DEF EntryRemoved, Keeping
    <2>7. DOMAIN files \cap kept = DOMAIN files \ (DOMAIN files \ kept)
      OBVIOUS
    <2>8. files' = Promise!Without(DOMAIN files \ kept)
      BY <2>6, <2>7 DEF Promise!Without
    <2> QED BY <2>4, <2>5, <2>8 DEF Promise!ClearSome, AbstractOps
  <1>11. ASSUME NEW s \in Slots, ClearErrors(s) PROVE Promise!ClearSome(s)
    <2>1. PICK e \in Entries : \E goneDirs, goneKeys, goneTmps :
                                   EntryCut(e, goneDirs, goneKeys, goneTmps)
      BY <1>0, <1>11, CutFacts
    <2>2. PICK goneDirs, goneKeys, goneTmps : EntryCut(e, goneDirs, goneKeys, goneTmps)
      BY <2>1
    <2>3. call[s].pc = "clear"
      BY <1>0, <1>11, CutFacts
    <2>4. call' = [call EXCEPT ![s] = call'[s]] /\ call'[s].pc = "clear"
      <3>1. call' = [call EXCEPT ![s] = [call[s] EXCEPT !.todo = {}]]
        BY <1>0, <1>11, CutFacts
      <3> QED BY <1>0, <2>3, <3>1
    <2>5. AbstractOps[s].op = "clear" /\ AbstractOp(call'[s]) = AbstractOp(call[s])
      <3>1. call[s] \in CallType /\ call'[s] \in CallType
        BY <1>0
      <3>2. AbstractOp(call[s]) = [op |-> "clear"] /\ AbstractOp(call'[s]) = [op |-> "clear"]
        BY <2>3, <2>4, <3>1, AbstractFacts
      <3> QED BY <3>2 DEF AbstractOps
    <2>6. UNCHANGED AbstractOps
      BY <1>m, <2>4, <2>5
    <2>7. PICK ks : ks = DOMAIN files \cap goneKeys
      OBVIOUS
    <2>8. DOMAIN files \cap (Keys \ goneKeys) = DOMAIN files \ ks
      BY <1>0, <2>7 DEF Tree
    <2>9. files' = [j \in DOMAIN files \cap (Keys \ goneKeys) |-> files[j]]
      BY <2>2 DEF EntryCut, Keeping
    <2>10. files' = Promise!Without(ks) /\ ks \in SUBSET DOMAIN files
      BY <2>7, <2>8, <2>9 DEF Promise!Without
    <2> QED BY <2>5, <2>6, <2>10 DEF Promise!ClearSome, AbstractOps
  <1>12. List \/ UNCHANGED vars => UNCHANGED <<files, AbstractOps>>
    BY DEF List, Walk, Paginate, ReadItem, ListEnds, ListErrors, ListBegin, calls, vars, disk,
           AbstractOps
  <1>13. Crash => Promise!Crash
    BY Idles, AbstractFacts DEF Crash, disk, Promise!Crash, Promise!Idle
  <1> QED
    BY <1>u, <1>1, <1>2, <1>3, <1>4, <1>5, <1>6, <1>7, <1>8, <1>9, <1>10, <1>11, <1>12, <1>13
    DEF Next, PutCall, RemoveCall, ClearCall, Promise!Next

(* FileSystemDataStore implements the store RDataStore promises: the files   *)
(* change only at a rename, an unlink and what clear removes, each in one    *)
(* step of a call in progress, and a put that fails or is cut off by a crash *)
(* has no effect.                                                            *)
THEOREM FilesAreAMap == Spec => ImplementsDataStore
  BY PromiseInit, PromiseStep, DiskInit, DiskStep, PTL
  DEF Spec, ImplementsDataStore, Promise!Spec

----------------------------------------------------------------------------
(* A listing is ordered and complete.                                      *)
(*                                                                         *)
(* What the client is owed and has not got is, while the directories are    *)
(* walked, in a directory still to be read or found already; once the page  *)
(* is cut, on the page or behind the cursor.  What it has got lies before    *)
(* the page, and all that before the cursor, unless the cursor was lost.     *)

ListerType ==
    [pc : {"idle", "walk", "read", "done"}, prefix : AllDirs, cursor : Keys \cup {Base},
     limit : Nat, todo : SUBSET AllDirs, found : SUBSET Keys, page : SUBSET Keys,
     got : Seq(Keys), lost : BOOLEAN, owed : SUBSET Keys]

Has(l) == Members(l.got) \cup l.page

Covered(l) ==
    /\ \A k \in l.owed : l.prefix \in DirsTo(k)
    /\ l.pc = "walk" => \A k \in l.owed : k \in l.found \/ \E d \in l.todo : d \in DirsTo(k)
    /\ l.cursor # Base => \A k \in l.owed : Place(k) <= Place(l.cursor) => k \in Has(l)
    /\ l.pc \in {"read", "done"} /\ l.cursor = Base => l.owed \subseteq Has(l)

Ordered(l) ==
    /\ l.pc \in {"idle", "walk"} /\ l.cursor = Base => l.got = <<>>
    /\ \A i, j \in DOMAIN l.got : i < j => Place(l.got[i]) < Place(l.got[j])
    /\ \A i \in DOMAIN l.got : \A k \in l.page : Place(l.got[i]) < Place(k)
    /\ l.cursor # Base => \A k \in Has(l) : Place(k) <= Place(l.cursor)

Listing(l) ==
    /\ l \in ListerType
    /\ l.pc # "read" => l.page = {}
    /\ l.pc = "done" => l.cursor = Base
    /\ Covered(l)
    /\ ~l.lost => Ordered(l)

ListInv == Listing(lister) /\ lister.owed \subseteq DOMAIN files

LEMMA PlaceFacts ==
    ASSUME NEW k \in Keys
    PROVE  /\ Place(k) \in 1 .. Len(KeyOrder) /\ KeyOrder[Place(k)] = k
           /\ Place(k) \in Nat /\ Len(KeyOrder) \in Nat
           /\ \A j \in Keys : Place(j) = Place(k) => j = k
  <1>1. KeyOrder \in Seq(Keys)
    BY KeysAssumption
  <1>2. Len(KeyOrder) \in Nat /\ DOMAIN KeyOrder = 1 .. Len(KeyOrder)
    BY <1>1, LenProperties
  <1>3. \A j \in Keys : Place(j) \in DOMAIN KeyOrder /\ KeyOrder[Place(j)] = j
    BY DEF Keys, Members, Place
  <1>4. \A j \in Keys : Place(j) = Place(k) => j = k
    BY <1>3
  <1> QED BY <1>2, <1>3, <1>4

Less == {x \in Nat \X Nat : x[1] < x[2]}

LEMMA Least ==
    ASSUME NEW S \in SUBSET Nat, S # {}
    PROVE  \E m \in S : \A x \in S : m <= x
  <1>1. OpToRel(<, Nat) = Less
    BY Zenon DEF OpToRel, Less
  <1>2. IsWellFoundedOn(Less, Nat)
    BY <1>1, NatLessThanWellFounded, Zenon
  <1>3. \E m \in S : \A y \in S : ~(<<y, m>> \in Less)
    BY <1>2, WFMin, Zenon
  <1>4. PICK m \in S : \A y \in S : ~(<<y, m>> \in Less)
    BY <1>3
  <1>5. \A x, y \in Nat : x < y => <<x, y>> \in Less
    BY DEF Less
  <1>6. ASSUME NEW x \in S PROVE m <= x
    <2>1. x \in Nat /\ m \in Nat
      OBVIOUS
    <2>2. ~(x < m)
      BY <1>4, <1>5, <2>1, Zenon
    <2> QED BY <2>1, <2>2
  <1> QED BY <1>6

(* The first and the last of some keys. *)
LEMMA EndsOfKeys ==
    ASSUME NEW keys \in SUBSET Keys, keys # {}
    PROVE  /\ First(keys) \in keys /\ \A j \in keys : Place(First(keys)) <= Place(j)
           /\ Final(keys) \in keys /\ \A j \in keys : Place(j) <= Place(Final(keys))
  <1>1. \E k \in keys : \A j \in keys : Place(k) <= Place(j)
    <2>1. PICK S : S = {Place(k) : k \in keys}
      OBVIOUS
    <2>2. S \in SUBSET Nat /\ S # {}
      BY <2>1, PlaceFacts
    <2>3. PICK m \in S : \A x \in S : m <= x
      BY <2>2, Least
    <2> QED BY <2>1, <2>3
  <1>2. \E k \in keys : \A j \in keys : Place(j) <= Place(k)
    <2>0. PICK n \in Nat : n = Len(KeyOrder)
      BY PlaceFacts
    <2>1. PICK S : S = {n - Place(k) : k \in keys}
      OBVIOUS
    <2>2. \A k \in keys : Place(k) \in Nat /\ Place(k) <= n /\ n - Place(k) \in Nat
      BY <2>0, PlaceFacts
    <2>3. S \in SUBSET Nat /\ S # {}
      BY <2>1, <2>2
    <2>4. PICK m \in S : \A x \in S : m <= x
      BY <2>3, Least
    <2>5. PICK k \in keys : m = n - Place(k)
      BY <2>1
    <2>6. ASSUME NEW j \in keys PROVE Place(j) <= Place(k)
      <3>1. n - Place(k) <= n - Place(j)
        BY <2>1, <2>4, <2>5
      <3>2. Place(j) \in Nat /\ Place(k) \in Nat
        BY <2>2
      <3> QED BY <3>1, <3>2
    <2> QED BY <2>6
  <1>3. First(keys) \in keys /\ \A j \in keys : Place(First(keys)) <= Place(j)
    BY <1>1 DEF First
  <1>4. Final(keys) \in keys /\ \A j \in keys : Place(j) <= Place(Final(keys))
    BY <1>2 DEF Final
  <1> QED BY <1>3, <1>4

(* A slice has the first keys, at least one if there is one. *)
LEMMA SliceFacts ==
    ASSUME NEW keys \in SUBSET Keys, NEW limit \in Nat
    PROVE  /\ Slice(keys, limit) \subseteq keys
           /\ \A k \in Slice(keys, limit) : \A j \in keys :
                 Place(j) <= Place(k) => j \in Slice(keys, limit)
           /\ limit > 0 /\ keys # {} => Slice(keys, limit) # {}
  <1>1. IsFiniteSet(Keys)
    <2>1. KeyOrder \in Seq(Keys)
      BY KeysAssumption
    <2>2. DOMAIN KeyOrder = 1 .. Len(KeyOrder) /\ Len(KeyOrder) \in Nat
      BY <2>1, LenProperties
    <2>3. IsFiniteSet(1 .. Len(KeyOrder))
      BY <2>2, FS_Interval
    <2>4. KeyOrder \in Surjection(1 .. Len(KeyOrder), Keys)
      BY <2>1, <2>2 DEF Surjection, Keys, Members
    <2> QED BY <2>3, <2>4, FS_Surjection
  <1>2. \A k \in keys : IsFiniteSet({j \in keys : Place(j) <= Place(k)})
    BY <1>1, FS_Subset
  <1>3. ASSUME NEW k \in Slice(keys, limit), NEW j \in keys, Place(j) <= Place(k)
        PROVE  j \in Slice(keys, limit)
    <2>1. PICK S : S = {i \in keys : Place(i) <= Place(k)}
      OBVIOUS
    <2>2. PICK T : T = {i \in keys : Place(i) <= Place(j)}
      OBVIOUS
    <2>3. k \in keys /\ Cardinality(S) <= limit
      BY <2>1 DEF Slice
    <2>4. \A i \in keys : Place(i) \in Nat
      BY PlaceFacts
    <2>5. T \subseteq S
      BY <1>3, <2>1, <2>2, <2>3, <2>4
    <2>6. IsFiniteSet(S)
      BY <1>2, <2>1, <2>3
    <2>7. Cardinality(T) <= Cardinality(S) /\ Cardinality(S) \in Nat /\ Cardinality(T) \in Nat
      BY <2>5, <2>6, FS_Subset, FS_CardinalityType
    <2>8. Cardinality(T) <= limit
      BY <2>3, <2>7
    <2> QED BY <2>2, <2>8 DEF Slice
  <1>4. ASSUME limit > 0, keys # {} PROVE Slice(keys, limit) # {}
    <2>1. PICK k \in keys : \A j \in keys : Place(k) <= Place(j)
      BY <1>4, EndsOfKeys
    <2>2. {j \in keys : Place(j) <= Place(k)} = {k}
      BY <2>1, PlaceFacts
    <2>3. Cardinality({k}) = 1
      BY FS_Singleton
    <2>4. k \in Slice(keys, limit)
      BY <1>4, <2>2, <2>3 DEF Slice
    <2> QED BY <2>4
  <1>5. Slice(keys, limit) \subseteq keys
    BY DEF Slice
  <1> QED BY <1>3, <1>4, <1>5

(* The directories on the way to a file exist. *)
LEMMA WayToFile ==
    ASSUME Tree, NEW k \in DOMAIN files
    PROVE  k \in Keys /\ DirsTo(k) \subseteq dirs
  <1>1. k \in Keys /\ DirName(k) \in dirs /\ DirsTo(DirName(k)) \subseteq dirs
    BY DEF Tree
  <1>2. k \in Paths /\ k # Base
    BY <1>1, KeyPaths
  <1>3. ASSUME NEW d \in DirsTo(k) PROVE d = DirName(k) \/ d \in DirsTo(DirName(k))
    <2>1. PICK n \in 0 .. (Len(k) - 1) : d = SubSeq(k, 1, n)
      BY DEF DirsTo
    <2>2. Len(k) \in Nat /\ Len(DirName(k)) = Len(k) - 1
      BY <1>2, DirNameFacts DEF Paths
    <2>3. CASE n = Len(k) - 1
      BY <2>1, <2>3 DEF DirName
    <2>4. CASE n # Len(k) - 1
      <3>1. n \in 0 .. (Len(DirName(k)) - 1) /\ n \in 0 .. (Len(k) - 1)
            /\ (Len(k) - 1) \in 0 .. Len(k)
        BY <2>1, <2>2, <2>4
      <3>2. SubSeq(DirName(k), 1, n) = SubSeq(k, 1, n)
        BY <1>2, <3>1, PrefixFacts DEF DirName
      <3> QED BY <2>1, <3>1, <3>2 DEF DirsTo
    <2> QED BY <2>3, <2>4
  <1> QED BY <1>1, <1>3

(* Less is owed after a remove. *)
LEMMA OwedLess ==
    ASSUME NEW l, NEW m, Listing(l), NEW kept, m = [l EXCEPT !.owed = l.owed \cap kept]
    PROVE  Listing(m)
  <1>1. l \in ListerType
    BY DEF Listing
  <1>2. /\ m \in ListerType /\ m.pc = l.pc /\ m.prefix = l.prefix /\ m.cursor = l.cursor
        /\ m.todo = l.todo /\ m.found = l.found /\ m.page = l.page /\ m.got = l.got
        /\ m.lost = l.lost /\ m.owed = l.owed \cap kept
    BY <1>1 DEF ListerType
  <1>3. Has(m) = Has(l)
    BY <1>2 DEF Has
  <1>4. Covered(m)
    BY <1>2, <1>3 DEF Listing, Covered
  <1>5. ~m.lost => Ordered(m)
    BY <1>2, <1>3 DEF Listing, Ordered
  <1> QED BY <1>2, <1>4, <1>5 DEF Listing

LEMMA NewListing ==
    ASSUME NEW d \in AllDirs
    PROVE  Listing(NewLister(d)) /\ NewLister(d).owed = {}
  <1>1. PICK l : l = NewLister(d)
    OBVIOUS
  <1>2. /\ l \in ListerType /\ l.pc = "idle" /\ l.cursor = Base /\ l.page = {} /\ l.got = <<>>
        /\ l.owed = {}
    BY <1>1 DEF NewLister, ListerType
  <1>3. Covered(l)
    BY <1>2 DEF Covered
  <1>4. Has(l) = {}
    BY <1>2 DEF Has, Members
  <1>5. Ordered(l)
    BY <1>2, <1>4 DEF Ordered
  <1> QED BY <1>1, <1>2, <1>3, <1>5 DEF Listing

LEMMA ListBegins ==
    ASSUME Tree, ListInv, NEW limit \in Limits, ListBegin(limit)
    PROVE  ListInv'
  <1>1. PICK l : l = lister
    OBVIOUS
  <1>2. l \in ListerType /\ Listing(l) /\ l.owed \subseteq DOMAIN files
    BY <1>1 DEF ListInv, Listing
  <1>3. PICK owed : owed = IF l.cursor = Base
                           THEN {k \in DOMAIN files : l.prefix \in DirsTo(k)} ELSE l.owed
    OBVIOUS
  <1>4. owed \subseteq DOMAIN files /\ owed \in SUBSET Keys /\ \A k \in owed : l.prefix \in DirsTo(k)
    BY <1>2, <1>3 DEF Tree, Listing, Covered
  <1>5. PICK m : m = [l EXCEPT !.pc = "walk", !.limit = limit, !.todo = {l.prefix},
                               !.found = {}, !.owed = owed]
    OBVIOUS
  <1>6. lister' = m /\ files' = files /\ l.pc = "idle"
    BY <1>1, <1>3, <1>5 DEF ListBegin, disk
  <1>7. limit \in Nat
    BY FileBoundsAssumption
  <1>8. /\ m \in ListerType /\ m.pc = "walk" /\ m.prefix = l.prefix /\ m.cursor = l.cursor
        /\ m.todo = {l.prefix} /\ m.page = l.page /\ m.got = l.got /\ m.lost = l.lost
        /\ m.owed = owed
    BY <1>2, <1>4, <1>5, <1>7 DEF ListerType
  <1>9. Has(m) = Has(l)
    BY <1>8 DEF Has
  <1>10. Covered(m)
    <2>1. m.cursor # Base => \A k \in m.owed : Place(k) <= Place(m.cursor) => k \in Has(m)
      BY <1>2, <1>3, <1>8, <1>9 DEF Listing, Covered
    <2> QED BY <1>4, <1>8, <2>1 DEF Covered
  <1>11. ~m.lost => Ordered(m)
    BY <1>2, <1>6, <1>8, <1>9 DEF Listing, Ordered
  <1>12. m.page = {}
    BY <1>2, <1>6, <1>8 DEF Listing
  <1> QED BY <1>4, <1>6, <1>8, <1>10, <1>11, <1>12 DEF ListInv, Listing

LEMMA ListWalks ==
    ASSUME Tree, ListInv, Walk
    PROVE  ListInv'
  <1>1. PICK l : l = lister
    OBVIOUS
  <1>2. l \in ListerType /\ Listing(l) /\ l.owed \subseteq DOMAIN files
    BY <1>1 DEF ListInv, Listing
  <1>3. PICK d \in l.todo :
           lister' = [l EXCEPT !.todo = (@ \ {d}) \cup SubDirs(d), !.found = @ \cup KeysIn(d)]
    BY <1>1 DEF Walk
  <1>4. files' = files /\ l.pc = "walk"
    BY <1>1 DEF Walk, disk
  <1>5. SubDirs(d) \subseteq AllDirs /\ KeysIn(d) \subseteq Keys
    BY DEF Tree, SubDirs, KeysIn
  <1>6. PICK m : m = lister'
    OBVIOUS
  <1>7. /\ m \in ListerType /\ m.pc = l.pc /\ m.prefix = l.prefix /\ m.cursor = l.cursor
        /\ m.todo = (l.todo \ {d}) \cup SubDirs(d) /\ m.found = l.found \cup KeysIn(d)
        /\ m.page = l.page /\ m.got = l.got /\ m.lost = l.lost /\ m.owed = l.owed
    BY <1>2, <1>3, <1>5, <1>6 DEF ListerType
  <1>8. Has(m) = Has(l)
    BY <1>7 DEF Has
  <1>9. ASSUME NEW k \in l.owed PROVE k \in m.found \/ \E e \in m.todo : e \in DirsTo(k)
    <2>1. k \in l.found \/ \E e \in l.todo : e \in DirsTo(k)
      BY <1>2, <1>4 DEF Listing, Covered
    <2>2. CASE d \notin DirsTo(k)
      BY <1>7, <2>1, <2>2
    <2>3. CASE d \in DirsTo(k)
      <3>1. k \in DOMAIN files /\ k \in Keys /\ DirsTo(k) \subseteq dirs
        BY <1>2, WayToFile
      <3>2. d = DirName(k) \/ \E c \in DirsTo(k) : c # Base /\ DirName(c) = d
        BY <2>3, <3>1, KeyPaths, DirsToFacts
      <3>3. CASE d = DirName(k)
        BY <1>7, <3>1, <3>3 DEF KeysIn
      <3>4. ASSUME NEW c \in DirsTo(k), c # Base, DirName(c) = d
            PROVE  \E e \in m.todo : e \in DirsTo(k)
        BY <1>7, <3>1, <3>4 DEF SubDirs
      <3> QED BY <3>2, <3>3, <3>4
    <2> QED BY <2>2, <2>3
  <1>10. Covered(m)
    BY <1>2, <1>4, <1>7, <1>8, <1>9 DEF Listing, Covered
  <1>11. ~m.lost => Ordered(m)
    BY <1>2, <1>7, <1>8 DEF Listing, Ordered
  <1>12. m.page = {} /\ m.pc = "walk"
    BY <1>2, <1>4, <1>7 DEF Listing
  <1>13. Listing(m)
    BY <1>7, <1>10, <1>11, <1>12 DEF Listing
  <1> QED BY <1>2, <1>4, <1>6, <1>7, <1>13 DEF ListInv

LEMMA ListPaginates ==
    ASSUME ListInv, Paginate
    PROVE  ListInv'
  <1>1. PICK l : l = lister
    OBVIOUS
  <1>2. l \in ListerType /\ Listing(l) /\ l.owed \subseteq DOMAIN files
    BY <1>1 DEF ListInv, Listing
  <1>3. PICK keys : keys = AfterCursor(l.found, l.cursor)
    OBVIOUS
  <1>4. PICK more \in BOOLEAN : more = (l.limit > 0 /\ Cardinality(keys) > l.limit)
    OBVIOUS
  <1>5. PICK page : page = IF more THEN Slice(keys, l.limit) ELSE keys
    OBVIOUS
  <1>6. PICK cursor : cursor = IF more THEN Final(page) ELSE Base
    OBVIOUS
  <1>7. PICK lost : lost = (l.lost \/ (l.cursor # Base /\ l.cursor \notin l.found))
    OBVIOUS
  <1>8. /\ lister' = [l EXCEPT !.pc = "read", !.found = {}, !.page = page, !.lost = lost,
                               !.cursor = cursor]
        /\ files' = files /\ l.pc = "walk" /\ l.todo = {}
    BY <1>1, <1>3, <1>4, <1>5, <1>6, <1>7 DEF Paginate, NextCursor, disk
  <1>9. /\ l.found \in SUBSET Keys /\ l.owed \in SUBSET Keys /\ l.got \in Seq(Keys) /\ l.limit \in Nat
        /\ l.cursor \in Keys \cup {Base}
    BY <1>2 DEF ListerType
  <1>10. keys \in SUBSET Keys /\ keys \subseteq l.found
    BY <1>3, <1>9 DEF AfterCursor
  <1>11. /\ page \subseteq keys /\ (~more => page = keys /\ cursor = Base)
         /\ \A k \in page : \A j \in keys : Place(j) <= Place(k) => j \in page
         /\ more => cursor \in page /\ \A j \in page : Place(j) <= Place(cursor)
    <2>1. CASE more
      <3>1. keys # {}
        <4>1. Cardinality({}) = 0
          BY FS_EmptySet
        <4>2. l.limit > 0 /\ Cardinality(keys) > l.limit
          BY <1>4, <2>1
        <4>3. ASSUME keys = {} PROVE FALSE
          <5>1. Cardinality(keys) = 0
            BY <4>1, <4>3
          <5>2. PICK n \in Nat : n = l.limit
            BY <1>9
          <5>3. n > 0 /\ 0 > n
            BY <4>2, <5>1, <5>2
          <5> QED BY <5>2, <5>3
        <4> QED BY <4>3
      <3>2. page \subseteq keys /\ page # {}
            /\ \A k \in page : \A j \in keys : Place(j) <= Place(k) => j \in page
        BY <1>4, <1>5, <1>9, <1>10, <2>1, <3>1, SliceFacts
      <3>3. page \in SUBSET Keys
        BY <1>10, <3>2
      <3>4. Final(page) \in page /\ \A j \in page : Place(j) <= Place(Final(page))
        BY <3>2, <3>3, EndsOfKeys
      <3> QED BY <1>6, <2>1, <3>2, <3>4
    <2>2. CASE ~more
      BY <1>5, <1>6, <2>2
    <2> QED BY <2>1, <2>2
  <1>12. page \in SUBSET Keys /\ cursor \in Keys \cup {Base} /\ lost \in BOOLEAN
         /\ (cursor # Base <=> more)
    <2>1. Base \notin Keys
      BY KeyPaths
    <2> QED BY <1>7, <1>10, <1>11, <2>1
  <1>13. PICK m : m = lister'
    OBVIOUS
  <1>14. /\ m \in ListerType /\ m.pc = "read" /\ m.prefix = l.prefix /\ m.cursor = cursor
         /\ m.page = page /\ m.got = l.got /\ m.lost = lost /\ m.owed = l.owed
    BY <1>2, <1>8, <1>12, <1>13 DEF ListerType
  <1>15. Has(m) = Members(l.got) \cup page /\ l.page = {} /\ Has(l) = Members(l.got)
    BY <1>2, <1>8, <1>14 DEF Has, Listing
  <1>16. \A k \in l.owed : k \in l.found
    BY <1>2, <1>8 DEF Listing, Covered
  <1>17. \A k \in l.owed : k \in keys \/ k \in Has(l)
    <2>1. \A k \in l.found : k \in keys \/ (l.cursor \in l.found /\ Place(k) <= Place(l.cursor))
      <3> SUFFICES ASSUME NEW k \in l.found, k \notin keys
                   PROVE  l.cursor \in l.found /\ Place(k) <= Place(l.cursor)
        OBVIOUS
      <3>1. l.cursor \in l.found /\ ~(Place(l.cursor) < Place(k))
        BY <1>3 DEF AfterCursor
      <3>2. Place(k) \in Nat /\ Place(l.cursor) \in Nat
        BY <1>9, <3>1, PlaceFacts
      <3> QED BY <3>1, <3>2
    <2>2. l.cursor \in l.found => l.cursor # Base
      BY <1>9, KeyPaths
    <2> QED BY <1>2, <1>16, <2>1, <2>2 DEF Listing, Covered
  <1>18. Covered(m)
    <2>1. \A k \in m.owed : m.prefix \in DirsTo(k)
      BY <1>2, <1>14 DEF Listing, Covered
    <2>2. m.cursor # Base => \A k \in m.owed : Place(k) <= Place(m.cursor) => k \in Has(m)
      BY <1>11, <1>12, <1>14, <1>15, <1>17
    <2>3. m.cursor = Base => m.owed \subseteq Has(m)
      BY <1>11, <1>12, <1>14, <1>15, <1>17
    <2> QED BY <1>14, <2>1, <2>2, <2>3 DEF Covered
  <1>19. ASSUME ~m.lost PROVE Ordered(m)
    <2>1. ~l.lost /\ (l.cursor = Base \/ l.cursor \in l.found)
      BY <1>7, <1>14, <1>19
    <2>2. Ordered(l)
      BY <1>2, <2>1 DEF Listing
    <2>3. \A i \in DOMAIN l.got : l.got[i] \in Keys /\ l.got[i] \in Has(l)
      BY <1>9, <1>15 DEF Members
    <2>4. \A i \in DOMAIN l.got : \A k \in page : Place(l.got[i]) < Place(k)
      <3> SUFFICES ASSUME NEW i \in DOMAIN l.got, NEW k \in page
                   PROVE  Place(l.got[i]) < Place(k)
        OBVIOUS
      <3>1. l.cursor # Base
        <4>1. l.cursor = Base => l.got = <<>>
          BY <1>8, <2>2 DEF Ordered
        <4>2. DOMAIN <<>> = {}
          OBVIOUS
        <4> QED BY <4>1, <4>2
      <3>2. Place(l.got[i]) <= Place(l.cursor)
        BY <2>2, <2>3, <3>1 DEF Ordered
      <3>3. k \in keys /\ l.cursor \in l.found
        BY <1>11, <2>1, <3>1
      <3>4. Place(l.cursor) < Place(k)
        BY <1>3, <3>3 DEF AfterCursor
      <3>5. Place(l.got[i]) \in Nat /\ Place(l.cursor) \in Nat /\ Place(k) \in Nat
        BY <1>9, <1>10, <2>3, <3>3, PlaceFacts
      <3> QED BY <3>2, <3>4, <3>5
    <2>5. ASSUME cursor # Base, NEW k \in Has(m) PROVE Place(k) <= Place(cursor)
      <3>1. cursor \in page /\ \A j \in page : Place(j) <= Place(cursor)
        BY <1>11, <1>12, <2>5
      <3>2. CASE k \in page
        BY <3>1, <3>2
      <3>3. CASE k \in Members(l.got)
        <4>1. PICK i \in DOMAIN l.got : k = l.got[i]
          BY <3>3 DEF Members
        <4>2. Place(k) < Place(cursor)
          BY <2>4, <3>1, <4>1
        <4>3. Place(k) \in Nat /\ Place(cursor) \in Nat
          BY <1>12, <2>3, <2>5, <4>1, PlaceFacts
        <4> QED BY <4>2, <4>3
      <3> QED BY <1>15, <3>2, <3>3
    <2> QED BY <1>14, <2>2, <2>4, <2>5 DEF Ordered
  <1>20. Listing(m)
    BY <1>14, <1>18, <1>19 DEF Listing
  <1> QED BY <1>2, <1>8, <1>13, <1>14, <1>20 DEF ListInv

LEMMA ListReads ==
    ASSUME ListInv, ReadItem
    PROVE  ListInv'
  <1>1. PICK l : l = lister
    OBVIOUS
  <1>2. l \in ListerType /\ Listing(l) /\ l.owed \subseteq DOMAIN files
    BY <1>1 DEF ListInv, Listing
  <1>3. PICK k : k = First(l.page)
    OBVIOUS
  <1>4. PICK got : got = IF k \in DOMAIN files THEN Append(l.got, k) ELSE l.got
    OBVIOUS
  <1>5. /\ lister' = [l EXCEPT !.page = @ \ {k}, !.got = got]
        /\ files' = files /\ l.pc = "read" /\ l.page # {}
    BY <1>1, <1>3, <1>4 DEF ReadItem, disk
  <1>6. l.page \in SUBSET Keys /\ l.got \in Seq(Keys)
    BY <1>2 DEF ListerType
  <1>7. k \in l.page /\ k \in Keys /\ \A j \in l.page : Place(k) <= Place(j)
    BY <1>3, <1>5, <1>6, EndsOfKeys
  <1>8. got \in Seq(Keys)
    BY <1>4, <1>6, <1>7, AppendProperties
  <1>9. PICK m : m = lister'
    OBVIOUS
  <1>10. /\ m \in ListerType /\ m.pc = "read" /\ m.prefix = l.prefix /\ m.cursor = l.cursor
         /\ m.page = l.page \ {k} /\ m.got = got /\ m.lost = l.lost /\ m.owed = l.owed
    BY <1>2, <1>5, <1>8, <1>9 DEF ListerType
  <1>11. PICK n \in Nat : n = Len(l.got) /\ DOMAIN l.got = 1 .. n
    BY <1>6, LenProperties
  <1>12. CASE k \in DOMAIN files
    <2>1. /\ DOMAIN got = 1 .. (n + 1) /\ got[n + 1] = k
          /\ \A i \in 1 .. n : got[i] = l.got[i]
      BY <1>4, <1>6, <1>7, <1>11, <1>12, AppendProperties
    <2>2. \A i \in 1 .. (n + 1) : i = n + 1 \/ i \in 1 .. n
      OBVIOUS
    <2>3. n + 1 \in 1 .. (n + 1) /\ \A i \in 1 .. n : i \in 1 .. (n + 1)
      OBVIOUS
    <2>4. Members(got) = Members(l.got) \cup {k}
      BY <1>11, <2>1, <2>2, <2>3 DEF Members
    <2>5. Has(m) = Has(l)
      BY <1>7, <1>10, <2>4 DEF Has
    <2>6. Covered(m)
      BY <1>2, <1>5, <1>10, <2>5 DEF Listing, Covered
    <2>7. ASSUME ~m.lost PROVE Ordered(m)
      <3>1. Ordered(l)
        BY <1>2, <1>10, <2>7 DEF Listing
      <3>2. \A i, j \in DOMAIN got : i < j => Place(got[i]) < Place(got[j])
        <4> SUFFICES ASSUME NEW i \in 1 .. (n + 1), NEW j \in 1 .. (n + 1), i < j
                     PROVE  Place(got[i]) < Place(got[j])
          BY <2>1
        <4>1. i \in 1 .. n
          OBVIOUS
        <4>2. CASE j \in 1 .. n
          BY <1>11, <2>1, <3>1, <4>1, <4>2 DEF Ordered
        <4>3. CASE j = n + 1
          BY <1>7, <1>11, <2>1, <3>1, <4>1, <4>3 DEF Ordered
        <4> QED BY <2>2, <4>2, <4>3
      <3>3. \A i \in DOMAIN got : \A j \in l.page \ {k} : Place(got[i]) < Place(j)
        <4> SUFFICES ASSUME NEW i \in 1 .. (n + 1), NEW j \in l.page \ {k}
                     PROVE  Place(got[i]) < Place(j)
          BY <2>1
        <4>1. CASE i \in 1 .. n
          BY <1>11, <2>1, <3>1, <4>1 DEF Ordered
        <4>2. CASE i = n + 1
          <5>1. Place(k) <= Place(j)
            BY <1>7
          <5>2. Place(k) \in Nat /\ Place(j) \in Nat /\ Place(j) # Place(k)
            BY <1>6, <1>7, PlaceFacts
          <5>3. Place(k) < Place(j)
            BY <5>1, <5>2
          <5> QED BY <2>1, <4>2, <5>3
        <4> QED BY <2>2, <4>1, <4>2
      <3>4. m.cursor # Base => \A j \in Has(m) : Place(j) <= Place(m.cursor)
        BY <1>10, <2>5, <3>1 DEF Ordered
      <3> QED BY <1>10, <3>2, <3>3, <3>4 DEF Ordered
    <2>8. Listing(m)
      BY <1>10, <2>6, <2>7 DEF Listing
    <2> QED BY <1>2, <1>5, <1>9, <1>10, <2>8 DEF ListInv
  <1>13. CASE k \notin DOMAIN files
    <2>1. got = l.got /\ k \notin l.owed
      BY <1>2, <1>4, <1>13
    <2>2. Has(m) = Members(l.got) \cup (l.page \ {k}) /\ Has(l) = Members(l.got) \cup l.page
      BY <1>10, <2>1 DEF Has
    <2>3. /\ \A j \in l.owed : j \in Has(l) => j \in Has(m)
          /\ Has(m) \subseteq Has(l)
      BY <2>1, <2>2
    <2>4. Covered(m)
      BY <1>2, <1>5, <1>10, <2>3 DEF Listing, Covered
    <2>5. ~m.lost => Ordered(m)
      BY <1>2, <1>10, <2>1, <2>3 DEF Listing, Ordered
    <2>6. Listing(m)
      BY <1>10, <2>4, <2>5 DEF Listing
    <2> QED BY <1>2, <1>5, <1>9, <1>10, <2>6 DEF ListInv
  <1> QED BY <1>12, <1>13

LEMMA ListReturns ==
    ASSUME ListInv, ListEnds
    PROVE  ListInv'
  <1>1. PICK l : l = lister
    OBVIOUS
  <1>2. l \in ListerType /\ Listing(l) /\ l.owed \subseteq DOMAIN files
    BY <1>1 DEF ListInv, Listing
  <1>3. PICK pc : pc = IF l.cursor = Base THEN "done" ELSE "idle"
    OBVIOUS
  <1>4. PICK m : m = [l EXCEPT !.pc = pc]
    OBVIOUS
  <1>5. lister' = m /\ files' = files /\ l.pc = "read" /\ l.page = {}
    BY <1>1, <1>3, <1>4 DEF ListEnds, disk
  <1>6. /\ m \in ListerType /\ m.pc = pc /\ m.prefix = l.prefix /\ m.cursor = l.cursor
        /\ m.page = l.page /\ m.got = l.got /\ m.lost = l.lost /\ m.owed = l.owed
    BY <1>2, <1>3, <1>4 DEF ListerType
  <1>7. Has(m) = Has(l)
    BY <1>6 DEF Has
  <1>8. Covered(m)
    BY <1>2, <1>3, <1>5, <1>6, <1>7 DEF Listing, Covered
  <1>9. ~m.lost => Ordered(m)
    BY <1>2, <1>3, <1>6, <1>7 DEF Listing, Ordered
  <1>10. Listing(m)
    BY <1>3, <1>5, <1>6, <1>8, <1>9 DEF Listing
  <1> QED BY <1>2, <1>5, <1>6, <1>10 DEF ListInv

LEMMA ListInit == Init => ListInv
  BY NewListing, KeysAssumption DEF Init, ListInv

LEMMA ListStep == DiskInv /\ ListInv /\ [Next]_vars => ListInv'
  <1> SUFFICES ASSUME DiskInv, ListInv, [Next]_vars PROVE ListInv'
    OBVIOUS
  <1>0. Tree /\ lister.owed \in SUBSET Keys /\ lister.prefix \in AllDirs
    BY DEF DiskInv, ListInv, Listing, ListerType
  <1>1. ASSUME DOMAIN files \subseteq DOMAIN files', UNCHANGED lister PROVE ListInv'
    BY <1>1 DEF ListInv
  <1>2. ASSUME NEW s \in Slots, PutCall(s) PROVE ListInv'
    BY <1>1, <1>2
    DEF PutCall, PutWrite, PutRename, PutFails, PutErrors, PutMkdir, MkdirFails, disk
  <1>3. ASSUME NEW kept, DOMAIN files' = DOMAIN files \cap kept,
               lister' = [lister EXCEPT !.owed = lister.owed \cap kept]
        PROVE  ListInv'
    <2>1. Listing(lister')
      BY <1>3, OwedLess DEF ListInv
    <2>2. lister'.owed = lister.owed \cap kept
      BY <1>3 DEF ListInv, Listing, ListerType
    <2> QED BY <1>3, <2>1, <2>2 DEF ListInv
  <1>4. ASSUME NEW s \in Slots, NEW k \in Keys, RemoveUnlink(s, k) PROVE ListInv'
    <2>1. lister.owed \ {k} = lister.owed \cap (Keys \ {k})
      BY <1>0
    <2>2. DOMAIN files' = DOMAIN files \cap (Keys \ {k})
      BY <1>4 DEF RemoveUnlink, Keeping
    <2>3. lister' = [lister EXCEPT !.owed = lister.owed \cap (Keys \ {k})]
      BY <1>4, <2>1 DEF RemoveUnlink
    <2> QED BY <1>3, <2>2, <2>3
  <1>5. ASSUME NEW s \in Slots,
               PruneReads(s) \/ PruneRmdir(s) \/ PruneEnds(s) \/ PruneErrors(s)
        PROVE  ListInv'
    BY <1>1, <1>5 DEF PruneReads, PruneRmdir, PruneEnds, PruneErrors, disk
  <1>6. ASSUME NEW s \in Slots, ClearReads(s) \/ ClearEnds(s) PROVE ListInv'
    BY <1>1, <1>6 DEF ClearReads, ClearEnds, disk
  <1>7. ASSUME NEW s \in Slots, ClearEntry(s) PROVE ListInv'
    <2>1. PICK kept : /\ files' = Keeping(files, kept)
                      /\ lister' = [lister EXCEPT !.owed = @ \cap kept]
      BY <1>7 DEF ClearEntry
    <2>2. DOMAIN files' = DOMAIN files \cap kept
      BY <2>1 DEF Keeping
    <2> QED BY <1>3, <2>1, <2>2
  <1>11. ASSUME NEW s \in Slots, ClearErrors(s) PROVE ListInv'
    <2>1. PICK goneKeys : /\ files' = Keeping(files, Keys \ goneKeys)
                          /\ lister' = [lister EXCEPT !.owed = @ \ goneKeys]
      BY <1>11 DEF ClearErrors
    <2>2. lister.owed \ goneKeys = lister.owed \cap (Keys \ goneKeys)
      BY <1>0
    <2>3. DOMAIN files' = DOMAIN files \cap (Keys \ goneKeys)
      BY <2>1 DEF Keeping
    <2>4. lister' = [lister EXCEPT !.owed = lister.owed \cap (Keys \ goneKeys)]
      BY <2>1, <2>2
    <2> QED BY <1>3, <2>3, <2>4
  <1>12. CASE ListErrors
    BY <1>0, <1>12, NewListing DEF ListErrors, ListInv
  <1>8. CASE List
    BY <1>0, <1>8, <1>12, ListBegins, ListWalks, ListPaginates, ListReads, ListReturns DEF List
  <1>9. CASE Crash
    BY <1>0, <1>9, NewListing DEF Crash, ListInv
  <1>10. CASE UNCHANGED vars
    BY <1>1, <1>10 DEF vars, disk
  <1> QED
    BY <1>2, <1>4, <1>5, <1>6, <1>7, <1>8, <1>9, <1>10, <1>11 DEF Next, RemoveCall, ClearCall

(* A client that pages through a listing gets the keys in order and none     *)
(* twice unless its cursor was removed between two pages, and when it has    *)
(* read the last page it has every key that was there all along, whatever    *)
(* puts, removes and clears went on, for any keys and page limits.           *)
THEOREM ListingsAreSound == Spec => []ListingSound
  <1>1. ListInv => ListingSound
    <2> SUFFICES ASSUME ListInv PROVE ListingSound
      OBVIOUS
    <2>1. PagesOrdered
      BY DEF ListInv, Listing, Ordered, PagesOrdered
    <2>2. ListsAll
      BY DEF ListInv, Listing, Covered, Has, ListsAll
    <2> QED BY <2>1, <2>2 DEF ListingSound
  <1> QED BY <1>1, DiskInit, DiskStep, ListInit, ListStep, PTL DEF Spec
=============================================================================
