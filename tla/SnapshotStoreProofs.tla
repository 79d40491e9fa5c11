-------------------------- MODULE SnapshotStoreProofs --------------------------
(***************************************************************************)
(* Proofs about what Snapshot keeps: a listed snapshot can be restored, a  *)
(* complete one is altered only when its deletion is due, and a write      *)
(* replaces its target behind a complete snapshot. They rest on SnapInv.   *)
(***************************************************************************)
EXTENDS SnapshotProofs

-----------------------------------------------------------------------------
(* The strengthening                                                       *)

FiniteDirs == IsFiniteSet({id \in Id : dir[id] # NoDir})

\* The age alone lets the reaper delete the snapshot.
Old(id) == now > dir[id].ts + KeepAge

\* The newer snapshots that the reaper's pass is not about to delete.
NewerKept(id) == Before(id) \ doomed

\* What the reaper deletes was expendable, and stays so when those doomed before
\* it are gone.
DoomedOK ==
  \A id \in doomed : Old(id) /\ Cardinality(NewerKept(id)) >= KeepCount

\* File j of the call is in its snapshot directory.
Kept(c, j) ==
  LET payload == dir[call[c].id].payload
      name == Flat[call[c].files[j]]
  IN name \in DOMAIN payload /\ payload[name] = Captured(c, j)

\* The files a call has captured are in its directory, but for the one it has just
\* truncated. A list of files may name one twice.
MadeOK ==
  \A c \in Caller :
    /\ pc[c] = "payload" => \A j \in 1..call[c].done : Kept(c, j)
    /\ pc[c] = "filling" =>
         \A j \in 1..call[c].done :
           call[c].files[j] # call[c].files[call[c].done + 1] => Kept(c, j)
    /\ pc[c] \in {"manifest", "sealing"} => \A j \in DOMAIN call[c].files : Kept(c, j)

\* Which steps each kind of call goes through, and on which files.
KindOK(k, p) ==
  /\ k.kind = "create" =>
       /\ p \in {"naming"} \union Making
       /\ \A i, j \in DOMAIN k.files : k.files[i] = k.files[j] => k.bytes[i] = k.bytes[j]
  /\ k.kind = "restore" => p \notin {"naming"} \union Making
  /\ k.kind = "write" => p # "checking" /\ Len(k.files) = 1 /\ k.done = 0
  /\ k.kind # "create" /\ p \notin {"opening", "locking"} => Left(k) = {}

KindsOK == \A c \in Caller : pc[c] \in Steps => KindOK(call[c], pc[c])

\* The inodes that the name t has had while the call of record k was under way: all of
\* them but for its first file, whose first one is on the record.
Recent(k, t) == (IF t = k.files[1] THEN k.since ELSE 1)..Len(file[t])

\* A lock is of an inode the name has had, that of the first file since the start.
LocksOK ==
  \A c \in Caller : pc[c] \in Steps =>
    /\ call[c].since \in 1..Len(file[call[c].files[1]])
    /\ \A t \in DOMAIN call[c].locks : call[c].locks[t] \in Recent(call[c], t)
    /\ pc[c] = "locking" => call[c].fd \in Recent(call[c], NextTarget(c))

\* Past the comparison the bytes under the lock are those of the ETag.
ReadOK ==
  \A c \in Caller :
    pc[c] \in {"naming", "checking", "replacing"} \union Making /\ call[c].kind # "create"
      => Primary(c) = call[c].etag

StoreInv ==
  FiniteDirs /\ DoomedOK /\ MadeOK /\ KindsOK /\ LocksOK /\ ReadOK /\ ListedIsRestorable

\* The snapshot of a write is complete.
Saved(c) ==
  /\ call[c].id \notin doomed
  /\ Whole(call[c].id)
  /\ dir[call[c].id].manifest = <<[path |-> call[c].files[1], sha256 |-> call[c].etag]>>

\* So it is when the write is about to replace its target.
SavedOK == \A c \in Caller : pc[c] = "replacing" /\ call[c].kind = "write" => Saved(c)

-----------------------------------------------------------------------------
(* The order of a listing                                                  *)

\* Listed snapshots are directories with numbers for their time and name.
LEMMA ListedFacts ==
  ASSUME SnapInv
  PROVE  /\ \A id \in Listed :
              id \in Id /\ id \in Nat /\ dir[id] # NoDir /\ dir[id] \in Dir
              /\ dir[id].ts \in 0..MaxTime
         /\ \A id \in doomed : id \in Id /\ id \in Nat /\ dir[id] # NoDir /\ dir[id] \in Dir
                               /\ dir[id].ts \in 0..MaxTime
         /\ now \in Nat /\ KeepAge \in Nat /\ KeepCount \in Nat /\ MaxTime \in Nat
<1>1. \A id \in Id : dir[id] # NoDir => dir[id] \in Dir /\ dir[id].ts \in 0..MaxTime
  BY DEF SnapInv, DirsOK, Dir
<1>2. \A id \in Listed : id \in Id /\ dir[id] # NoDir
  BY DEF Listed, Sealed, HasManifest, Exists
<1>3. \A id \in doomed : id \in Id /\ dir[id] # NoDir
  BY DEF SnapInv, DirsOK, Exists
<1>4. now \in Nat /\ KeepAge \in Nat /\ KeepCount \in Nat /\ MaxTime \in Nat /\ Id \subseteq Nat
  BY SnapshotAssumption DEF SnapInv, CountsOK
<1>5. QED
  BY <1>1, <1>2, <1>3, <1>4

\* Any set of listed snapshots is finite.
LEMMA ListedFinite ==
  ASSUME FiniteDirs, NEW S \in SUBSET Listed
  PROVE  IsFiniteSet(S) /\ Cardinality(S) \in Nat
<1>1. S \subseteq {id \in Id : dir[id] # NoDir}
  BY DEF Listed, Sealed, HasManifest, Exists
<1>2. IsFiniteSet(S)
  BY <1>1, FS_Subset DEF FiniteDirs
<1>3. QED
  BY <1>2, FS_CardinalityType

\* Of two sets of listed snapshots the one in the other has no more.
LEMMA ListedSmaller ==
  ASSUME FiniteDirs, NEW S \in SUBSET Listed, NEW T \in SUBSET S
  PROVE  Cardinality(T) <= Cardinality(S)
<1>1. IsFiniteSet(S)
  BY ListedFinite
<1>2. QED
  BY <1>1, FS_Subset

\* What precedes a snapshot precedes those it precedes.
LEMMA PrecedesTransitive ==
  ASSUME SnapInv, NEW x \in Listed, NEW y \in Listed \union doomed, NEW z \in Listed \union doomed,
         Precedes(x, y), Precedes(y, z)
  PROVE  Precedes(x, z)
<1>1. /\ x \in Nat /\ y \in Nat /\ z \in Nat
      /\ dir[x].ts \in Nat /\ dir[y].ts \in Nat /\ dir[z].ts \in Nat
  BY ListedFacts
<1>2. QED
  BY <1>1 DEF Precedes

\* Some snapshot of a set of listed ones is preceded by no other of the set.
LEMMA Newest ==
  ASSUME SnapInv, NEW S \in SUBSET Listed, S # {}
  PROVE  \E m \in S : \A x \in S : ~Precedes(x, m)
<1> DEFINE Ages == {MaxTime - dir[x].ts : x \in S}
<1>1. \A x \in S : x \in Nat /\ dir[x].ts \in 0..MaxTime /\ MaxTime \in Nat
  BY ListedFacts
<1>2. Ages \in SUBSET Nat /\ Ages # {}
  BY <1>1
<1>3. PICK a \in Ages : \A b \in Ages : a <= b
  BY <1>2, LeastOf
<1>4. PICK y \in S : a = MaxTime - dir[y].ts
  BY <1>3
<1>5. ASSUME NEW x \in S
      PROVE  dir[x].ts <= dir[y].ts
  <2>1. MaxTime - dir[x].ts \in Ages
    OBVIOUS
  <2>2. MaxTime - dir[y].ts <= MaxTime - dir[x].ts
    BY <1>3, <1>4, <2>1
  <2>3. dir[x].ts \in 0..MaxTime /\ dir[y].ts \in 0..MaxTime /\ MaxTime \in Nat
    BY <1>1
  <2>4. QED
    BY <2>2, <2>3
<1> DEFINE Same == {x \in S : dir[x].ts = dir[y].ts}
<1>6. Same \in SUBSET Nat /\ Same # {}
  BY <1>1
<1>7. PICK m \in Same : \A x \in Same : m <= x
  BY <1>6, LeastOf
<1>8. ASSUME NEW x \in S
      PROVE  ~Precedes(x, m)
  BY <1>1, <1>5, <1>7 DEF Precedes
<1>9. QED
  BY <1>7, <1>8

\* A snapshot beyond the first KeepCount has that many before it that are not beyond
\* them.
LEMMA NewestSpared ==
  ASSUME SnapInv, FiniteDirs, NEW o \in Listed, Cardinality(Before(o)) >= KeepCount
  PROVE  Cardinality({x \in Before(o) : ~(Cardinality(Before(x)) >= KeepCount)}) >= KeepCount
<1> DEFINE B == Before(o)
           P == {x \in B : ~(Cardinality(Before(x)) >= KeepCount)}
<1>1. B \in SUBSET Listed /\ P \in SUBSET B /\ P \in SUBSET Listed
  BY DEF Before
<1>2. Cardinality(P) \in Nat /\ KeepCount \in Nat
  BY <1>1, ListedFinite, ListedFacts
<1>3. SUFFICES ASSUME Cardinality(P) < KeepCount
               PROVE  FALSE
  BY <1>2
<1>4. B \ P # {}
  <2>1. SUFFICES ASSUME B \ P = {}
                 PROVE  FALSE
    OBVIOUS
  <2>2. B = P
    BY <1>1, <2>1
  <2>3. QED
    BY <1>2, <1>3, <2>2
<1>5. PICK m \in B \ P : \A x \in B \ P : ~Precedes(x, m)
  BY <1>1, <1>4, Newest
<1>6. m \in Listed /\ Precedes(m, o) /\ Cardinality(Before(m)) >= KeepCount
  BY <1>5 DEF Before
<1>7. ASSUME NEW x \in Before(m)
      PROVE  x \in P
  <2>1. x \in Listed /\ Precedes(x, m)
    BY DEF Before
  <2>2. x \in B
    BY <1>6, <2>1, PrecedesTransitive DEF Before
  <2>3. QED
    BY <1>5, <2>1, <2>2
<1>8. Before(m) \in SUBSET P
  BY <1>7
<1>9. Cardinality(Before(m)) <= Cardinality(P) /\ Cardinality(Before(m)) \in Nat
  BY <1>1, <1>8, ListedSmaller, ListedFinite
<1>10. QED
  BY <1>2, <1>3, <1>6, <1>9

\* An expendable snapshot stays expendable when those the reaper has doomed are gone.
LEMMA StillExpendable ==
  ASSUME SnapInv, FiniteDirs, DoomedOK, NEW id \in Listed, Expendable(id)
  PROVE  Cardinality(NewerKept(id)) >= KeepCount
<1>1. NewerKept(id) \in SUBSET Listed
  BY DEF NewerKept, Before
<1>2. CASE Before(id) \intersect doomed = {}
  <2>1. NewerKept(id) = Before(id)
    BY <1>2 DEF NewerKept
  <2>2. QED
    BY <2>1 DEF Expendable
<1>3. CASE Before(id) \intersect doomed # {}
  <2>1. PICK o \in Before(id) : o \in doomed
    BY <1>3
  <2>2. o \in Listed /\ Precedes(o, id)
    BY DEF Before
  <2>3. NewerKept(o) \in SUBSET NewerKept(id)
    BY <2>2, PrecedesTransitive DEF NewerKept, Before
  <2>4. Cardinality(NewerKept(o)) <= Cardinality(NewerKept(id))
    BY <1>1, <2>3, ListedSmaller
  <2>5. Cardinality(NewerKept(o)) >= KeepCount
    BY <2>1 DEF DoomedOK
  <2>6. /\ Cardinality(NewerKept(o)) \in Nat /\ Cardinality(NewerKept(id)) \in Nat
        /\ KeepCount \in Nat
    BY <1>1, <2>3, ListedFinite, ListedFacts
  <2>7. QED
    BY <2>4, <2>5, <2>6
<1>4. QED
  BY <1>2, <1>3

\* What is doomed is expendable while it is listed.
LEMMA DoomedExpendable ==
  ASSUME SnapInv, FiniteDirs, DoomedOK, NEW id \in doomed
  PROVE  Expendable(id)
<1>1. Before(id) \in SUBSET Listed /\ NewerKept(id) \in SUBSET Before(id)
      /\ NewerKept(id) \in SUBSET Listed
  BY DEF NewerKept, Before
<1>2. Cardinality(NewerKept(id)) <= Cardinality(Before(id))
  BY <1>1, ListedSmaller
<1>3. /\ Cardinality(NewerKept(id)) \in Nat /\ Cardinality(Before(id)) \in Nat
      /\ KeepCount \in Nat
  BY <1>1, ListedFinite, ListedFacts
<1>4. QED
  BY <1>2, <1>3 DEF DoomedOK, Old, Expendable

-----------------------------------------------------------------------------
(* What a step does to a directory                                         *)

\* It is left alone; loses an entry, or is removed, by the reaper; is being made and
\* shows no manifest; has its manifest completed; reaches the disk; loses bytes that
\* never did.
Untouched(id) == dir'[id] = dir[id]

Reaped(id) ==
  /\ id \in doomed
  /\ dir'[id] # NoDir => dir'[id].ts = dir[id].ts

BeingMade(id) ==
  /\ id \notin doomed
  /\ dir[id] # NoDir =>
       dir[id].manifest \in {NoManifest, Torn} /\ dir'[id].ts = dir[id].ts
  /\ dir'[id] # NoDir
  /\ dir'[id].manifest \in {NoManifest, Torn}

Completed(id) ==
  /\ dir[id] # NoDir /\ dir[id].manifest \in {NoManifest, Torn}
  /\ Whole(id)'
  /\ dir'[id].ts = dir[id].ts

Synced(id) == Whole(id) /\ dir'[id] = [dir[id] EXCEPT !.durable = TRUE]

PowerTorn(id) ==
  /\ PowerLoss
  /\ dir[id] # NoDir /\ ~dir[id].durable
  /\ dir'[id] # NoDir
  /\ \E payload : dir'[id] = [dir[id] EXCEPT !.payload = payload]
  /\ Vanish

DirChange(id) ==
  \/ Untouched(id) \/ Reaped(id) \/ BeingMade(id) \/ Completed(id) \/ Synced(id) \/ PowerTorn(id)

\* One directory is written.
LEMMA OneDir ==
  ASSUME SnapInv, NEW i \in Id, NEW D, dir' = [dir EXCEPT ![i] = D]
  PROVE  dir'[i] = D /\ \A id \in Id \ {i} : dir'[id] = dir[id]
  BY DEF SnapInv, DirsOK

\* A captured file is created or filled.
LEMMA PayloadChange ==
  ASSUME SnapInv, NEW c \in Caller, pc[c] \in Making, NEW t \in Target,
         NEW bytes \in Content \union {Torn}, PutPayload(call[c].id, Flat[t], bytes)
  PROVE  \A id \in Id : Untouched(id) \/ (id = call[c].id /\ BeingMade(id))
<1> DEFINE i == call[c].id
<1>1. /\ i \in Id /\ DirsOK /\ dir[i] # NoDir /\ dir[i].manifest \in {NoManifest, Torn}
      /\ i \notin doomed
  BY MakingFacts DEF SnapInv, OwnDir
<1>2. PICK D \in Dir : /\ dir' = [dir EXCEPT ![i] = D]
                       /\ D.manifest = dir[i].manifest /\ D.ts = dir[i].ts
  BY <1>1, PayloadPut
<1>3. D # NoDir
  BY SnapshotAssumption
<1>4. dir'[i] = D /\ \A id \in Id \ {i} : dir'[id] = dir[id]
  BY <1>1, <1>2, OneDir
<1>5. QED
  BY <1>1, <1>2, <1>3, <1>4 DEF Untouched, BeingMade

\* The steps of a call that is making its snapshot, but the last.
LEMMA MakingChanges ==
  ASSUME SnapInv, NEW c \in Caller,
         MakeDir(c) \/ CreatePayload(c) \/ FillPayload(c) \/ CreateManifest(c)
  PROVE  \A id \in Id : Untouched(id) \/ (id = call[c].id /\ BeingMade(id))
<1>1. CASE MakeDir(c)
  <2> DEFINE D == [ts |-> now, payload |-> [n \in {} |-> Torn], manifest |-> NoManifest,
                   durable |-> FALSE]
             i == call[c].id
  <2>1. pc[c] \in Steps /\ dir[i] = NoDir /\ dir' = [dir EXCEPT ![i] = D]
    BY <1>1 DEF MakeDir, Goto, Steps, Exists
  <2>2. i \in Id /\ i \notin doomed
    BY <2>1, CallFacts DEF SnapInv, DirsOK, Exists
  <2>3. [n \in {} |-> Torn] \in Partial({Flat[t] : t \in Target}, Content \union {Torn})
    BY PartialNone
  <2>4. D \in Dir /\ D.manifest = NoManifest
    BY <2>3 DEF Dir, SnapInv, CountsOK
  <2> HIDE DEF D
  <2>5. D # NoDir
    BY <2>4, SnapshotAssumption
  <2>6. QED
    BY <2>1, <2>2, <2>4, <2>5, OneDir DEF Untouched, BeingMade
<1>2. CASE CreatePayload(c) \/ FillPayload(c)
  <2>1. pc[c] \in Making /\ pc[c] \in Steps
    BY <1>2 DEF CreatePayload, FillPayload, Goto, Making, Steps
  <2>2. /\ call[c].done + 1 \in DOMAIN call[c].files
        /\ call[c].files[call[c].done + 1] \in Target
        /\ Captured(c, call[c].done + 1) \in Content \union {Torn}
    BY <2>1, CallFacts, MakingFacts
  <2>3. \E bytes \in Content \union {Torn} :
          PutPayload(call[c].id, Flat[call[c].files[call[c].done + 1]], bytes)
    BY <1>2, <2>2 DEF CreatePayload, FillPayload
  <2>4. QED
    BY <2>1, <2>2, <2>3, PayloadChange
<1>3. CASE CreateManifest(c)
  <2> DEFINE i == call[c].id
             D == [dir[i] EXCEPT !.manifest = Torn]
  <2>1. pc[c] \in Making /\ dir' = [dir EXCEPT ![i] = D]
    BY <1>3 DEF CreateManifest, Goto, Making
  <2>2. /\ i \in Id /\ dir[i] \in Dir /\ dir[i].manifest \in {NoManifest, Torn}
        /\ i \notin doomed
    BY <2>1, MakingFacts DEF SnapInv, OwnDir
  <2>3. D \in Dir /\ D.manifest = Torn /\ D.ts = dir[i].ts
    BY <2>2 DEF Dir
  <2> HIDE DEF D
  <2>4. D # NoDir
    BY <2>3, SnapshotAssumption
  <2>5. QED
    BY <2>1, <2>2, <2>3, <2>4, OneDir DEF Untouched, BeingMade
<1>4. QED
  BY <1>1, <1>2, <1>3

\* The manifest is filled: every file it lists is there with its hash.
LEMMA FillManifestChange ==
  ASSUME SnapInv, MadeOK, NEW c \in Caller, FillManifest(c)
  PROVE  /\ \A id \in Id : Untouched(id) \/ (id = call[c].id /\ Completed(id))
         /\ dir'[call[c].id].manifest =
              [i \in DOMAIN call[c].files |->
                 [path |-> call[c].files[i], sha256 |-> Captured(c, i)]]
<1>1. pc[c] = "sealing" /\ pc[c] \in Making /\ pc[c] \in Steps
  BY DEF FillManifest, Goto, Making, Steps
<1>2. PICK id \in Id : id = call[c].id
  BY <1>1, MakingFacts
<1> DEFINE manifest == [i \in DOMAIN call[c].files |->
                          [path |-> call[c].files[i], sha256 |-> Captured(c, i)]]
           D == [dir[id] EXCEPT !.manifest = manifest]
<1>3. /\ dir[id] \in Dir /\ dir[id] # NoDir
       /\ dir[id].manifest \in {NoManifest, Torn}
  BY <1>1, <1>2, MakingFacts
<1>4. Len(call[c].files) \in Nat /\ DOMAIN call[c].files = 1..Len(call[c].files)
  BY <1>1, CallFacts, SeqFacts
<1>5. manifest \in [1..Len(call[c].files) -> Row]
  BY <1>1, <1>4, MakingFacts DEF Row
<1>6. manifest \in Seq(Row)
  BY <1>4, <1>5, FunctionIsSeq
<1>7. manifest # Torn /\ manifest # NoManifest
  BY <1>6, SnapshotAssumption
<1>8. dir' = [dir EXCEPT ![id] = D]
  BY <1>2 DEF FillManifest
<1>9. \A i \in DOMAIN call[c].files :
        /\ manifest[i].path = call[c].files[i]
        /\ manifest[i].sha256 = Captured(c, i)
  OBVIOUS
<1>10. DOMAIN manifest = DOMAIN call[c].files
  OBVIOUS
<1> HIDE DEF manifest
<1>11. D \in Dir /\ D.manifest = manifest /\ D.ts = dir[id].ts /\ D.payload = dir[id].payload
  BY <1>3, <1>6 DEF Dir
<1> HIDE DEF D
<1>12. dir'[id] = D /\ (\A o \in Id \ {id} : dir'[o] = dir[o]) /\ D # NoDir
  BY <1>8, <1>11, OneDir, SnapshotAssumption
<1>13. \A i \in DOMAIN call[c].files :
         /\ Flat[call[c].files[i]] \in DOMAIN dir[id].payload
         /\ dir[id].payload[Flat[call[c].files[i]]] = Captured(c, i)
  BY <1>1, <1>2 DEF MadeOK, Kept
<1>14. Sealed(id)'
  BY <1>7, <1>11, <1>12 DEF Sealed, HasManifest, Exists
<1>15. Whole(id)'
  BY <1>9, <1>10, <1>11, <1>12, <1>13, <1>14 DEF Whole, RowHolds
<1>16. Completed(id)
  BY <1>3, <1>11, <1>12, <1>15 DEF Completed
<1>17. QED
  BY <1>2, <1>11, <1>12, <1>16 DEF Untouched, manifest

\* A removal by the reaper.
LEMMA ReapEntryChange ==
  ASSUME SnapInv, ReapEntry
  PROVE  \A id \in Id : Untouched(id) \/ Reaped(id)
<1>1. PICK i \in doomed :
        \/ \E n \in DOMAIN dir[i].payload :
             dir' = [dir EXCEPT ![i].payload =
                       [m \in DOMAIN dir[i].payload \ {n} |-> dir[i].payload[m]]]
        \/ dir' = [dir EXCEPT ![i].manifest = NoManifest]
        \/ dir' = [dir EXCEPT ![i] = NoDir]
  BY DEF ReapEntry
<1>2. i \in Id /\ dir[i] \in Dir
  BY DEF SnapInv, DirsOK, Exists
<1>3. \A payload : [dir[i] EXCEPT !.payload = payload].ts = dir[i].ts
  BY <1>2 DEF Dir
<1>4. [dir[i] EXCEPT !.manifest = NoManifest].ts = dir[i].ts
  BY <1>2 DEF Dir
<1>5. PICK D : dir' = [dir EXCEPT ![i] = D] /\ (D = NoDir \/ D.ts = dir[i].ts)
  BY <1>1, <1>3, <1>4
<1>6. dir'[i] = D /\ \A id \in Id \ {i} : dir'[id] = dir[id]
  BY <1>2, <1>5, OneDir
<1>7. QED
  BY <1>5, <1>6 DEF Untouched, Reaped

\* The disk and the machine.
LEMMA MachineChange ==
  ASSUME SnapInv, Writeback \/ PowerCut
  PROVE  \A id \in Id : Untouched(id) \/ Synced(id) \/ PowerTorn(id)
<1>1. CASE Writeback
  <2>1. PICK i \in Id : Whole(i) /\ dir' = [dir EXCEPT ![i].durable = TRUE]
    BY <1>1 DEF Writeback
  <2>2. dir'[i] = [dir[i] EXCEPT !.durable = TRUE] /\ \A id \in Id \ {i} : dir'[id] = dir[id]
    BY <2>1, OneDir
  <2>3. QED
    BY <2>1, <2>2 DEF Untouched, Synced
<1>2. CASE PowerCut
  <2>1. PICK lost \in SUBSET {id \in Id : Exists(id) /\ ~dir[id].durable} :
          dir' = [id \in Id |->
                    IF id \in lost
                    THEN [dir[id] EXCEPT !.payload = [n \in DOMAIN dir[id].payload |-> Torn]]
                    ELSE dir[id]]
    BY <1>2 DEF PowerCut
  <2>2. ASSUME NEW id \in Id
        PROVE  Untouched(id) \/ PowerTorn(id)
    <3>1. CASE id \in lost
      <4> DEFINE Names == {Flat[t] : t \in Target}
                 payload == [n \in DOMAIN dir[id].payload |-> Torn]
      <4>1. dir[id] \in Dir /\ dir[id] # NoDir /\ ~dir[id].durable
        BY <3>1 DEF SnapInv, DirsOK, Exists
      <4>2. dir[id].payload \in Partial(Names, Content \union {Torn})
        BY <4>1 DEF Dir
      <4> HIDE DEF Names
      <4>3. payload \in Partial(Names, Content \union {Torn})
        BY <4>2, PartialAll
      <4>4. dir'[id] = [dir[id] EXCEPT !.payload = payload]
        BY <2>1, <3>1
      <4> HIDE DEF payload
      <4>5. dir'[id] \in Dir
        BY <4>1, <4>3, <4>4 DEF Dir, Names
      <4>6. dir'[id] # NoDir
        BY <4>5, SnapshotAssumption
      <4>7. QED
        BY <1>2, <4>1, <4>4, <4>6 DEF PowerCut, PowerTorn
    <3>2. CASE id \notin lost
      BY <2>1, <3>2 DEF Untouched
    <3>3. QED
      BY <3>1, <3>2
  <2>3. QED
    BY <2>2
<1>3. QED
  BY <1>1, <1>2

\* All steps.
LEMMA DirChanges ==
  ASSUME SnapInv, MadeOK, [Next]_vars
  PROVE  /\ \A id \in Id : DirChange(id)
         /\ \E x : \A id \in Id : dir[id] = NoDir /\ dir'[id] # NoDir => id = x
<1>1. ASSUME NEW c \in Caller,
             \/ StartWrite(c) \/ StartCreate(c) \/ StartRestore(c) \/ RefuseRestore(c)
             \/ OpenTarget(c) \/ LockTarget(c) \/ LockBusy(c) \/ VerifyEtag(c) \/ StaleEtag(c)
             \/ DirExists(c) \/ CheckPayloads(c) \/ BadPayload(c) \/ ReplaceTarget(c)
             \/ StepFails(c)
      PROVE  dir' = dir
  BY <1>1 DEF StartWrite, StartCreate, StartRestore, Start, RefuseRestore, OpenTarget,
     LockTarget, LockBusy, VerifyEtag, StaleEtag, DirExists, CheckPayloads, BadPayload,
     ReplaceTarget, StepFails
<1>2. ASSUME Reap \/ ReapFails \/ Tick \/ Crash \/ UNCHANGED vars
      PROVE  dir' = dir
  BY <1>2 DEF Reap, ReapFails, Tick, Crash, vars
<1>3. ASSUME NEW c \in Caller,
             \/ MakeDir(c) \/ CreatePayload(c) \/ FillPayload(c) \/ CreateManifest(c)
             \/ FillManifest(c)
      PROVE  /\ \A id \in Id : DirChange(id)
             /\ \A id \in Id : Untouched(id) \/ id = call[c].id
  BY <1>3, MakingChanges, FillManifestChange DEF DirChange
<1>4. ASSUME ReapEntry \/ Writeback \/ PowerCut
      PROVE  \A id \in Id : DirChange(id) /\ (Untouched(id) \/ dir[id] # NoDir)
  <2>1. \A id \in doomed : dir[id] # NoDir
    BY DEF SnapInv, DirsOK, Exists
  <2>2. CASE ReapEntry
    BY <2>1, <2>2, ReapEntryChange DEF DirChange, Reaped
  <2>3. CASE Writeback \/ PowerCut
    BY <2>3, MachineChange DEF DirChange, Synced, Whole, Sealed, HasManifest, Exists, PowerTorn
  <2>4. QED
    BY <1>4, <2>2, <2>3
<1>5. CASE dir' = dir
  BY <1>5 DEF DirChange, Untouched
<1>6. CASE \E c \in Caller :
             \/ MakeDir(c) \/ CreatePayload(c) \/ FillPayload(c) \/ CreateManifest(c)
             \/ FillManifest(c)
  BY <1>3, <1>6 DEF Untouched
<1>7. CASE ReapEntry \/ Writeback \/ PowerCut
  BY <1>4, <1>7 DEF Untouched
<1>8. QED
  BY <1>1, <1>2, <1>5, <1>6, <1>7 DEF Next

-----------------------------------------------------------------------------
(* The reaper                                                              *)

\* What a step does to the listing: a directory keeps its time, and a listed snapshot
\* stays listed unless it is doomed.
LEMMA ListingGoesOn ==
  ASSUME SnapInv, NEW id \in Id, DirChange(id), dir[id] # NoDir
  PROVE  /\ dir'[id] # NoDir => dir'[id].ts = dir[id].ts
         /\ id \in Listed => id \in Listed' \/ id \in doomed
<1>1. dir[id] \in Dir
  BY DEF SnapInv, DirsOK
<1>2. id \in Listed <=> dir[id].manifest \notin {NoManifest, Torn}
  BY DEF Listed, Sealed, HasManifest, Exists
<1>3. id \in Listed' <=> dir'[id] # NoDir /\ dir'[id].manifest \notin {NoManifest, Torn}
  BY DEF Listed, Sealed, HasManifest, Exists
<1>4. CASE Untouched(id)
  BY <1>2, <1>3, <1>4 DEF Untouched
<1>5. CASE Reaped(id)
  BY <1>5 DEF Reaped
<1>6. CASE BeingMade(id)
  BY <1>2, <1>6 DEF BeingMade
<1>7. CASE Completed(id)
  BY <1>2, <1>7 DEF Completed
<1>8. CASE Synced(id)
  <2>1. dir'[id] = [dir[id] EXCEPT !.durable = TRUE]
    BY <1>8 DEF Synced
  <2>2. dir'[id] \in Dir /\ dir'[id].ts = dir[id].ts /\ dir'[id].manifest = dir[id].manifest
    BY <1>1, <2>1 DEF Dir
  <2>3. QED
    BY <1>2, <1>3, <2>2, SnapshotAssumption
<1>9. CASE PowerTorn(id)
  <2>1. PICK payload : dir'[id] = [dir[id] EXCEPT !.payload = payload]
    BY <1>9 DEF PowerTorn
  <2>2. dir'[id].ts = dir[id].ts /\ dir'[id].manifest = dir[id].manifest /\ dir'[id] # NoDir
    BY <1>1, <1>9, <2>1 DEF Dir, PowerTorn
  <2>3. QED
    BY <1>2, <1>3, <2>2
<1>10. QED
  BY <1>4, <1>5, <1>6, <1>7, <1>8, <1>9 DEF DirChange

\* Time never runs backwards.
LEMMA TimePasses == ASSUME SnapInv, [Next]_vars PROVE now' \in Nat /\ now' >= now
<1>1. now \in Nat
  BY DEF SnapInv, CountsOK
<1>2. now' = now \/ now' = now + 1
  BY ZenonT(60) DEF Next, vars, StartWrite, StartCreate, StartRestore, Start, RefuseRestore, OpenTarget,
     LockTarget, LockBusy, VerifyEtag, StaleEtag, DirExists, CheckPayloads, BadPayload,
     ReplaceTarget, StepFails, MakeDir, CreatePayload, FillPayload, CreateManifest, FillManifest,
     Reap, ReapEntry, ReapFails, Tick, Writeback, Crash, PowerCut, Vanish
<1>3. QED
  BY <1>1, <1>2

\* Only a pass that begins dooms a snapshot.
LEMMA OnlyReapDooms == ASSUME [Next]_vars PROVE Reap \/ doomed' \subseteq doomed
  BY ZenonT(60) DEF Next, vars, StartWrite, StartCreate, StartRestore, Start, RefuseRestore, OpenTarget,
     LockTarget, LockBusy, VerifyEtag, StaleEtag, DirExists, CheckPayloads, BadPayload,
     ReplaceTarget, StepFails, MakeDir, CreatePayload, FillPayload, CreateManifest, FillManifest,
     ReapEntry, ReapFails, Tick, Writeback, Crash, PowerCut, Vanish

\* Those the reaper is not about to delete stay before a snapshot.
LEMMA NewerStay ==
  ASSUME SnapInv, \A x \in Id : DirChange(x), doomed' \subseteq doomed,
         NEW id \in Id, dir[id] # NoDir, dir'[id] # NoDir
  PROVE  NewerKept(id) \subseteq NewerKept(id)' /\ NewerKept(id)' \subseteq Listed'
<1>1. ASSUME NEW x \in NewerKept(id)
      PROVE  x \in NewerKept(id)'
  <2>1. x \in Listed /\ x \notin doomed /\ Precedes(x, id)
    BY DEF NewerKept, Before
  <2>2. x \in Id /\ dir[x] # NoDir
    BY <2>1, ListedFacts
  <2>3. x \in Listed'
    BY <2>1, <2>2, ListingGoesOn
  <2>4. dir'[x] # NoDir
    BY <2>3 DEF Listed, Sealed, HasManifest, Exists
  <2>5. dir'[x].ts = dir[x].ts /\ dir'[id].ts = dir[id].ts
    BY <2>2, <2>4, ListingGoesOn
  <2>6. Precedes(x, id)'
    BY <2>1, <2>5 DEF Precedes
  <2>7. QED
    BY <2>1, <2>3, <2>6 DEF NewerKept, Before
<1>2. QED
  BY <1>1 DEF NewerKept, Before

\* Directories come one at a time.
LEMMA FiniteDirsStep ==
  ASSUME SnapInv, FiniteDirs, MadeOK, [Next]_vars
  PROVE  FiniteDirs'
<1>1. PICK x : \A id \in Id : dir[id] = NoDir /\ dir'[id] # NoDir => id = x
  BY DirChanges
<1> DEFINE S == {id \in Id : dir[id] # NoDir}
<1>2. IsFiniteSet(S \union {x})
  BY FS_AddElement DEF FiniteDirs
<1>3. {id \in Id : dir'[id] # NoDir} \subseteq S \union {x}
  BY <1>1
<1>4. IsFiniteSet({id \in Id : dir'[id] # NoDir})
  BY <1>2, <1>3, FS_Subset
<1>5. QED
  BY <1>4 DEF FiniteDirs

\* An expendable snapshot that is still listed is still expendable.
LEMMA ExpendableStays ==
  ASSUME SnapInv, SnapInv', FiniteDirs, FiniteDirs', DoomedOK, MadeOK, [Next]_vars,
         NEW id \in Id, dir[id] # NoDir, dir'[id] # NoDir, Old(id),
         Cardinality(NewerKept(id)) >= KeepCount, doomed' \subseteq doomed
  PROVE  /\ Old(id)'
         /\ Cardinality(NewerKept(id)') >= KeepCount
         /\ Expendable(id)'
<1>1. \A x \in Id : DirChange(x)
  BY DirChanges
<1>2. dir'[id].ts = dir[id].ts /\ dir[id].ts \in Nat /\ KeepAge \in Nat /\ KeepCount \in Nat
  <2>1. dir[id] \in Dir
    BY DEF SnapInv, DirsOK
  <2>2. dir[id].ts \in 0..MaxTime
    BY <2>1 DEF Dir
  <2>3. dir'[id].ts = dir[id].ts
    BY <1>1, ListingGoesOn
  <2>4. QED
    BY <2>2, <2>3, SnapshotAssumption
<1>3. now' \in Nat /\ now' >= now /\ now \in Nat
  BY TimePasses DEF SnapInv, CountsOK
<1>4. Old(id)'
  BY <1>2, <1>3 DEF Old
<1>5. NewerKept(id) \in SUBSET Listed
  BY DEF NewerKept, Before
<1>6. /\ NewerKept(id) \in SUBSET NewerKept(id)'
      /\ NewerKept(id)' \in SUBSET Before(id)'
      /\ Before(id)' \in SUBSET Listed'
  BY <1>1, NewerStay DEF NewerKept, Before
<1>7. \A S : S \in SUBSET Listed' => IsFiniteSet(S)
  <2> SUFFICES ASSUME NEW S, S \in SUBSET Listed'
               PROVE  IsFiniteSet(S)
    OBVIOUS
  <2>1. S \subseteq {x \in Id : dir'[x] # NoDir}
    BY DEF Listed, Sealed, HasManifest, Exists
  <2>2. QED
    BY <2>1, FS_Subset DEF FiniteDirs
<1>8. IsFiniteSet(NewerKept(id)') /\ IsFiniteSet(Before(id)')
  BY <1>6, <1>7
<1>9. /\ Cardinality(NewerKept(id)) <= Cardinality(NewerKept(id)')
      /\ Cardinality(NewerKept(id)') <= Cardinality(Before(id)')
  BY <1>6, <1>8, FS_Subset
<1>10. /\ Cardinality(NewerKept(id)) \in Nat
       /\ Cardinality(NewerKept(id)') \in Nat
       /\ Cardinality(Before(id)') \in Nat
  BY <1>5, <1>8, ListedFinite, FS_CardinalityType
<1>11. Cardinality(NewerKept(id)') >= KeepCount /\ Cardinality(Before(id)') >= KeepCount
  BY <1>2, <1>9, <1>10
<1>12. QED
  BY <1>4, <1>11 DEF Expendable, Old

\* A pass dooms what is expendable, and spares as many of the newest as it keeps.
LEMMA DoomedStep ==
  ASSUME SnapInv, SnapInv', FiniteDirs, FiniteDirs', DoomedOK, MadeOK, [Next]_vars
  PROVE  DoomedOK'
<1>1. CASE Reap
  <2>1. /\ doomed' = {id \in Listed : Expendable(id)}
        /\ UNCHANGED <<file, dir, call, calls, pc, now>>
    BY <1>1 DEF Reap
  <2>2. ASSUME NEW id \in doomed'
        PROVE  Old(id)' /\ Cardinality(NewerKept(id)') >= KeepCount
    <3> DEFINE P == {x \in Before(id) : ~(Cardinality(Before(x)) >= KeepCount)}
    <3>1. id \in Listed /\ Expendable(id)
      BY <2>1
    <3>2. Cardinality(P) >= KeepCount
      BY <3>1, NewestSpared DEF Expendable
    <3>3. NewerKept(id)' = Before(id) \ doomed'
      BY <2>1 DEF NewerKept, Before, Precedes, Listed, Sealed, HasManifest, Exists
    <3>4. P \in SUBSET NewerKept(id)'
      BY <2>1, <3>3 DEF Expendable
    <3>5. NewerKept(id)' \in SUBSET Listed
      BY <3>3 DEF Before
    <3>6. Cardinality(P) <= Cardinality(NewerKept(id)')
      BY <3>4, <3>5, ListedSmaller
    <3>7. /\ Cardinality(P) \in Nat /\ Cardinality(NewerKept(id)') \in Nat /\ KeepCount \in Nat
      BY <3>4, <3>5, ListedFinite, ListedFacts
    <3>8. Old(id)'
      BY <2>1, <3>1 DEF Old, Expendable
    <3>9. QED
      BY <3>2, <3>6, <3>7, <3>8
  <2>3. QED
    BY <2>2 DEF DoomedOK
<1>2. CASE doomed' \subseteq doomed
  <2>1. ASSUME NEW id \in doomed'
        PROVE  Old(id)' /\ Cardinality(NewerKept(id)') >= KeepCount
    <3>1. id \in Id /\ dir[id] # NoDir /\ dir'[id] # NoDir
      BY <1>2 DEF SnapInv, DirsOK, Exists
    <3>2. Old(id) /\ Cardinality(NewerKept(id)) >= KeepCount
      BY <1>2 DEF DoomedOK
    <3>3. QED
      BY <1>2, <3>1, <3>2, ExpendableStays
  <2>2. QED
    BY <2>1 DEF DoomedOK
<1>3. QED
  BY <1>1, <1>2, OnlyReapDooms

\* Whatever the step, a snapshot listed afterwards can be restored, is expendable or
\* never reached the disk.
LEMMA RestorableStep ==
  ASSUME SnapInv, SnapInv', FiniteDirs, FiniteDirs', DoomedOK, MadeOK, ListedIsRestorable,
         [Next]_vars
  PROVE  ListedIsRestorable'
<1> DEFINE Spared(id) == Whole(id) \/ Expendable(id) \/ (PowerLoss /\ ~dir[id].durable)
<1> SUFFICES ASSUME NEW id \in Listed'
             PROVE  Spared(id)'
  BY DEF ListedIsRestorable
<1>1. id \in Id /\ dir'[id] # NoDir /\ dir'[id].manifest \notin {NoManifest, Torn}
  BY DEF Listed, Sealed, HasManifest, Exists
<1>2. DirChange(id)
  BY <1>1, DirChanges
<1>3. ASSUME Expendable(id), id \in Listed
      PROVE  Expendable(id)'
  <2>1. dir[id] # NoDir /\ Cardinality(NewerKept(id)) >= KeepCount
    BY <1>3, StillExpendable, ListedFacts
  <2>2. CASE Reap
    BY <1>3, <2>2 DEF Reap, Expendable, Before, Precedes, Listed, Sealed, HasManifest, Exists
  <2>3. CASE doomed' \subseteq doomed
    BY <1>1, <1>3, <2>1, <2>3, ExpendableStays DEF Expendable, Old
  <2>4. QED
    BY <2>2, <2>3, OnlyReapDooms
<1>4. ASSUME id \in Listed
      PROVE  Spared(id)
  BY <1>4 DEF ListedIsRestorable
<1>5. CASE Untouched(id)
  <2>1. id \in Listed
    BY <1>1, <1>5 DEF Untouched, Listed, Sealed, HasManifest, Exists
  <2>2. Whole(id) => Whole(id)'
    BY <1>5 DEF Untouched, Whole, RowHolds, Sealed, HasManifest, Exists
  <2>3. QED
    BY <1>3, <1>4, <1>5, <2>1, <2>2 DEF Untouched
<1>6. CASE Reaped(id)
  <2>1. Expendable(id) /\ Old(id) /\ Cardinality(NewerKept(id)) >= KeepCount /\ dir[id] # NoDir
    BY <1>6, DoomedExpendable DEF Reaped, DoomedOK, SnapInv, DirsOK, Exists
  <2>2. ~Reap
    BY <1>6 DEF Reaped, Reap
  <2>3. Expendable(id)'
    BY <1>1, <2>1, <2>2, ExpendableStays, OnlyReapDooms
  <2>4. QED
    BY <2>3
<1>7. CASE BeingMade(id)
  BY <1>1, <1>7 DEF BeingMade
<1>8. CASE Completed(id)
  BY <1>8 DEF Completed
<1>9. CASE Synced(id)
  <2>1. dir[id] \in Dir
    BY <1>1, <1>9 DEF Synced, Whole, Sealed, HasManifest, Exists, SnapInv, DirsOK
  <2>2. dir'[id].manifest = dir[id].manifest /\ dir'[id].payload = dir[id].payload
    BY <1>9, <2>1 DEF Synced, Dir
  <2>3. Whole(id)'
    BY <1>1, <1>9, <2>2 DEF Synced, Whole, RowHolds, Sealed, HasManifest, Exists
  <2>4. QED
    BY <2>3
<1>10. CASE PowerTorn(id)
  <2>1. dir[id] \in Dir
    BY <1>1, <1>10 DEF PowerTorn, SnapInv, DirsOK
  <2>2. PowerLoss /\ ~dir'[id].durable
    BY <1>10, <2>1 DEF PowerTorn, Dir
  <2>3. QED
    BY <2>2
<1>11. QED
  BY <1>2, <1>5, <1>6, <1>7, <1>8, <1>9, <1>10 DEF DirChange

\* What a step may do to a listed snapshot.
LEMMA KeptStep ==
  ASSUME SnapInv, SnapInv', FiniteDirs, DoomedOK, MadeOK, [Next]_vars, NEW id \in Listed
  PROVE  \/ Exists(id)' /\ [dir'[id] EXCEPT !.durable = dir[id].durable] = dir[id]
         \/ Expendable(id)
         \/ PowerLoss /\ ~dir[id].durable
<1>1. id \in Id /\ dir[id] # NoDir /\ dir[id] \in Dir /\ dir[id].manifest \notin {NoManifest, Torn}
  BY ListedFacts DEF Listed, Sealed, HasManifest
<1>2. DirChange(id)
  BY <1>1, DirChanges
<1>3. CASE Untouched(id)
  BY <1>1, <1>3 DEF Untouched, Exists, Dir
<1>4. CASE Reaped(id)
  BY <1>4, DoomedExpendable DEF Reaped
<1>5. CASE BeingMade(id) \/ Completed(id)
  BY <1>1, <1>5 DEF BeingMade, Completed
<1>6. CASE Synced(id)
  <2>1. dir'[id] = [dir[id] EXCEPT !.durable = TRUE]
    BY <1>6 DEF Synced
  <2>2. dir'[id] \in Dir
    BY <1>1, <2>1 DEF Dir
  <2>3. dir'[id] # NoDir
    BY <2>2, SnapshotAssumption
  <2>4. [dir'[id] EXCEPT !.durable = dir[id].durable] = dir[id]
    BY <1>1, <2>1 DEF Dir
  <2>5. QED
    BY <2>3, <2>4 DEF Exists
<1>7. CASE PowerTorn(id)
  BY <1>7 DEF PowerTorn
<1>8. QED
  BY <1>2, <1>3, <1>4, <1>5, <1>6, <1>7 DEF DirChange

-----------------------------------------------------------------------------
(* The calls                                                               *)

\* The steps a call takes itself and goes on after.
Acts(c) ==
  \/ StartWrite(c) \/ StartCreate(c) \/ StartRestore(c)
  \/ OpenTarget(c) \/ LockTarget(c) \/ VerifyEtag(c)
  \/ MakeDir(c) \/ CreatePayload(c) \/ FillPayload(c) \/ CreateManifest(c) \/ FillManifest(c)
  \/ CheckPayloads(c) \/ ReplaceTarget(c)

Stays(c) == pc'[c] = pc[c] /\ call'[c] = call[c]

\* A call stays where it is, takes a step of its own, or is over.
LEMMA OwnStep ==
  ASSUME SnapInv, [Next]_vars, NEW c \in Caller
  PROVE  Stays(c) \/ Acts(c) \/ pc'[c] \notin Steps
<1>1. pc \in [Caller -> Resting \union Steps] /\ call \in [Caller -> Call \union {NoCall}]
  BY DEF SnapInv, CallsOK
<1>2. ASSUME NEW e \in Caller, e # c, Acts(e)
      PROVE  Stays(c)
  <2>1. CASE StartWrite(e) \/ StartCreate(e) \/ StartRestore(e)
    BY <1>1, <1>2, <2>1 DEF StartWrite, StartCreate, StartRestore, Start, Stays
  <2>2. CASE OpenTarget(e) \/ LockTarget(e) \/ VerifyEtag(e) \/ CheckPayloads(e)
    BY <1>1, <1>2, <2>2 DEF OpenTarget, LockTarget, VerifyEtag, CheckPayloads, Goto, Stays
  <2>3. CASE MakeDir(e) \/ CreatePayload(e) \/ FillPayload(e) \/ CreateManifest(e)
    BY <1>1, <1>2, <2>3 DEF MakeDir, CreatePayload, FillPayload, CreateManifest, Goto, Stays
  <2>4. CASE FillManifest(e) \/ ReplaceTarget(e)
    BY <1>1, <1>2, <2>4 DEF FillManifest, ReplaceTarget, Goto, Return, Stays
  <2>5. QED
    BY <1>2, <2>1, <2>2, <2>3, <2>4 DEF Acts
<1>3. ASSUME NEW e \in Caller, NEW reply \in Resting, Return(e, reply)
      PROVE  Stays(c) \/ pc'[c] \notin Steps
  BY <1>1, <1>3, StepNames DEF Return, Stays
<1>4. ASSUME NEW e \in Caller,
             RefuseRestore(e) \/ LockBusy(e) \/ StaleEtag(e) \/ DirExists(e) \/ BadPayload(e)
             \/ StepFails(e)
      PROVE  \E reply \in Resting : Return(e, reply)
  BY <1>4 DEF RefuseRestore, LockBusy, StaleEtag, DirExists, BadPayload, StepFails, Resting,
     Refusals
<1>5. ASSUME Reap \/ ReapEntry \/ ReapFails \/ Tick \/ Writeback \/ UNCHANGED vars
      PROVE  Stays(c)
  BY <1>5 DEF Reap, ReapEntry, ReapFails, Tick, Writeback, vars, Stays
<1>6. ASSUME Crash \/ PowerCut
      PROVE  pc'[c] \notin Steps
  <2>1. pc'[c] = IF pc[c] \in Steps THEN "idle" ELSE pc[c]
    BY <1>6 DEF Crash, PowerCut, Vanish
  <2>2. "idle" \notin Steps
    BY DEF Steps
  <2>3. QED
    BY <2>1, <2>2
<1>7. CASE \E e \in Caller : Acts(e)
  BY <1>2, <1>7
<1>8. CASE \E e \in Caller :
             RefuseRestore(e) \/ LockBusy(e) \/ StaleEtag(e) \/ DirExists(e) \/ BadPayload(e)
             \/ StepFails(e)
  BY <1>3, <1>4, <1>8
<1>9. QED
  BY <1>5, <1>6, <1>7, <1>8 DEF Next, Acts

\* Only the replacement of a target writes a target.
LEMMA OnlyReplaceWrites ==
  ASSUME [Next]_vars
  PROVE  (\E c \in Caller : ReplaceTarget(c)) \/ file' = file
  BY ZenonT(60) DEF Next, vars, StartWrite, StartCreate, StartRestore, Start, RefuseRestore, OpenTarget,
     LockTarget, LockBusy, VerifyEtag, StaleEtag, DirExists, CheckPayloads, BadPayload,
     StepFails, MakeDir, CreatePayload, FillPayload, CreateManifest, FillManifest,
     Reap, ReapEntry, ReapFails, Tick, Writeback, Crash, PowerCut, Vanish

\* A target's name only gains inodes, and an inode keeps its bytes.
LEMMA FilesGrow ==
  ASSUME SnapInv, [Next]_vars, NEW t \in Target
  PROVE  /\ Len(file[t]) \in Nat /\ Len(file'[t]) \in Nat
         /\ Len(file[t]) <= Len(file'[t])
         /\ \A n \in 1..Len(file[t]) : file'[t][n] = file[t][n]
<1>1. file[t] \in Seq(Content) /\ Len(file[t]) \in Nat /\ file \in [Target -> Seq(Content)]
  BY SnapshotAssumption DEF SnapInv, FilesOK
<1>2. CASE \E c \in Caller : ReplaceTarget(c)
  <2>1. PICK c \in Caller : ReplaceTarget(c)
    BY <1>2
  <2> DEFINE i == call[c].done + 1
  <2>2. pc[c] \in Steps
    BY <2>1 DEF ReplaceTarget, Steps
  <2>3. i \in DOMAIN call[c].files /\ i \in DOMAIN call[c].bytes
        /\ call[c].files \in Seq(Target) /\ call[c].bytes \in Seq(Content)
    BY <2>2, CallFacts
  <2>4. PICK u \in Target, new \in Content : file' = [file EXCEPT ![u] = Append(file[u], new)]
    BY <2>1, <2>3, SeqFacts DEF ReplaceTarget
  <2>5. CASE t = u
    <3>1. file'[t] = Append(file[t], new)
      BY <1>1, <2>4, <2>5
    <3>2. QED
      BY <1>1, <3>1, AppendProperties
  <2>6. CASE t # u
    BY <1>1, <2>4, <2>6
  <2>7. QED
    BY <2>5, <2>6
<1>3. CASE file' = file
  BY <1>1, <1>3
<1>4. QED
  BY <1>2, <1>3, OnlyReplaceWrites

\* Steps of a call that leave its record alone, from one step to another.
LEMMA SameRecord ==
  ASSUME SnapInv, NEW c \in Caller,
         \/ VerifyEtag(c) \/ MakeDir(c) \/ CreatePayload(c) \/ CreateManifest(c)
         \/ CheckPayloads(c)
  PROVE  /\ call'[c] = call[c]
         /\ pc[c] \in Steps /\ pc'[c] \in Steps
         /\ <<pc[c], pc'[c]>> \in {<<"verifying", "naming">>, <<"verifying", "checking">>,
              <<"naming", "payload">>, <<"payload", "filling">>, <<"manifest", "sealing">>,
              <<"checking", "replacing">>}
         /\ pc[c] = "verifying" =>
              pc'[c] = (IF call[c].kind = "write" THEN "naming" ELSE "checking")
         /\ VerifyEtag(c) <=> pc[c] = "verifying"
<1>1. pc \in [Caller -> Resting \union Steps]
  BY DEF SnapInv, CallsOK
<1>2. QED
  BY <1>1 DEF VerifyEtag, MakeDir, CreatePayload, CreateManifest, CheckPayloads, Goto, Steps

\* The record of a call that starts.
LEMMA StartRecord ==
  ASSUME SnapInv, NEW c \in Caller, NEW kind, NEW id, NEW files, NEW etag, NEW bytes,
         NEW step, Start(c, kind, id, files, etag, bytes, step)
  PROVE  /\ pc'[c] = step
         /\ call'[c].kind = kind /\ call'[c].id = id /\ call'[c].files = files
         /\ call'[c].etag = etag /\ call'[c].bytes = bytes /\ call'[c].done = 0
         /\ DOMAIN call'[c].locks = {}
         /\ call'[c].since = Len(file[files[1]]) /\ file' = file
  BY DEF Start, SnapInv, CallsOK

\* Each kind of call goes its own way.
LEMMA KindsStep ==
  ASSUME SnapInv, KindsOK, [Next]_vars
  PROVE  KindsOK'
<1> SUFFICES ASSUME NEW c \in Caller, pc'[c] \in Steps
             PROVE  KindOK(call'[c], pc'[c])
  BY DEF KindsOK
<1>1. CASE Stays(c)
  BY <1>1 DEF Stays, KindsOK
<1>2. CASE StartWrite(c)
  <2>1. PICK t \in Managed, id \in Id, etag \in Content, new \in Content :
          Start(c, "write", id, <<t>>, etag, <<new>>, "opening")
    BY <1>2 DEF StartWrite
  <2>2. /\ pc'[c] = "opening" /\ call'[c].kind = "write" /\ call'[c].done = 0
        /\ call'[c].files = <<t>>
    BY <2>1, StartRecord
  <2>3. QED
    BY <2>2 DEF KindOK
<1>3. CASE StartCreate(c)
  <2>1. PICK files \in Capture, id \in Id :
          Start(c, "create", id, files, Live(files[1]),
                [i \in DOMAIN files |-> Live(files[i])], "naming")
    BY <1>3 DEF StartCreate
  <2>2. /\ pc'[c] = "naming" /\ call'[c].kind = "create"
        /\ call'[c].files = files /\ call'[c].bytes = [i \in DOMAIN files |-> Live(files[i])]
    BY <2>1, StartRecord
  <2>3. QED
    BY <2>2 DEF KindOK
<1>4. CASE StartRestore(c)
  <2>1. PICK id, files, etag, bytes : Start(c, "restore", id, files, etag, bytes, "opening")
    BY <1>4 DEF StartRestore
  <2>2. pc'[c] = "opening" /\ call'[c].kind = "restore"
    BY <2>1, StartRecord
  <2>3. QED
    BY <2>2 DEF KindOK, Making
<1>5. CASE OpenTarget(c) \/ LockTarget(c)
  <2>1. pc[c] \in {"opening", "locking"} /\ pc[c] \in Steps /\ pc[c] \notin {"naming"} \union Making
    BY <1>5 DEF OpenTarget, LockTarget, Goto, Steps, Making
  <2>2. call[c] \in Call /\ KindOK(call[c], pc[c])
    BY <2>1, CallFacts DEF KindsOK
  <2>3. call[c].kind # "create"
    BY <2>1, <2>2 DEF KindOK
  <2>4. /\ call'[c].kind = call[c].kind /\ call'[c].files = call[c].files
        /\ call'[c].done = call[c].done
    BY <1>5, <2>2 DEF OpenTarget, LockTarget, Goto, Call, SnapInv, CallsOK
  <2>5. pc'[c] \in {"opening", "locking", "verifying"}
    BY <1>5 DEF OpenTarget, LockTarget, Goto, SnapInv, CallsOK
  <2>6. ASSUME pc'[c] = "verifying"
        PROVE  Left(call'[c]) = {}
    <3>1. LockTarget(c) /\ Unlocked(c) = {NextTarget(c)}
      BY <1>5, <2>6 DEF OpenTarget, LockTarget, Goto, SnapInv, CallsOK
    <3>2. DOMAIN call'[c].locks = DOMAIN call[c].locks \union {NextTarget(c)}
      BY <2>2, <3>1 DEF LockTarget, Call, SnapInv, CallsOK
    <3>3. QED
      BY <2>4, <3>1, <3>2 DEF Left, Unlocked
  <2>7. QED
    BY <2>2, <2>3, <2>4, <2>5, <2>6 DEF KindOK, Making
<1>6. CASE VerifyEtag(c) \/ MakeDir(c) \/ CreatePayload(c) \/ CreateManifest(c) \/ CheckPayloads(c)
  <2>1. /\ call'[c] = call[c] /\ pc[c] \in Steps
        /\ <<pc[c], pc'[c]>> \in {<<"verifying", "naming">>, <<"verifying", "checking">>,
             <<"naming", "payload">>, <<"payload", "filling">>, <<"manifest", "sealing">>,
             <<"checking", "replacing">>}
        /\ pc[c] = "verifying" =>
             pc'[c] = (IF call[c].kind = "write" THEN "naming" ELSE "checking")
    BY <1>6, SameRecord
  <2>2. KindOK(call[c], pc[c])
    BY <2>1 DEF KindsOK
  <2>3. call[c].kind \in {"write", "create", "restore"}
    BY <2>1, CallFacts DEF Call
  <2>4. QED
    BY <2>1, <2>2, <2>3 DEF KindOK, Making
<1>7. CASE FillPayload(c)
  <2>1. pc[c] = "filling" /\ pc[c] \in Steps
    BY <1>7 DEF FillPayload, Goto, Steps
  <2>2. call[c] \in Call /\ KindOK(call[c], "filling") /\ Len(call[c].files) \in Nat
    BY <2>1, CallFacts, SeqFacts DEF KindsOK
  <2>3. /\ call'[c].kind = call[c].kind /\ call'[c].files = call[c].files
        /\ call'[c].bytes = call[c].bytes /\ call'[c].locks = call[c].locks
        /\ call'[c].done = IF call[c].done + 1 = Len(call[c].files) THEN 0 ELSE call[c].done + 1
        /\ pc'[c] = IF call[c].done + 1 = Len(call[c].files) THEN "manifest" ELSE "payload"
    BY <1>7, <2>2 DEF FillPayload, Goto, Call, SnapInv, CallsOK
  <2>4. call'[c].kind = "write" => call'[c].done = 0
    <3>1. call[c].kind = "write" => Len(call[c].files) = 1 /\ call[c].done = 0
      BY <2>2 DEF KindOK
    <3>2. call[c].kind = "write" => call[c].done + 1 = Len(call[c].files)
      <4>1. \A m, n : m = 0 /\ n = 1 => m + 1 = n
        OBVIOUS
      <4>2. QED
        BY <3>1, <4>1
    <3>3. QED
      BY <2>3, <3>2
  <2>5. Left(call'[c]) = Left(call[c])
    BY <2>3 DEF Left
  <2>6. pc'[c] \in Making
    BY <2>3 DEF Making
  <2>7. QED
    BY <2>2, <2>3, <2>4, <2>5, <2>6 DEF KindOK, Making
<1>8. CASE FillManifest(c)
  <2>1. pc[c] = "sealing" /\ pc[c] \in Steps
    BY <1>8 DEF FillManifest, Goto, Steps
  <2>2. KindOK(call[c], "sealing")
    BY <2>1 DEF KindsOK
  <2>3. call[c].kind = "write"
    BY <1>8 DEF FillManifest, Return, Steps, SnapInv, CallsOK
  <2>4. pc'[c] = "replacing" /\ call'[c] = call[c]
    BY <1>8, <2>3 DEF FillManifest, Goto, SnapInv, CallsOK
  <2>5. QED
    BY <2>2, <2>3, <2>4 DEF KindOK, Making
<1>9. CASE ReplaceTarget(c)
  <2>1. pc[c] = "replacing" /\ pc[c] \in Steps
    BY <1>9 DEF ReplaceTarget, Steps
  <2>2. call[c] \in Call /\ KindOK(call[c], "replacing")
    BY <2>1, CallFacts DEF KindsOK
  <2>3. call[c].done + 1 # Len(call[c].files)
    <3>1. ASSUME NEW reply \in {"ok", "SnapshotFailed"}, Return(c, reply)
          PROVE  FALSE
      BY <3>1 DEF Return, Steps, SnapInv, CallsOK
    <3>2. QED
      BY <1>9, <3>1 DEF ReplaceTarget
  <2>4. call[c].kind # "write"
    <3>1. call[c].kind = "write" => Len(call[c].files) = 1 /\ call[c].done = 0
      BY <2>2 DEF KindOK
    <3>2. call[c].kind = "write" => call[c].done + 1 = Len(call[c].files)
      <4>1. \A m, n : m = 0 /\ n = 1 => m + 1 = n
        OBVIOUS
      <4>2. QED
        BY <3>1, <4>1
    <3>3. QED
      BY <2>3, <3>2
  <2>5. /\ pc'[c] = "replacing"
        /\ call'[c].kind = call[c].kind /\ call'[c].files = call[c].files
        /\ call'[c].locks = call[c].locks
    BY <1>9, <2>1, <2>2, <2>3 DEF ReplaceTarget, Call, SnapInv, CallsOK
  <2>6. Left(call'[c]) = Left(call[c])
    BY <2>5 DEF Left
  <2>7. QED
    BY <2>2, <2>4, <2>5, <2>6 DEF KindOK, Making
<1>10. QED
  BY <1>1, <1>2, <1>3, <1>4, <1>5, <1>6, <1>7, <1>8, <1>9, OwnStep DEF Acts

\* The steps that leave a call's files and locks alone.
LEMMA SameLocks ==
  ASSUME SnapInv, NEW c \in Caller, pc'[c] \in Steps,
         \/ FillPayload(c) \/ FillManifest(c) \/ ReplaceTarget(c)
         \/ VerifyEtag(c) \/ MakeDir(c) \/ CreatePayload(c) \/ CreateManifest(c)
         \/ CheckPayloads(c)
  PROVE  /\ pc[c] \in Steps /\ pc'[c] \notin {"opening", "locking"}
         /\ call'[c].files = call[c].files /\ call'[c].locks = call[c].locks
         /\ call'[c].kind = call[c].kind /\ call'[c].etag = call[c].etag
         /\ call'[c].id = call[c].id /\ call'[c].bytes = call[c].bytes
         /\ call'[c].since = call[c].since
<1>1. CASE VerifyEtag(c) \/ MakeDir(c) \/ CreatePayload(c) \/ CreateManifest(c) \/ CheckPayloads(c)
  <2>1. /\ call'[c] = call[c] /\ pc[c] \in Steps
        /\ pc'[c] \notin {"opening", "locking"}
    BY <1>1, SameRecord
  <2>2. QED
    BY <2>1
<1>2. CASE FillPayload(c) \/ FillManifest(c) \/ ReplaceTarget(c)
  <2>1. pc[c] \in Steps
    BY <1>2 DEF FillPayload, FillManifest, ReplaceTarget, Goto, Steps
  <2>2. call[c] \in Call
    BY <2>1, CallFacts
  <2>3. \A reply \in {"ok", "SnapshotFailed"} : ~Return(c, reply)
    BY DEF Return, Steps, SnapInv, CallsOK
  <2>4. CASE FillPayload(c)
    BY <2>1, <2>2, <2>4 DEF FillPayload, Goto, Call, SnapInv, CallsOK
  <2>5. CASE FillManifest(c)
    BY <2>1, <2>3, <2>5 DEF FillManifest, Goto, SnapInv, CallsOK
  <2>6. CASE ReplaceTarget(c)
    <3>1. pc[c] = "replacing" /\ pc' = pc
      BY <2>3, <2>6 DEF ReplaceTarget
    <3>2. \E i : call' = [call EXCEPT ![c].done = i]
      BY <2>3, <2>6 DEF ReplaceTarget
    <3>3. QED
      BY <2>1, <2>2, <3>1, <3>2 DEF Call, SnapInv, CallsOK
  <2>7. QED
    BY <1>2, <2>4, <2>5, <2>6
<1>3. QED
  BY <1>1, <1>2

\* Files only gain inodes, and a descriptor is opened by name.
LEMMA LocksStep ==
  ASSUME SnapInv, SnapInv', LocksOK, [Next]_vars
  PROVE  LocksOK'
<1> SUFFICES ASSUME NEW c \in Caller, pc'[c] \in Steps
             PROVE  /\ call'[c].since \in 1..Len(file'[call'[c].files[1]])
                    /\ \A t \in DOMAIN call'[c].locks : call'[c].locks[t] \in Recent(call[c], t)'
                    /\ pc'[c] = "locking" => call'[c].fd \in Recent(call[c], NextTarget(c))'
  BY DEF LocksOK
<1>1. \A t \in Target : Len(file[t]) \in Nat /\ Len(file'[t]) \in Nat /\ Len(file[t]) <= Len(file'[t])
  BY FilesGrow
<1>2. ASSUME pc[c] \in Steps, call'[c].files = call[c].files, call'[c].since = call[c].since
      PROVE  /\ call'[c].since \in 1..Len(file'[call'[c].files[1]])
             /\ \A t \in Target : Recent(call[c], t) \subseteq Recent(call[c], t)'
             /\ \A t \in DOMAIN call[c].locks : call[c].locks[t] \in Recent(call[c], t)'
  <2>1. DOMAIN call[c].locks \subseteq Target /\ call[c].files[1] \in Target
    BY <1>2, CallFacts, SeqFacts DEF Call, Partial
  <2>2. /\ call[c].since \in 1..Len(file[call[c].files[1]])
        /\ \A t \in DOMAIN call[c].locks : call[c].locks[t] \in Recent(call[c], t)
    BY <1>2 DEF LocksOK
  <2>3. \A t \in Target : Recent(call[c], t) \subseteq Recent(call[c], t)'
    BY <1>1, <1>2, <2>1, <2>2 DEF Recent
  <2>4. call'[c].since \in 1..Len(file'[call'[c].files[1]])
    BY <1>1, <1>2, <2>1, <2>2
  <2>5. QED
    BY <2>1, <2>2, <2>3, <2>4
<1>3. CASE Stays(c)
  <2>1. pc[c] \in Steps /\ call'[c] = call[c] /\ pc'[c] = pc[c]
    BY <1>3 DEF Stays
  <2>2. NextTarget(c)' = NextTarget(c)
    BY <2>1 DEF NextTarget, Unlocked
  <2>3. ASSUME pc[c] = "locking"
        PROVE  call[c].fd \in Recent(call[c], NextTarget(c))'
    <3>1. NextTarget(c) \in Target
      BY <2>1, <2>3, CallFacts, NextIsLeast DEF CallOK
    <3>2. call[c].fd \in Recent(call[c], NextTarget(c))
      BY <2>1, <2>3 DEF LocksOK
    <3>3. PICK t \in Target : t = NextTarget(c)
      BY <3>1
    <3>4. call[c].fd \in Recent(call[c], t)'
      BY <1>2, <2>1, <3>2, <3>3
    <3>5. QED
      BY <2>2, <3>3, <3>4 DEF Recent
  <2>4. QED
    BY <1>2, <2>1, <2>3
<1>4. CASE StartWrite(c) \/ StartCreate(c) \/ StartRestore(c)
  <2>1. \E kind, id, files, etag, bytes, step :
          Start(c, kind, id, files, etag, bytes, step) /\ step \in {"opening", "naming"}
    BY <1>4 DEF StartWrite, StartCreate, StartRestore
  <2>2. /\ pc'[c] \in {"opening", "naming"} /\ DOMAIN call'[c].locks = {}
        /\ call'[c].since = Len(file[call'[c].files[1]]) /\ file' = file
    BY <2>1, StartRecord
  <2>3. call'[c].files[1] \in Target
    <3>1. CallOK(call'[c], pc'[c])
      BY DEF SnapInv, CallsOK
    <3>2. call'[c].files \in Seq(Target) /\ call'[c].done + 1 \in DOMAIN call'[c].files /\ call'[c].done \in Nat
      BY <3>1 DEF CallOK, Call
    <3>3. QED
      BY <3>2, SeqFacts
  <2>4. Len(file[call'[c].files[1]]) \in 1..Len(file[call'[c].files[1]])
    BY <1>1, <2>3 DEF SnapInv, FilesOK
  <2>5. QED
    BY <2>2, <2>4
<1>5. CASE OpenTarget(c)
  <2>1. pc[c] = "opening" /\ pc[c] \in Steps
    BY <1>5 DEF OpenTarget, Goto, Steps
  <2>2. call[c] \in Call /\ NextTarget(c) \in Target
    BY <2>1, CallFacts, NextIsLeast DEF CallOK
  <2>3. /\ call'[c].files = call[c].files /\ call'[c].locks = call[c].locks
        /\ call'[c].since = call[c].since
        /\ call'[c].fd = Len(file[NextTarget(c)]) /\ file' = file
    BY <1>5, <2>2 DEF OpenTarget, Call, SnapInv, CallsOK
  <2>4. NextTarget(c)' = NextTarget(c)
    BY <2>3 DEF NextTarget, Unlocked
  <2>5. call[c].since \in 1..Len(file[call[c].files[1]])
    BY <2>1 DEF LocksOK
  <2>6. Len(file[NextTarget(c)]) \in Recent(call[c], NextTarget(c))
    BY <1>1, <2>2, <2>5 DEF Recent, SnapInv, FilesOK
  <2>7. call'[c].fd \in Recent(call[c], NextTarget(c))'
    BY <2>3, <2>4, <2>6 DEF Recent
  <2>8. QED
    BY <1>2, <2>1, <2>3, <2>7
<1>6. CASE LockTarget(c)
  <2>1. pc[c] = "locking" /\ pc[c] \in Steps
    BY <1>6 DEF LockTarget, Steps
  <2>2. call[c] \in Call /\ NextTarget(c) \in Target
    BY <2>1, CallFacts, NextIsLeast DEF CallOK
  <2>3. call[c].fd \in Recent(call[c], NextTarget(c))
    BY <2>1 DEF LocksOK
  <2>4. /\ call'[c].locks = [u \in DOMAIN call[c].locks \union {NextTarget(c)} |->
                               IF u = NextTarget(c) THEN call[c].fd ELSE call[c].locks[u]]
        /\ call'[c].files = call[c].files /\ call'[c].since = call[c].since
        /\ pc'[c] \in {"opening", "verifying"} /\ file' = file
    BY <1>6, <2>2 DEF LockTarget, Call, SnapInv, CallsOK
  <2>5. \A t \in DOMAIN call'[c].locks : call'[c].locks[t] \in Recent(call[c], t)'
    BY <1>2, <2>1, <2>3, <2>4 DEF Recent
  <2>6. QED
    BY <1>2, <2>1, <2>4, <2>5
<1>7. CASE \/ FillPayload(c) \/ FillManifest(c) \/ ReplaceTarget(c)
           \/ VerifyEtag(c) \/ MakeDir(c) \/ CreatePayload(c) \/ CreateManifest(c)
           \/ CheckPayloads(c)
  BY <1>2, <1>7, SameLocks
<1>8. QED
  BY <1>3, <1>4, <1>5, <1>6, <1>7, OwnStep DEF Acts

\* A call that has its locks holds one of its first file.
LEMMA PrimaryLocked ==
  ASSUME SnapInv, KindsOK, LocksOK, NEW c \in Caller, pc[c] \in Steps,
         call[c].kind # "create", pc[c] \notin {"opening", "locking"}
  PROVE  /\ call[c].files[1] \in Target
         /\ call[c].files[1] \in DOMAIN call[c].locks
         /\ call[c].locks[call[c].files[1]] \in 1..Len(file[call[c].files[1]])
         /\ call[c].locks[call[c].files[1]] \in call[c].since..Len(file[call[c].files[1]])
<1>1. Left(call[c]) = {}
  BY DEF KindsOK, KindOK
<1>2. 1 \in DOMAIN call[c].files /\ Range1(call[c].files) \subseteq Target
  BY CallFacts
<1>3. call[c].files[1] \in Range1(call[c].files)
  BY <1>2 DEF Range1
<1>4. call[c].files[1] \in DOMAIN call[c].locks
  BY <1>1, <1>3 DEF Left
<1>5. /\ call[c].since \in 1..Len(file[call[c].files[1]])
      /\ call[c].locks[call[c].files[1]] \in Recent(call[c], call[c].files[1])
  BY <1>4 DEF LocksOK
<1>6. Len(file[call[c].files[1]]) \in Nat
  BY <1>2, <1>3 DEF SnapInv, FilesOK
<1>7. QED
  BY <1>2, <1>3, <1>4, <1>5, <1>6 DEF Recent

\* An inode that a call has read keeps its bytes.
LEMMA ReadStep ==
  ASSUME SnapInv, KindsOK, LocksOK, ReadOK, [Next]_vars
  PROVE  ReadOK'
<1> DEFINE Past == {"naming", "checking", "replacing"} \union Making
<1> SUFFICES ASSUME NEW c \in Caller, pc'[c] \in Past, call'[c].kind # "create"
             PROVE  Primary(c)' = call'[c].etag
  BY DEF ReadOK
<1>1. pc'[c] \in Steps /\ pc'[c] \notin {"opening", "locking", "verifying"}
  BY DEF Steps, Making
<1>2. ASSUME pc[c] \in Steps, pc[c] \notin {"opening", "locking"}, Primary(c) = call[c].etag,
             call[c].kind # "create", call'[c].files = call[c].files,
             call'[c].locks = call[c].locks, call'[c].etag = call[c].etag
      PROVE  Primary(c)' = call'[c].etag
  <2>1. /\ call[c].files[1] \in Target
        /\ call[c].locks[call[c].files[1]] \in 1..Len(file[call[c].files[1]])
    BY <1>2, PrimaryLocked
  <2>2. file'[call[c].files[1]][call[c].locks[call[c].files[1]]] = Primary(c)
    BY <2>1, FilesGrow DEF Primary
  <2>3. QED
    BY <1>2, <2>2 DEF Primary
<1>3. CASE Stays(c)
  <2>1. pc[c] \in Past /\ call'[c] = call[c]
    BY <1>3 DEF Stays
  <2>2. Primary(c) = call[c].etag
    BY <2>1 DEF ReadOK
  <2>3. QED
    BY <1>1, <1>2, <1>3, <2>1, <2>2 DEF Stays
<1>4. CASE StartWrite(c) \/ StartCreate(c) \/ StartRestore(c)
  <2>1. ~StartWrite(c) /\ ~StartRestore(c)
    <3>1. ASSUME NEW kind, NEW id, NEW files, NEW etag, NEW bytes,
                 Start(c, kind, id, files, etag, bytes, "opening")
          PROVE  FALSE
      BY <1>1, <3>1, StartRecord
    <3>2. QED
      BY <3>1 DEF StartWrite, StartRestore
  <2>2. \E id, files, etag, bytes : Start(c, "create", id, files, etag, bytes, "naming")
    BY <1>4, <2>1 DEF StartCreate
  <2>3. call'[c].kind = "create"
    BY <2>2, StartRecord
  <2>4. QED
    BY <2>3
<1>5. CASE OpenTarget(c) \/ LockTarget(c)
  BY <1>1, <1>5 DEF OpenTarget, LockTarget, Goto, SnapInv, CallsOK
<1>6. CASE \/ FillPayload(c) \/ FillManifest(c) \/ ReplaceTarget(c)
           \/ VerifyEtag(c) \/ MakeDir(c) \/ CreatePayload(c) \/ CreateManifest(c)
           \/ CheckPayloads(c)
  <2>1. /\ pc[c] \in Steps
        /\ call'[c].files = call[c].files /\ call'[c].locks = call[c].locks
        /\ call'[c].kind = call[c].kind /\ call'[c].etag = call[c].etag
    BY <1>1, <1>6, SameLocks
  <2>2. pc[c] \in Past \/ VerifyEtag(c)
    BY <1>6 DEF FillPayload, FillManifest, ReplaceTarget, MakeDir, CreatePayload, CreateManifest,
       CheckPayloads, Goto, Making
  <2>3. Primary(c) = call[c].etag
    BY <2>1, <2>2 DEF ReadOK, VerifyEtag
  <2>4. pc[c] \notin {"opening", "locking"}
    BY <2>2 DEF VerifyEtag, Goto, Making
  <2>5. QED
    BY <1>2, <2>1, <2>3, <2>4
<1>7. QED
  BY <1>1, <1>3, <1>4, <1>5, <1>6, OwnStep DEF Acts

-----------------------------------------------------------------------------
(* The making of a snapshot                                                *)

\* Nobody else writes the directory of a call that is making it.
LEMMA OthersLeaveIt ==
  ASSUME SnapInv, MadeOK, [Next]_vars, NEW c \in Caller, pc[c] \in Making, Stays(c)
  PROVE  dir'[call[c].id] = dir[call[c].id]
<1>1. PICK id \in Id : id = call[c].id
  BY MakingFacts
<1>2. /\ dir[id] # NoDir /\ dir[id].manifest \in {NoManifest, Torn} /\ id \notin doomed
      /\ \A d \in Caller : pc[d] \in Making /\ call[d].id = id => d = c
  BY <1>1 DEF SnapInv, OwnDir
<1>3. SUFFICES Untouched(id)
  BY <1>1 DEF Untouched
<1>4. pc'[c] = pc[c] /\ pc[c] \in Steps /\ pc \in [Caller -> Resting \union Steps]
  BY StepNames DEF Stays, SnapInv, CallsOK
<1>5. ASSUME NEW e \in Caller,
             \/ MakeDir(e) \/ CreatePayload(e) \/ FillPayload(e) \/ CreateManifest(e)
             \/ FillManifest(e)
      PROVE  Untouched(id)
  <2>1. e # c
    <3>1. CASE MakeDir(e) \/ CreatePayload(e) \/ CreateManifest(e)
      BY <1>4, <3>1 DEF MakeDir, CreatePayload, CreateManifest, Goto
    <3>2. CASE FillPayload(e) \/ FillManifest(e)
      BY <1>4, <3>2 DEF FillPayload, FillManifest, Goto, Return, Steps
    <3>3. QED
      BY <1>5, <3>1, <3>2
  <2>2. CASE MakeDir(e)
    <3>1. dir[call[e].id] = NoDir
      BY <2>2 DEF MakeDir, Exists
    <3>2. QED
      BY <1>2, <2>2, <3>1, MakingChanges
  <2>3. CASE CreatePayload(e) \/ FillPayload(e) \/ CreateManifest(e) \/ FillManifest(e)
    <3>1. pc[e] \in Making
      BY <2>3 DEF CreatePayload, FillPayload, CreateManifest, FillManifest, Goto, Making
    <3>2. call[e].id # id
      BY <1>2, <2>1, <3>1
    <3>3. QED
      BY <2>3, <3>2, MakingChanges, FillManifestChange
  <2>4. QED
    BY <1>5, <2>2, <2>3
<1>6. ASSUME ReapEntry \/ Writeback
      PROVE  Untouched(id)
  <2>1. ~Whole(id) /\ ~Reaped(id)
    BY <1>2 DEF Whole, Sealed, HasManifest, Reaped
  <2>2. CASE ReapEntry
    BY <2>1, <2>2, ReapEntryChange
  <2>3. CASE Writeback
    <3>1. ~PowerTorn(id)
      <4>1. ~Vanish
        BY <1>4, <2>3, CallFacts DEF Writeback, Vanish
      <4>2. QED
        BY <4>1 DEF PowerTorn
    <3>2. QED
      BY <2>1, <2>3, <3>1, MachineChange DEF Synced
  <2>4. QED
    BY <1>6, <2>2, <2>3
<1>7. ~PowerCut
  <2>1. "idle" \notin Steps
    BY DEF Steps
  <2>2. QED
    BY <1>4, <2>1 DEF PowerCut, Vanish
<1>8. ASSUME NEW e \in Caller,
             \/ StartWrite(e) \/ StartCreate(e) \/ StartRestore(e) \/ RefuseRestore(e)
             \/ OpenTarget(e) \/ LockTarget(e) \/ LockBusy(e) \/ VerifyEtag(e) \/ StaleEtag(e)
             \/ DirExists(e) \/ CheckPayloads(e) \/ BadPayload(e) \/ ReplaceTarget(e)
             \/ StepFails(e)
      PROVE  Untouched(id)
  BY <1>8 DEF StartWrite, StartCreate, StartRestore, Start, RefuseRestore, OpenTarget,
     LockTarget, LockBusy, VerifyEtag, StaleEtag, DirExists, CheckPayloads, BadPayload,
     ReplaceTarget, StepFails, Untouched
<1>9. ASSUME Reap \/ ReapFails \/ Tick \/ Crash \/ UNCHANGED vars
      PROVE  Untouched(id)
  BY <1>9 DEF Reap, ReapFails, Tick, Crash, vars, Untouched
<1>10. QED
  BY <1>5, <1>6, <1>7, <1>8, <1>9 DEF Next

\* What a call captures of a file that it lists twice is the same.
LEMMA CapturedOnce ==
  ASSUME SnapInv, KindsOK, NEW c \in Caller, pc[c] \in Making,
         NEW i \in DOMAIN call[c].files, NEW j \in DOMAIN call[c].files,
         call[c].files[i] = call[c].files[j]
  PROVE  Captured(c, i) = Captured(c, j)
<1>1. pc[c] \in Steps /\ KindOK(call[c], pc[c])
  BY StepNames DEF KindsOK
<1>2. call[c].kind \in {"write", "create", "restore"}
  BY <1>1, CallFacts DEF Call
<1>3. QED
  BY <1>1, <1>2 DEF KindOK, Captured

\* A file in the directory stays there when another one is written, and when its own
\* record does not change.
LEMMA KeptStays ==
  ASSUME SnapInv, NEW c \in Caller, pc[c] \in Making, NEW j, NEW t \in Target,
         NEW bytes \in Content \union {Torn},
         PutPayload(call[c].id, Flat[t], bytes),
         call'[c].files = call[c].files, call'[c].bytes = call[c].bytes,
         call'[c].kind = call[c].kind, call'[c].etag = call[c].etag,
         call'[c].id = call[c].id,
         j \in DOMAIN call[c].files
  PROVE  /\ call[c].files[j] # t /\ Kept(c, j) => Kept(c, j)'
         /\ call[c].files[j] = t /\ bytes = Captured(c, j) => Kept(c, j)'
<1>1. PICK id \in Id : id = call[c].id
  BY MakingFacts
<1>2. /\ DirsOK /\ dir[id] # NoDir /\ call[c].files[j] \in Target
      /\ PutPayload(id, Flat[t], bytes)
  BY <1>1, MakingFacts
<1>3. PICK D \in Dir :
        /\ dir' = [dir EXCEPT ![id] = D]
        /\ D.manifest = dir[id].manifest /\ D.ts = dir[id].ts
        /\ D.payload = [n \in DOMAIN dir[id].payload \union {Flat[t]} |->
                          IF n = Flat[t] THEN bytes ELSE dir[id].payload[n]]
  BY <1>2, PayloadPut, Zenon
<1>4. dir'[id].payload = [n \in DOMAIN dir[id].payload \union {Flat[t]} |->
                            IF n = Flat[t] THEN bytes ELSE dir[id].payload[n]]
  BY <1>3, OneDir, ZenonT(60)
<1>5. Captured(c, j)' = Captured(c, j)
  BY DEF Captured
<1>6. Flat[call[c].files[j]] = Flat[t] => call[c].files[j] = t
  BY <1>2, SnapshotAssumption
<1>7. QED
  BY <1>1, <1>4, <1>5, <1>6, SMTT(30) DEF Kept

\* The files a call has captured are in its directory.
LEMMA MadeStep ==
  ASSUME SnapInv, SnapInv', KindsOK, MadeOK, [Next]_vars
  PROVE  MadeOK'
<1> DEFINE OK(c) ==
      /\ pc[c] = "payload" => \A j \in 1..call[c].done : Kept(c, j)
      /\ pc[c] = "filling" =>
           \A j \in 1..call[c].done :
             call[c].files[j] # call[c].files[call[c].done + 1] => Kept(c, j)
      /\ pc[c] \in {"manifest", "sealing"} => \A j \in DOMAIN call[c].files : Kept(c, j)
<1> SUFFICES ASSUME NEW c \in Caller, pc'[c] \in Making
             PROVE  OK(c)'
  BY DEF MadeOK, Making
<1>1. pc'[c] \in Steps /\ OK(c)
  BY StepNames DEF MadeOK
<1>2. ASSUME pc[c] \in Making
      PROVE  /\ DOMAIN call[c].files = 1..Len(call[c].files) /\ Len(call[c].files) \in Nat
             /\ call[c].done \in Nat /\ call[c].done < Len(call[c].files)
             /\ call[c].files[call[c].done + 1] \in Target
             /\ \A j \in 1..call[c].done : j \in DOMAIN call[c].files
  <2>1. /\ DOMAIN call[c].files = 1..Len(call[c].files) /\ Len(call[c].files) \in Nat
        /\ call[c].done \in Nat /\ call[c].done < Len(call[c].files)
        /\ call[c].files[call[c].done + 1] \in Target
    BY <1>2, StepNames, CallFacts, MakingFacts, SeqFacts DEF CallOK
  <2>2. QED
    BY <2>1
<1>3. CASE Stays(c)
  <2>1. pc[c] \in Making /\ pc'[c] = pc[c] /\ call'[c] = call[c]
    BY <1>3 DEF Stays
  <2>2. dir'[call[c].id] = dir[call[c].id]
    BY <1>3, <2>1, OthersLeaveIt
  <2>3. \A j : Kept(c, j)' <=> Kept(c, j)
    BY <2>1, <2>2 DEF Kept, Captured
  <2>4. QED
    BY <1>1, <2>1, <2>3
<1>4. CASE MakeDir(c)
  <2>1. pc'[c] = "payload" /\ call'[c] = call[c] /\ pc[c] \in Steps /\ pc[c] = "naming"
    BY <1>4 DEF MakeDir, Goto, Steps, SnapInv, CallsOK
  <2>2. call[c].done = 0
    BY <2>1, CallFacts DEF CallOK, Early
  <2>3. 1..call'[c].done = {}
    BY <2>1, <2>2
  <2>4. QED
    BY <2>1, <2>3
<1>5. CASE CreatePayload(c)
  <2>1. /\ pc[c] = "payload" /\ pc'[c] = "filling" /\ call'[c] = call[c]
        /\ PutPayload(call[c].id, Flat[call[c].files[call[c].done + 1]], Torn)
    BY <1>5 DEF CreatePayload, Goto, SnapInv, CallsOK
  <2>2. pc[c] \in Making
    BY <2>1 DEF Making
  <2>3. ASSUME NEW j \in 1..call[c].done,
               call[c].files[j] # call[c].files[call[c].done + 1]
        PROVE  Kept(c, j)'
    BY <1>1, <1>2, <2>1, <2>2, <2>3, KeptStays
  <2>4. QED
    BY <2>1, <2>3
<1>6. CASE FillPayload(c)
  <2> DEFINE i == call[c].done + 1
  <2>1. /\ pc[c] = "filling" /\ pc[c] \in Making
        /\ PutPayload(call[c].id, Flat[call[c].files[i]], Captured(c, i))
    BY <1>6 DEF FillPayload, Goto, Making
  <2>2. call[c] \in Call /\ i \in DOMAIN call[c].files /\ Captured(c, i) \in Content \union {Torn}
    BY <1>2, <2>1, MakingFacts
  <2>3. /\ call'[c].files = call[c].files /\ call'[c].bytes = call[c].bytes
        /\ call'[c].kind = call[c].kind /\ call'[c].etag = call[c].etag
        /\ call'[c].id = call[c].id
        /\ call'[c].done = IF i = Len(call[c].files) THEN 0 ELSE i
        /\ pc'[c] = IF i = Len(call[c].files) THEN "manifest" ELSE "payload"
    BY <1>6, <2>2 DEF FillPayload, Goto, Call, SnapInv, CallsOK
  <2>4. ASSUME NEW j \in 1..i
        PROVE  Kept(c, j)'
    <3>1. j \in DOMAIN call[c].files
      BY <1>2, <2>1, <2>2
    <3>2. CASE call[c].files[j] = call[c].files[i]
      <4>1. Captured(c, j) = Captured(c, i)
        BY <2>1, <2>2, <3>1, <3>2, CapturedOnce
      <4>2. QED
        BY <1>2, <2>1, <2>2, <2>3, <3>1, <3>2, <4>1, KeptStays
    <3>3. CASE call[c].files[j] # call[c].files[i]
      <4>1. j \in 1..call[c].done
        BY <1>2, <2>1, <3>3
      <4>2. Kept(c, j)
        BY <1>1, <2>1, <3>3, <4>1
      <4>3. QED
        BY <1>2, <2>1, <2>2, <2>3, <3>1, <3>3, <4>2, KeptStays
    <3>4. QED
      BY <3>2, <3>3
  <2>5. CASE i = Len(call[c].files)
    <3>1. DOMAIN call'[c].files = 1..i /\ pc'[c] = "manifest"
      BY <1>2, <2>1, <2>3, <2>5
    <3>2. QED
      BY <2>4, <3>1
  <2>6. CASE i # Len(call[c].files)
    <3>1. call'[c].done = i /\ pc'[c] = "payload"
      BY <2>3, <2>6
    <3>2. QED
      BY <2>4, <3>1
  <2>7. QED
    BY <2>5, <2>6
<1>7. CASE CreateManifest(c)
  <2>1. /\ pc[c] = "manifest" /\ pc'[c] = "sealing" /\ call'[c] = call[c]
        /\ dir' = [dir EXCEPT ![call[c].id].manifest = Torn]
    BY <1>7 DEF CreateManifest, Goto, SnapInv, CallsOK
  <2>2. call[c].id \in Id /\ dir[call[c].id] \in Dir
    BY <2>1, MakingFacts DEF Making
  <2>3. dir'[call[c].id].payload = dir[call[c].id].payload
    BY <2>1, <2>2 DEF Dir, SnapInv, DirsOK
  <2>4. \A j : Kept(c, j) => Kept(c, j)'
    BY <2>1, <2>3 DEF Kept, Captured
  <2>5. QED
    BY <1>1, <2>1, <2>4
<1>8. CASE StartWrite(c) \/ StartCreate(c) \/ StartRestore(c)
  <2>1. \E kind, id, files, etag, bytes, step :
          Start(c, kind, id, files, etag, bytes, step) /\ step \in {"opening", "naming"}
    BY <1>8 DEF StartWrite, StartCreate, StartRestore
  <2>2. pc'[c] \in {"opening", "naming"}
    BY <2>1, StartRecord
  <2>3. QED
    BY <2>2 DEF Making
<1>9. CASE OpenTarget(c) \/ LockTarget(c) \/ VerifyEtag(c) \/ CheckPayloads(c) \/ ReplaceTarget(c)
           \/ FillManifest(c)
  <2>1. CASE OpenTarget(c) \/ LockTarget(c) \/ VerifyEtag(c) \/ CheckPayloads(c)
    BY <2>1 DEF OpenTarget, LockTarget, VerifyEtag, CheckPayloads, Goto, Making, SnapInv, CallsOK
  <2>2. CASE ReplaceTarget(c) \/ FillManifest(c)
    BY <2>2 DEF ReplaceTarget, FillManifest, Goto, Return, Making, SnapInv, CallsOK
  <2>3. QED
    BY <1>9, <2>1, <2>2
<1>10. QED
  BY <1>1, <1>3, <1>4, <1>5, <1>6, <1>7, <1>8, <1>9, OwnStep DEF Acts

-----------------------------------------------------------------------------
(* A write behind its snapshot                                             *)

\* A call that goes on to replace its target as a write has filled its manifest.
LEMMA SavedStep ==
  ASSUME SnapInv, SnapInv', StoreInv, PromptWrites, SavedOK, [Next]_vars
  PROVE  SavedOK'
<1> SUFFICES ASSUME NEW c \in Caller, pc'[c] = "replacing", call'[c].kind = "write"
             PROVE  Saved(c)'
  BY DEF SavedOK
<1>1. pc'[c] \in Steps
  BY DEF Steps
<1>2. CASE Stays(c)
  <2>1. pc[c] = "replacing" /\ pc[c] \in Steps /\ call'[c] = call[c] /\ call[c].kind = "write"
    BY <1>1, <1>2 DEF Stays
  <2>2. PICK id \in Id : id = call[c].id
    BY <2>1, CallFacts
  <2>3. /\ id \notin doomed /\ Whole(id)
        /\ dir[id].manifest = <<[path |-> call[c].files[1], sha256 |-> call[c].etag]>>
        /\ now <= dir[id].ts + KeepAge
    BY <2>1, <2>2 DEF SavedOK, Saved, PromptWrites
  <2>4. dir[id] \in Dir /\ dir[id] # NoDir /\ dir[id].manifest \notin {NoManifest, Torn}
    BY <2>3 DEF Whole, Sealed, HasManifest, Exists, SnapInv, DirsOK
  <2>5. id \notin doomed'
    <3>1. dir[id].ts \in Nat /\ now \in Nat /\ KeepAge \in Nat
      BY <2>4, SnapshotAssumption DEF Dir, SnapInv, CountsOK
    <3>2. ~Expendable(id)
      BY <2>3, <3>1 DEF Expendable
    <3>3. QED
      BY <2>3, <3>2, OnlyReapDooms DEF Reap
  <2>6. ~PowerTorn(id)
    BY <1>1, <2>1, StepNames DEF PowerTorn, Vanish, Resting, Steps
  <2>7. Untouched(id) \/ Synced(id)
    BY <2>3, <2>4, <2>6, DirChanges DEF StoreInv, DirChange, Reaped, BeingMade, Completed
  <2>8. dir'[id].manifest = dir[id].manifest /\ dir'[id].payload = dir[id].payload /\ dir'[id] # NoDir
    <3>1. CASE Untouched(id)
      BY <2>4, <3>1 DEF Untouched
    <3>2. CASE Synced(id)
      <4>1. dir'[id] = [dir[id] EXCEPT !.durable = TRUE]
        BY <3>2 DEF Synced
      <4>2. dir'[id] \in Dir
        BY <2>4, <4>1 DEF Dir
      <4>3. QED
        BY <2>4, <4>1, <4>2, SnapshotAssumption DEF Dir
    <3>3. QED
      BY <2>7, <3>1, <3>2
  <2>9. Whole(id)'
    BY <2>3, <2>8 DEF Whole, RowHolds, Sealed, HasManifest, Exists
  <2>10. QED
    BY <2>1, <2>2, <2>3, <2>5, <2>8, <2>9 DEF Saved
<1>3. CASE FillManifest(c)
  <2>1. pc[c] = "sealing" /\ pc[c] \in Steps /\ pc[c] \in Making
    BY <1>3 DEF FillManifest, Goto, Steps, Making
  <2>2. PICK id \in Id : id = call[c].id
    BY <2>1, MakingFacts
  <2>3. call'[c] = call[c] /\ call[c].kind = "write" /\ UNCHANGED doomed
    BY <1>1, <1>3 DEF FillManifest, Return, Steps, SnapInv, CallsOK
  <2>4. id \notin doomed'
    BY <2>1, <2>2, <2>3 DEF SnapInv, OwnDir
  <2>5. /\ dir[id] # NoDir /\ dir[id].manifest \in {NoManifest, Torn}
        /\ Untouched(id) \/ Completed(id)
        /\ dir'[id].manifest = [i \in DOMAIN call[c].files |->
                                 [path |-> call[c].files[i], sha256 |-> Captured(c, i)]]
    BY <1>3, <2>1, <2>2, FillManifestChange, MakingFacts DEF StoreInv
  <2>6. DOMAIN call[c].files = {1}
    <3>1. Len(call[c].files) = 1
      BY <2>1, <2>3 DEF StoreInv, KindsOK, KindOK
    <3>2. QED
      BY <2>1, <3>1, CallFacts
  <2>7. \A i : Captured(c, i) = call[c].etag
    BY <2>3 DEF Captured
  <2>8. dir'[id].manifest = <<[path |-> call[c].files[1], sha256 |-> call[c].etag]>>
    BY <2>5, <2>6, <2>7
  <2>9. Whole(id)'
    <3>1. dir'[id].manifest \in Seq(Row) /\ dir'[id].manifest \notin {NoManifest, Torn}
      <4>1. call[c].files[1] \in Target /\ call[c].etag \in Content
        BY <2>1, <2>6, CallFacts, SeqFacts
      <4>2. [path |-> call[c].files[1], sha256 |-> call[c].etag] \in Row
        BY <4>1 DEF Row
      <4>3. \A row \in Row : <<row>> \in Seq(Row)
        OBVIOUS
      <4>4. QED
        BY <2>8, <4>2, <4>3, SnapshotAssumption
    <3>2. ~Untouched(id)
      BY <2>5, <3>1 DEF Untouched
    <3>3. QED
      BY <2>5, <3>2 DEF Completed
  <2>10. QED
    BY <2>2, <2>3, <2>4, <2>8, <2>9 DEF Saved
<1>4. CASE ReplaceTarget(c) \/ CheckPayloads(c)
  <2>1. pc[c] \in {"replacing", "checking"} /\ pc[c] \in Steps
    BY <1>4 DEF ReplaceTarget, CheckPayloads, Goto, Steps
  <2>2. call'[c].kind = call[c].kind
    BY <1>1, <1>4, SameLocks
  <2>3. pc[c] # "checking" /\ Len(call[c].files) = 1 /\ call[c].done = 0
    BY <2>1, <2>2 DEF StoreInv, KindsOK, KindOK
  <2>4. call[c].done + 1 = Len(call[c].files)
    <3>1. \A m, n : m = 0 /\ n = 1 => m + 1 = n
      OBVIOUS
    <3>2. QED
      BY <2>3, <3>1
  <2>5. \E reply \in {"ok", "SnapshotFailed"} : Return(c, reply)
    BY <1>4, <2>3, <2>4 DEF ReplaceTarget, CheckPayloads, Goto
  <2>6. QED
    BY <2>5 DEF Return, SnapInv, CallsOK
<1>5. CASE \/ StartWrite(c) \/ StartCreate(c) \/ StartRestore(c)
  <2>1. \E kind, id, files, etag, bytes, step :
          Start(c, kind, id, files, etag, bytes, step) /\ step \in {"opening", "naming"}
    BY <1>5 DEF StartWrite, StartCreate, StartRestore
  <2>2. QED
    BY <2>1, StartRecord
<1>6. CASE \/ OpenTarget(c) \/ LockTarget(c) \/ VerifyEtag(c) \/ MakeDir(c) \/ CreatePayload(c)
           \/ CreateManifest(c) \/ FillPayload(c)
  BY <1>6 DEF OpenTarget, LockTarget, VerifyEtag, MakeDir, CreatePayload, CreateManifest,
     FillPayload, Goto, SnapInv, CallsOK
<1>7. QED
  BY <1>1, <1>2, <1>3, <1>4, <1>5, <1>6, OwnStep DEF Acts

-----------------------------------------------------------------------------
(* The theorems                                                            *)

\* What the daemon finds when it starts.
LEMMA InitStoreInv == Init => StoreInv
<1> SUFFICES ASSUME Init
             PROVE  StoreInv
  OBVIOUS
<1>1. dir \in Found /\ doomed = {} /\ \A c \in Caller : pc[c] = "idle"
  BY DEF Init
<1>2. FiniteDirs
  BY <1>1, FoundAssumption DEF FiniteDirs
<1>3. DoomedOK /\ MadeOK /\ KindsOK /\ LocksOK /\ ReadOK
  BY <1>1 DEF DoomedOK, MadeOK, KindsOK, LocksOK, ReadOK, Steps, Making
<1>4. ASSUME NEW id \in Listed
      PROVE  Whole(id) \/ (PowerLoss /\ ~dir[id].durable)
  <2>1. id \in Id /\ Sealed(id) /\ dir[id] # NoDir /\ dir[id].manifest \notin {NoManifest, Torn}
    BY DEF Listed, Sealed, HasManifest, Exists
  <2>2. CASE \A i \in DOMAIN dir[id].manifest : RowHolds(id, i)
    BY <2>1, <2>2 DEF Whole
  <2>3. CASE PowerLoss /\ ~dir[id].durable
    BY <2>3
  <2>4. QED
    BY <1>1, <2>1, <2>2, <2>3, FoundAssumption DEF RowHolds
<1>5. QED
  BY <1>2, <1>3, <1>4 DEF StoreInv, ListedIsRestorable

LEMMA NextStoreInv == SnapInv /\ SnapInv' /\ StoreInv /\ [Next]_vars => StoreInv'
<1> SUFFICES ASSUME SnapInv, SnapInv', StoreInv, [Next]_vars
             PROVE  StoreInv'
  OBVIOUS
<1>1. FiniteDirs' /\ KindsOK' /\ LocksOK' /\ ReadOK' /\ MadeOK'
  BY FiniteDirsStep, KindsStep, LocksStep, ReadStep, MadeStep DEF StoreInv
<1>2. DoomedOK' /\ ListedIsRestorable'
  BY <1>1, DoomedStep, RestorableStep DEF StoreInv
<1>3. QED
  BY <1>1, <1>2 DEF StoreInv

LEMMA StoreInvariant == Spec => []StoreInv
  BY InitStoreInv, NextStoreInv, SnapInvariant, PTL DEF Spec

\* What is listed can be restored, is expendable, or was lost with the power before it
\* was on the disk, wherever a create, a removal or the daemon stops.
THEOREM ListedCanBeRestored == Spec => []ListedIsRestorable
<1>1. StoreInv => ListedIsRestorable
  BY DEF StoreInv
<1>2. QED
  BY <1>1, StoreInvariant, PTL

\* A call that gets to its replacement presents the ETag of bytes that were live while it
\* was under way, whoever else has replaced the file since.
THEOREM PresentedWasLive == Spec => []EtagWasLive
<1>1. SnapInv /\ StoreInv => EtagWasLive
  <2> SUFFICES ASSUME SnapInv, StoreInv, NEW c \in Caller, pc[c] = "replacing"
               PROVE  \E n \in call[c].since..Len(file[call[c].files[1]]) :
                        file[call[c].files[1]][n] = call[c].etag
    BY DEF EtagWasLive
  <2>1. pc[c] \in Steps /\ call[c].kind # "create"
    BY DEF StoreInv, KindsOK, KindOK, Steps, Making
  <2>2. call[c].locks[call[c].files[1]] \in call[c].since..Len(file[call[c].files[1]])
    BY <2>1, PrimaryLocked DEF StoreInv
  <2>3. Primary(c) = call[c].etag
    BY <2>1 DEF StoreInv, ReadOK
  <2>4. QED
    BY <2>2, <2>3 DEF Primary
<1>2. QED
  BY <1>1, SnapInvariant, StoreInvariant, PTL

\* A complete snapshot stays as it is until retention lets it go: what a pass of the
\* reaper has doomed is still expendable when its turn comes.
THEOREM RetentionIsKept == Spec => CompleteIsKept
<1> DEFINE A == \A id \in Listed :
                  \/ Exists(id)' /\ [dir'[id] EXCEPT !.durable = dir[id].durable] = dir[id]
                  \/ Expendable(id)
                  \/ PowerLoss /\ ~dir[id].durable
<1>1. SnapInv /\ SnapInv' /\ StoreInv /\ [Next]_vars => [A]_vars
  BY KeptStep DEF StoreInv
<1>2. QED
  BY <1>1, SnapInvariant, StoreInvariant, PTL DEF Spec, CompleteIsKept

\* A write replaces its target behind a complete snapshot of the bytes it compared with
\* the ETag, provided it does so before the snapshot is old enough to be reaped: other
\* calls may have made KeepCount newer ones meanwhile.
THEOREM WritesAreSaved == Spec /\ []PromptWrites => WriteIsSaved
<1> DEFINE A == \A c \in Caller :
                  /\ pc[c] = "replacing"
                  /\ call[c].kind = "write"
                  /\ file'[call[c].files[1]] # file[call[c].files[1]]
                  => /\ Whole(call[c].id)
                     /\ dir[call[c].id].manifest =
                          <<[path |-> call[c].files[1], sha256 |-> Primary(c)]>>
<1>1. Init => SavedOK
  BY DEF Init, SavedOK
<1>2. SnapInv /\ SnapInv' /\ StoreInv /\ PromptWrites /\ SavedOK /\ [Next]_vars => SavedOK'
  BY SavedStep
<1>3. SavedOK /\ StoreInv => A
  BY DEF SavedOK, Saved, StoreInv, ReadOK
<1>4. QED
  BY <1>1, <1>2, <1>3, SnapInvariant, StoreInvariant, PTL DEF Spec, WriteIsSaved
=============================================================================
