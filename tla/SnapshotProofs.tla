---------------------------- MODULE SnapshotProofs ----------------------------
(***************************************************************************)
(* Proofs about Snapshot for any calls, targets, ids and bounds, with and  *)
(* without loss of power.                                                  *)
(***************************************************************************)
EXTENDS Snapshot, WellFoundedInduction, SequenceTheorems, FiniteSetTheorems,
        TLAPS

-----------------------------------------------------------------------------
(* The strengthening                                                       *)

\* The steps of a call that has replaced nothing.
Early == {"opening", "locking", "verifying", "checking", "naming"}

\* The steps of a call whose snapshot directory is unfinished.
Making == {"payload", "filling", "manifest", "sealing"}

Left(k) == Range1(k.files) \ DOMAIN k.locks

\* What a call that has reached step p works on. While it takes locks some file
\* is left, and those locked precede those left.
CallOK(k, p) ==
  /\ k \in Call
  /\ k.files # <<>>
  /\ Len(k.bytes) = Len(k.files)
  /\ k.done < Len(k.files)
  /\ p \in Early => k.done = 0
  /\ p \in {"opening", "locking"} =>
       /\ Left(k) # {}
       /\ \A t \in DOMAIN k.locks, u \in Left(k) : t < u
  /\ p = "locking" => k.fd > 0

CallsOK ==
  /\ call \in [Caller -> Call \union {NoCall}]
  /\ pc \in [Caller -> Resting \union Steps]
  /\ \A c \in Caller : pc[c] \in Steps <=> call[c] # NoCall
  /\ \A c \in Caller : pc[c] \in Steps => CallOK(call[c], pc[c])

\* An unfinished snapshot directory is there, belongs to one call and is not the
\* reaper's.
OwnDir ==
  \A c \in Caller : pc[c] \in Making =>
    /\ dir[call[c].id] # NoDir
    /\ dir[call[c].id].manifest \in {NoManifest, Torn}
    /\ call[c].id \notin doomed
    /\ \A d \in Caller : pc[d] \in Making /\ call[d].id = call[c].id => d = c

FilesOK ==
  /\ file \in [Target -> Seq(Content)]
  /\ \A t \in Target : Len(file[t]) \in 1..MaxInodes

DirsOK ==
  /\ dir \in [Id -> Dir \union {NoDir}]
  /\ doomed \subseteq {id \in Id : Exists(id)}

CountsOK == calls \in 0..MaxCalls /\ now \in 0..MaxTime

SnapInv == FilesOK /\ DirsOK /\ CountsOK /\ CallsOK /\ OwnDir

-----------------------------------------------------------------------------
(* Data                                                                    *)

\* A nonempty set of naturals has a least element.
LEMMA LeastOf ==
  ASSUME NEW S \in SUBSET Nat, S # {}
  PROVE  \E t \in S : \A u \in S : t <= u
<1>1. PICK t \in S : \A u \in S : <<u, t>> \notin OpToRel(<, Nat)
  BY WFMin, NatLessThanWellFounded, Zenon
<1>2. \A u \in S : ~(u < t)
  BY <1>1, Zenon DEF OpToRel
<1>3. QED
  BY <1>2

\* The numbers of a sequence's places.
LEMMA SeqFacts ==
  ASSUME NEW S, NEW s \in Seq(S)
  PROVE  /\ Len(s) \in Nat
         /\ DOMAIN s = 1..Len(s)
         /\ \A i \in DOMAIN s : s[i] \in S
         /\ s # <<>> <=> Len(s) > 0
         /\ Range1(s) \subseteq S
<1>1. Len(s) \in Nat /\ DOMAIN s = 1..Len(s) /\ s \in [1..Len(s) -> S]
  BY LenProperties
<1>2. s # <<>> <=> Len(s) > 0
  BY <1>1, EmptySeq
<1>3. QED
  BY <1>1, <1>2 DEF Range1

\* A function of 1..n is a sequence.
LEMMA FunctionIsSeq ==
  ASSUME NEW S, NEW n \in Nat, NEW f \in [1..n -> S]
  PROVE  f \in Seq(S) /\ Len(f) = n
<1>1. f \in Seq(S)
  BY SeqDef
<1>2. QED
  BY <1>1, LenProperties

\* Adding a place to a partial function, or taking one away, leaves a partial function.
LEMMA PartialPut ==
  ASSUME NEW S, NEW T, NEW f \in Partial(S, T), NEW x \in S, NEW y \in T
  PROVE  [n \in DOMAIN f \union {x} |-> IF n = x THEN y ELSE f[n]] \in Partial(S, T)
<1> DEFINE g == [n \in DOMAIN f \union {x} |-> IF n = x THEN y ELSE f[n]]
<1>1. PICK R \in SUBSET S : f \in [R -> T]
  BY DEF Partial
<1>2. g \in [R \union {x} -> T] /\ R \union {x} \in SUBSET S
  BY <1>1
<1> HIDE DEF g
<1>3. g \in Partial(S, T)
  BY <1>2 DEF Partial
<1>4. QED
  BY <1>3 DEF g

LEMMA PartialTake ==
  ASSUME NEW S, NEW T, NEW f \in Partial(S, T), NEW x
  PROVE  [n \in DOMAIN f \ {x} |-> f[n]] \in Partial(S, T)
<1> DEFINE g == [n \in DOMAIN f \ {x} |-> f[n]]
<1>1. PICK R \in SUBSET S : f \in [R -> T]
  BY DEF Partial
<1>2. g \in [R \ {x} -> T] /\ R \ {x} \in SUBSET S
  BY <1>1
<1> HIDE DEF g
<1>3. g \in Partial(S, T)
  BY <1>2 DEF Partial
<1>4. QED
  BY <1>3 DEF g

LEMMA PartialAll ==
  ASSUME NEW S, NEW T, NEW f \in Partial(S, T), NEW y \in T
  PROVE  [n \in DOMAIN f |-> y] \in Partial(S, T)
  BY DEF Partial

LEMMA PartialNone ==
  ASSUME NEW S, NEW T, NEW y
  PROVE  [n \in {} |-> y] \in Partial(S, T)
  BY DEF Partial

\* The next target is the least of those left.
LEMMA NextIsLeast ==
  ASSUME NEW c \in Caller, call[c] \in Call, Left(call[c]) # {}
  PROVE  /\ NextTarget(c) \in Left(call[c])
         /\ NextTarget(c) \in Target
         /\ \A u \in Left(call[c]) : NextTarget(c) <= u
<1>1. Unlocked(c) = Left(call[c])
  BY DEF Unlocked, Left
<1>2. call[c].files \in Seq(Target)
  BY DEF Call
<1>3. Left(call[c]) \subseteq Target
  BY <1>2, SeqFacts DEF Left
<1>4. Left(call[c]) \in SUBSET Nat
  BY <1>3, SnapshotAssumption
<1>5. \E t \in Left(call[c]) : \A u \in Left(call[c]) : t <= u
  BY <1>4, LeastOf
<1>6. QED
  BY <1>1, <1>3, <1>5 DEF NextTarget

-----------------------------------------------------------------------------
(* Steps of one call                                                       *)

\* A step that leaves the call in flight with another record or at another step.
LEMMA CallGoesOn ==
  ASSUME CallsOK, NEW c \in Caller, NEW k, NEW p \in Steps, CallOK(k, p),
         call' = [call EXCEPT ![c] = k], pc' = [pc EXCEPT ![c] = p]
  PROVE  CallsOK'
<1>1. k \in Call /\ k # NoCall
  BY SnapshotAssumption DEF CallOK
<1>2. call' \in [Caller -> Call \union {NoCall}] /\ pc' \in [Caller -> Resting \union Steps]
  BY <1>1 DEF CallsOK
<1>3. ASSUME NEW d \in Caller
      PROVE  /\ pc'[d] \in Steps <=> call'[d] # NoCall
             /\ pc'[d] \in Steps => CallOK(call'[d], pc'[d])
  <2>1. CASE d = c
    <3>1. call'[d] = k /\ pc'[d] = p
      BY <2>1 DEF CallsOK
    <3>2. QED
      BY <1>1, <3>1
  <2>2. CASE d # c
    <3>1. call'[d] = call[d] /\ pc'[d] = pc[d]
      BY <2>2 DEF CallsOK
    <3>2. QED
      BY <3>1 DEF CallsOK
  <2>3. QED
    BY <2>1, <2>2
<1>4. QED
  BY <1>2, <1>3 DEF CallsOK

\* A call returns.
LEMMA CallReturns ==
  ASSUME CallsOK, NEW c \in Caller, NEW reply \in Resting, Return(c, reply)
  PROVE  CallsOK'
<1>1. reply \notin Steps
  BY DEF Resting, Refusals, Steps
<1>2. call' \in [Caller -> Call \union {NoCall}] /\ pc' \in [Caller -> Resting \union Steps]
  BY DEF CallsOK, Return
<1>3. ASSUME NEW d \in Caller
      PROVE  /\ pc'[d] \in Steps <=> call'[d] # NoCall
             /\ pc'[d] \in Steps => CallOK(call'[d], pc'[d])
  <2>1. CASE d = c
    <3>1. call'[d] = NoCall /\ pc'[d] = reply
      BY <2>1 DEF CallsOK, Return
    <3>2. QED
      BY <1>1, <3>1
  <2>2. CASE d # c
    <3>1. call'[d] = call[d] /\ pc'[d] = pc[d]
      BY <2>2 DEF CallsOK, Return
    <3>2. QED
      BY <3>1 DEF CallsOK
  <2>3. QED
    BY <2>1, <2>2
<1>4. QED
  BY <1>2, <1>3 DEF CallsOK

\* A step that changes no directory and starts no making of one.
LEMMA OwnDirKept ==
  ASSUME OwnDir, dir' = dir, doomed' \subseteq doomed,
         \A c \in Caller : pc'[c] \in Making => pc[c] \in Making /\ call'[c].id = call[c].id
  PROVE  OwnDir'
  BY DEF OwnDir

\* A call that returns makes no directory any more.
LEMMA ReturnKeepsOwnDir ==
  ASSUME CallsOK, OwnDir, NEW c \in Caller, NEW reply \in Resting, Return(c, reply),
         UNCHANGED <<dir, doomed>>
  PROVE  OwnDir'
<1>1. reply \notin Making
  BY DEF Resting, Refusals, Making
<1>2. ASSUME NEW d \in Caller, pc'[d] \in Making
      PROVE  pc[d] \in Making /\ call'[d].id = call[d].id
  <2>1. d # c
    BY <1>1, <1>2 DEF Return, CallsOK
  <2>2. pc'[d] = pc[d] /\ call'[d] = call[d]
    BY <2>1 DEF Return, CallsOK
  <2>3. QED
    BY <1>2, <2>2
<1>3. QED
  BY <1>2, OwnDirKept

\* A call that returns and changes no file or directory.
LEMMA ReturnStep ==
  ASSUME SnapInv, NEW c \in Caller, NEW reply \in Resting, Return(c, reply),
         UNCHANGED <<file, dir, calls, doomed, now>>
  PROVE  SnapInv'
<1>1. CallsOK' /\ OwnDir'
  BY CallReturns, ReturnKeepsOwnDir DEF SnapInv
<1>2. FilesOK' /\ DirsOK' /\ CountsOK'
  BY DEF SnapInv, FilesOK, DirsOK, CountsOK, Exists
<1>3. QED
  BY <1>1, <1>2 DEF SnapInv

\* A call that goes on to a step that makes no directory, and changes none.
LEMMA GoOnStep ==
  ASSUME SnapInv, NEW c \in Caller, NEW k, NEW p \in Steps \ Making, CallOK(k, p),
         call' = [call EXCEPT ![c] = k], pc' = [pc EXCEPT ![c] = p],
         UNCHANGED <<file, dir, doomed, now>>, calls' \in 0..MaxCalls
  PROVE  SnapInv'
<1>1. CallsOK'
  BY CallGoesOn DEF SnapInv
<1>2. FilesOK' /\ DirsOK' /\ CountsOK'
  BY DEF SnapInv, FilesOK, DirsOK, CountsOK, Exists
<1>3. ASSUME NEW d \in Caller, pc'[d] \in Making
      PROVE  pc[d] \in Making /\ call'[d].id = call[d].id
  BY <1>3 DEF SnapInv, CallsOK
<1>4. OwnDir'
  BY <1>3, OwnDirKept DEF SnapInv
<1>5. QED
  BY <1>1, <1>2, <1>4 DEF SnapInv

-----------------------------------------------------------------------------
(* The actions                                                             *)

\* Resting calls and steps are told apart, and no early step makes a directory.
LEMMA StepNames ==
  /\ Early \subseteq Steps \ Making
  /\ Making \subseteq Steps
  /\ {"checking", "replacing"} \subseteq Steps \ Making
  /\ Resting \intersect Steps = {}
  BY DEF Early, Making, Steps, Resting, Refusals

LEMMA CallFacts ==
  ASSUME SnapInv, NEW c \in Caller, pc[c] \in Steps
  PROVE  /\ CallOK(call[c], pc[c])
         /\ call[c] \in Call /\ call[c] # NoCall
         /\ call[c].id \in Id
         /\ call[c].files \in Seq(Target)
         /\ call[c].bytes \in Seq(Content)
         /\ call[c].etag \in Content
         /\ call[c].done \in Nat
         /\ DOMAIN call[c].files = 1..Len(call[c].files)
         /\ DOMAIN call[c].bytes = 1..Len(call[c].files)
         /\ call[c].done + 1 \in DOMAIN call[c].files
         /\ Range1(call[c].files) \subseteq Target
<1>1. CallOK(call[c], pc[c]) /\ call[c] # NoCall
  BY DEF SnapInv, CallsOK
<1>2. call[c] \in Call
  BY <1>1 DEF CallOK
<1>3. call[c].files \in Seq(Target) /\ call[c].bytes \in Seq(Content) /\ call[c].done \in Nat
  BY <1>2 DEF Call
<1>4. /\ Len(call[c].files) \in Nat
      /\ DOMAIN call[c].files = 1..Len(call[c].files)
      /\ Range1(call[c].files) \subseteq Target
  BY <1>3, SeqFacts
<1>5. DOMAIN call[c].bytes = 1..Len(call[c].bytes)
  BY <1>3, SeqFacts
<1>6. QED
  BY <1>1, <1>2, <1>3, <1>4, <1>5 DEF CallOK, Call

\* A call that starts with nothing done and no lock.
LEMMA StartOK ==
  ASSUME SnapInv, NEW c \in Caller,
         NEW kind \in {"write", "create", "restore"}, NEW id \in Id,
         NEW files \in Seq(Target), NEW etag \in Content, NEW bytes \in Seq(Content),
         NEW step \in {"opening", "naming"},
         files # <<>>, Len(bytes) = Len(files),
         Start(c, kind, id, files, etag, bytes, step)
  PROVE  SnapInv'
<1> DEFINE k == [kind |-> kind, id |-> id, files |-> files, etag |-> etag, bytes |-> bytes,
                 fd |-> 0, locks |-> [t \in {} |-> 0], done |-> 0,
                 since |-> Len(file[files[1]])]
<1>1. k.locks \in Partial(Target, 1..MaxInodes) /\ DOMAIN k.locks = {}
  BY PartialNone
<1>2. Len(files) > 0 /\ 1 \in DOMAIN files /\ files[1] \in Target
  BY SeqFacts
<1>3. k \in Call
  <2>1. Len(file[files[1]]) \in 1..MaxInodes
    BY <1>2 DEF SnapInv, FilesOK
  <2>2. QED
    BY <1>1, <2>1, SnapshotAssumption DEF Call
<1>4. Left(k) # {}
  BY <1>1, <1>2 DEF Left, Range1
<1>5. CallOK(k, step)
  BY <1>1, <1>2, <1>3, <1>4 DEF CallOK
<1>6. calls' \in 0..MaxCalls
  BY SnapshotAssumption DEF Start, SnapInv, CountsOK
<1>7. step \in Steps \ Making
  BY DEF Steps, Making
<1> HIDE DEF k
<1>8. call' = [call EXCEPT ![c] = k] /\ pc' = [pc EXCEPT ![c] = step]
  BY DEF Start, k
<1>9. QED
  BY <1>5, <1>6, <1>7, <1>8, GoOnStep DEF Start

\* A write call starts.
LEMMA StartWriteStep ==
  ASSUME SnapInv, NEW c \in Caller, StartWrite(c)
  PROVE  SnapInv'
<1>1. PICK t \in Managed, id \in Id, etag \in Content, new \in Content :
        Start(c, "write", id, <<t>>, etag, <<new>>, "opening")
  BY DEF StartWrite
<1>2. t \in Target
  BY SnapshotAssumption
<1>3. /\ <<t>> \in Seq(Target) /\ Len(<<t>>) = 1 /\ <<t>> # <<>>
      /\ <<new>> \in Seq(Content) /\ Len(<<new>>) = 1
  BY <1>2
<1>4. QED
  BY <1>1, <1>3, StartOK

\* The live bytes of a target are contents.
LEMMA LiveType ==
  ASSUME SnapInv, NEW t \in Target
  PROVE  Live(t) \in Content
<1>1. file[t] \in Seq(Content) /\ Len(file[t]) \in 1..MaxInodes
  BY DEF SnapInv, FilesOK
<1>2. QED
  BY <1>1, SeqFacts DEF Live

\* A create starts.
LEMMA StartCreateStep ==
  ASSUME SnapInv, NEW c \in Caller, StartCreate(c)
  PROVE  SnapInv'
<1>1. PICK files \in Capture, id \in Id :
        Start(c, "create", id, files, Live(files[1]),
              [i \in DOMAIN files |-> Live(files[i])], "naming")
  BY DEF StartCreate
<1>2. PICK n \in 1..Cardinality(Target) : files \in [1..n -> Target]
  BY SnapshotAssumption DEF Files
<1>3. n \in Nat /\ n > 0
  BY <1>2, SnapshotAssumption, FS_CardinalityType
<1>4. files \in Seq(Target) /\ Len(files) = n
  BY <1>2, <1>3, FunctionIsSeq
<1>5. files # <<>> /\ DOMAIN files = 1..n
  BY <1>3, <1>4, SeqFacts
<1>6. \A i \in 1..n : Live(files[i]) \in Content
  BY <1>2, LiveType
<1>7. [i \in DOMAIN files |-> Live(files[i])] \in [1..n -> Content]
  BY <1>5, <1>6
<1>8. /\ [i \in DOMAIN files |-> Live(files[i])] \in Seq(Content)
      /\ Len([i \in DOMAIN files |-> Live(files[i])]) = n
  BY <1>3, <1>7, FunctionIsSeq
<1>9. Live(files[1]) \in Content
  BY <1>3, <1>6
<1>10. QED
  BY <1>1, <1>4, <1>5, <1>8, <1>9, StartOK

\* The manifest of a listed snapshot is a sequence of rows.
LEMMA ListedManifest ==
  ASSUME SnapInv, NEW id \in Listed
  PROVE  id \in Id /\ dir[id] \in Dir /\ dir[id].manifest \in Seq(Row)
  BY DEF SnapInv, DirsOK, Listed, Sealed, HasManifest, Exists, Dir

\* A restore starts.
LEMMA StartRestoreStep ==
  ASSUME SnapInv, NEW c \in Caller, StartRestore(c)
  PROVE  SnapInv'
<1>1. PICK id \in Listed, etag \in Content :
        /\ dir[id].manifest # <<>>
        /\ Start(c, "restore", id, [i \in DOMAIN dir[id].manifest |-> dir[id].manifest[i].path],
                 etag, [i \in DOMAIN dir[id].manifest |-> dir[id].manifest[i].sha256], "opening")
  BY DEF StartRestore
<1> DEFINE manifest == dir[id].manifest
           paths == [i \in DOMAIN manifest |-> manifest[i].path]
           hashes == [i \in DOMAIN manifest |-> manifest[i].sha256]
<1>2. id \in Id /\ manifest \in Seq(Row)
  BY ListedManifest
<1>3. /\ Len(manifest) \in Nat /\ Len(manifest) > 0
      /\ DOMAIN manifest = 1..Len(manifest)
      /\ \A i \in DOMAIN manifest : manifest[i] \in Row
  BY <1>1, <1>2, SeqFacts
<1>4. paths \in [1..Len(manifest) -> Target] /\ hashes \in [1..Len(manifest) -> Content]
  BY <1>3 DEF Row
<1>5. /\ paths \in Seq(Target) /\ Len(paths) = Len(manifest)
      /\ hashes \in Seq(Content) /\ Len(hashes) = Len(manifest)
  BY <1>3, <1>4, FunctionIsSeq
<1>6. paths # <<>>
  BY <1>3, <1>5, SeqFacts
<1>7. Start(c, "restore", id, paths, etag, hashes, "opening")
  BY <1>1
<1> HIDE DEF paths, hashes, manifest
<1>8. QED
  BY <1>2, <1>5, <1>6, <1>7, StartOK

\* Any call refused at once is at rest before and after: nothing is in flight.
LEMMA RefuseRestoreStep ==
  ASSUME SnapInv, NEW c \in Caller, RefuseRestore(c)
  PROVE  SnapInv'
<1>1. \E reply \in Resting : Return(c, reply)
  BY DEF RefuseRestore, Resting, Refusals
<1>2. UNCHANGED <<file, dir, calls, doomed, now>>
  BY DEF RefuseRestore
<1>3. QED
  BY <1>1, <1>2, ReturnStep

\* The next target is opened.
LEMMA OpenTargetStep ==
  ASSUME SnapInv, NEW c \in Caller, OpenTarget(c)
  PROVE  SnapInv'
<1> DEFINE n == Len(file[NextTarget(c)])
           k == [call[c] EXCEPT !.fd = n]
<1>1. pc[c] = "opening" /\ pc[c] \in Steps
  BY DEF OpenTarget, Goto, Steps
<1>2. CallOK(call[c], pc[c]) /\ call[c] \in Call
  BY <1>1, CallFacts
<1>3. NextTarget(c) \in Target
  BY <1>1, <1>2, NextIsLeast DEF CallOK
<1>4. n \in 1..MaxInodes
  BY <1>3 DEF SnapInv, FilesOK
<1>5. n \in 0..MaxInodes
  BY <1>4, SnapshotAssumption
<1> HIDE DEF n
<1>6. /\ k \in Call
      /\ k.files = call[c].files /\ k.bytes = call[c].bytes /\ k.done = call[c].done
      /\ k.locks = call[c].locks /\ k.fd = n
  BY <1>2, <1>5 DEF Call
<1>7. CallOK(k, "locking")
  BY <1>1, <1>2, <1>4, <1>6 DEF CallOK, Left, Early
<1>8. call' = [call EXCEPT ![c] = k] /\ pc' = [pc EXCEPT ![c] = "locking"]
  BY DEF OpenTarget, Goto, n
<1>9. "locking" \in Steps \ Making
  BY DEF Steps, Making
<1> HIDE DEF k
<1>10. calls' \in 0..MaxCalls /\ UNCHANGED <<file, dir, doomed, now>>
  BY DEF OpenTarget, SnapInv, CountsOK
<1>11. QED
  BY <1>7, <1>8, <1>9, <1>10, GoOnStep

\* The next target is locked: it precedes those left.
LEMMA LockTargetStep ==
  ASSUME SnapInv, NEW c \in Caller, LockTarget(c)
  PROVE  SnapInv'
<1> DEFINE t == NextTarget(c)
           locks == [u \in DOMAIN call[c].locks \union {t} |->
                       IF u = t THEN call[c].fd ELSE call[c].locks[u]]
           k == [call[c] EXCEPT !.locks = locks]
           p == IF Unlocked(c) = {t} THEN "verifying" ELSE "opening"
<1>1. pc[c] = "locking" /\ pc[c] \in Steps
  BY DEF LockTarget, Steps
<1>2. CallOK(call[c], pc[c]) /\ call[c] \in Call
  BY <1>1, CallFacts
<1>3. /\ t \in Left(call[c]) /\ t \in Target
      /\ \A u \in Left(call[c]) : t <= u
  BY <1>1, <1>2, NextIsLeast DEF CallOK
<1>4. call[c].fd \in 1..MaxInodes /\ call[c].locks \in Partial(Target, 1..MaxInodes)
  BY <1>1, <1>2, SnapshotAssumption DEF CallOK, Call
<1>5. locks \in Partial(Target, 1..MaxInodes)
  BY <1>3, <1>4, PartialPut
<1>6. DOMAIN locks = DOMAIN call[c].locks \union {t}
  OBVIOUS
<1> HIDE DEF locks
<1>7. /\ k \in Call
      /\ k.files = call[c].files /\ k.bytes = call[c].bytes /\ k.done = call[c].done
      /\ k.locks = locks
  BY <1>2, <1>5 DEF Call
<1> HIDE DEF k
<1>8. Left(k) = Left(call[c]) \ {t}
  BY <1>6, <1>7 DEF Left
<1>9. Unlocked(c) = Left(call[c])
  BY DEF Unlocked, Left
<1>10. Left(call[c]) \subseteq Nat
  <2>1. call[c].files \in Seq(Target)
    BY <1>2 DEF Call
  <2>2. QED
    BY <2>1, SeqFacts, SnapshotAssumption DEF Left
<1>11. \A u \in Left(k) : t < u
  BY <1>3, <1>8, <1>10
<1>12. \A s \in DOMAIN k.locks, u \in Left(k) : s < u
  BY <1>1, <1>2, <1>6, <1>7, <1>8, <1>11 DEF CallOK
<1>13. p = "opening" => Left(k) # {}
  BY <1>3, <1>8, <1>9
<1>14. k.done = 0 /\ k.files # <<>> /\ Len(k.bytes) = Len(k.files) /\ k.done < Len(k.files)
  BY <1>1, <1>2, <1>7 DEF CallOK, Early
<1>15. p = "verifying" \/ p = "opening"
  BY Zenon
<1> HIDE DEF p
<1>16. CallOK(k, p)
  BY <1>7, <1>12, <1>13, <1>14, <1>15 DEF CallOK
<1>17. p \in Steps \ Making
  BY <1>15 DEF Steps, Making
<1>18. call' = [call EXCEPT ![c] = k] /\ pc' = [pc EXCEPT ![c] = p]
  BY DEF LockTarget, k, p, locks
<1>19. calls' \in 0..MaxCalls /\ UNCHANGED <<file, dir, doomed, now>>
  BY DEF LockTarget, SnapInv, CountsOK
<1>20. QED
  BY <1>16, <1>17, <1>18, <1>19, GoOnStep

\* The steps that end a call and change no file or directory.
LEMMA EndingSteps ==
  ASSUME SnapInv, NEW c \in Caller,
         LockBusy(c) \/ StaleEtag(c) \/ DirExists(c) \/ BadPayload(c) \/ StepFails(c)
  PROVE  SnapInv'
<1>1. \E reply \in Resting : Return(c, reply)
  BY DEF LockBusy, StaleEtag, DirExists, BadPayload, StepFails, Resting, Refusals
<1>2. UNCHANGED <<file, dir, calls, doomed, now>>
  BY DEF LockBusy, StaleEtag, DirExists, BadPayload, StepFails
<1>3. QED
  BY <1>1, <1>2, ReturnStep

\* The ETag or the payloads are right: the record stays as it is.
LEMMA CheckingSteps ==
  ASSUME SnapInv, NEW c \in Caller, VerifyEtag(c) \/ CheckPayloads(c)
  PROVE  SnapInv'
<1>1. pc[c] \in {"verifying", "checking"} /\ pc[c] \in Steps
  BY DEF VerifyEtag, CheckPayloads, Goto, Steps
<1>2. CallOK(call[c], pc[c])
  BY <1>1, CallFacts
<1>3. PICK p \in {"naming", "checking", "replacing"} : pc' = [pc EXCEPT ![c] = p]
  BY DEF VerifyEtag, CheckPayloads, Goto
<1>4. CallOK(call[c], p)
  BY <1>1, <1>2, <1>3 DEF CallOK, Early
<1>5. call' = [call EXCEPT ![c] = call[c]]
  BY DEF VerifyEtag, CheckPayloads, SnapInv, CallsOK
<1>6. p \in Steps \ Making
  BY <1>3 DEF Steps, Making
<1>7. calls' \in 0..MaxCalls /\ UNCHANGED <<file, dir, doomed, now>>
  BY DEF VerifyEtag, CheckPayloads, SnapInv, CountsOK
<1>8. QED
  BY <1>3, <1>4, <1>5, <1>6, <1>7, GoOnStep

-----------------------------------------------------------------------------
(* The making of a snapshot                                                *)

\* A directory is written.
LEMMA DirWritten ==
  ASSUME DirsOK, NEW id \in Id, NEW D \in Dir, dir' = [dir EXCEPT ![id] = D],
         doomed' = doomed
  PROVE  DirsOK' /\ dir'[id] = D /\ \A o \in Id \ {id} : dir'[o] = dir[o]
<1>1. D # NoDir
  BY SnapshotAssumption
<1>2. dir' \in [Id -> Dir \union {NoDir}]
  BY DEF DirsOK
<1>3. dir'[id] = D /\ \A o \in Id \ {id} : dir'[o] = dir[o]
  BY DEF DirsOK
<1>4. \A o \in doomed : dir'[o] # NoDir
  BY <1>1, <1>3 DEF DirsOK, Exists
<1>5. doomed' \subseteq {o \in Id : Exists(o)'}
  BY <1>4 DEF DirsOK, Exists
<1>6. QED
  BY <1>2, <1>3, <1>5 DEF DirsOK

\* A payload file is created or filled in a directory that is there.
LEMMA PayloadPut ==
  ASSUME DirsOK, NEW id \in Id, dir[id] # NoDir, NEW t \in Target,
         NEW bytes \in Content \union {Torn}, PutPayload(id, Flat[t], bytes)
  PROVE  \E D \in Dir :
           /\ dir' = [dir EXCEPT ![id] = D]
           /\ D.manifest = dir[id].manifest /\ D.ts = dir[id].ts
           /\ D.payload = [n \in DOMAIN dir[id].payload \union {Flat[t]} |->
                            IF n = Flat[t] THEN bytes ELSE dir[id].payload[n]]
<1> DEFINE Names == {Flat[u] : u \in Target}
           payload == [n \in DOMAIN dir[id].payload \union {Flat[t]} |->
                         IF n = Flat[t] THEN bytes ELSE dir[id].payload[n]]
           D == [dir[id] EXCEPT !.payload = payload]
<1>1. dir[id] \in Dir
  BY DEF DirsOK
<1>2. dir[id].payload \in Partial(Names, Content \union {Torn})
  BY <1>1 DEF Dir
<1>3. Flat[t] \in Names
  OBVIOUS
<1> HIDE DEF Names
<1>4. payload \in Partial(Names, Content \union {Torn})
  BY <1>2, <1>3, PartialPut
<1>5. dir' = [dir EXCEPT ![id] = D]
  BY DEF PutPayload
<1> HIDE DEF payload
<1>6. D \in Dir /\ D.manifest = dir[id].manifest /\ D.ts = dir[id].ts /\ D.payload = payload
  BY <1>1, <1>4 DEF Dir, Names
<1>7. QED
  BY <1>5, <1>6 DEF payload

\* A step of a call within the making of its snapshot.
LEMMA MakingStep ==
  ASSUME SnapInv, NEW c \in Caller, NEW k, NEW p \in Making, NEW D \in Dir,
         CallOK(k, p), call' = [call EXCEPT ![c] = k], pc' = [pc EXCEPT ![c] = p],
         pc[c] \in Making, k.id = call[c].id,
         dir' = [dir EXCEPT ![call[c].id] = D], D.manifest \in {NoManifest, Torn},
         UNCHANGED <<file, calls, doomed, now>>
  PROVE  SnapInv'
<1>1. CallsOK'
  BY CallGoesOn, StepNames DEF SnapInv
<1>2. call[c].id \in Id /\ D # NoDir
  BY CallFacts, StepNames, SnapshotAssumption
<1>3. DirsOK' /\ dir'[call[c].id] = D /\ \A o \in Id \ {call[c].id} : dir'[o] = dir[o]
  BY <1>2, DirWritten DEF SnapInv
<1>4. \A d \in Caller : /\ pc'[d] \in Making <=> pc[d] \in Making
                        /\ pc[d] \in Making => call'[d].id = call[d].id
  BY DEF SnapInv, CallsOK
<1>5. \A d \in Caller : pc[d] \in Making => call[d].id \in Id
  BY CallFacts, StepNames
<1>6. OwnDir'
  <2> SUFFICES ASSUME NEW d \in Caller, pc[d] \in Making
               PROVE  /\ dir'[call[d].id] # NoDir
                      /\ dir'[call[d].id].manifest \in {NoManifest, Torn}
                      /\ call[d].id \notin doomed
                      /\ \A e \in Caller : pc[e] \in Making /\ call[e].id = call[d].id => e = d
    BY <1>4 DEF OwnDir
  <2>1. CASE d = c
    BY <1>2, <1>3, <2>1 DEF SnapInv, OwnDir
  <2>2. CASE d # c
    <3>1. call[d].id # call[c].id
      BY <2>2 DEF SnapInv, OwnDir
    <3>2. dir'[call[d].id] = dir[call[d].id]
      BY <1>3, <1>5, <3>1
    <3>3. QED
      BY <3>2 DEF SnapInv, OwnDir
  <2>3. QED
    BY <2>1, <2>2
<1>7. FilesOK' /\ CountsOK'
  BY DEF SnapInv, FilesOK, CountsOK
<1>8. QED
  BY <1>1, <1>3, <1>6, <1>7 DEF SnapInv

\* create_dir: the id was free, so it is nobody else's and not the reaper's.
LEMMA MakeDirStep ==
  ASSUME SnapInv, NEW c \in Caller, MakeDir(c)
  PROVE  SnapInv'
<1> DEFINE D == [ts |-> now, payload |-> [n \in {} |-> Torn], manifest |-> NoManifest,
                 durable |-> FALSE]
<1>1. pc[c] = "naming" /\ pc[c] \in Steps /\ dir[call[c].id] = NoDir
  BY DEF MakeDir, Goto, Steps, Exists
<1>2. CallOK(call[c], pc[c]) /\ call[c].id \in Id
  BY <1>1, CallFacts
<1>3. [n \in {} |-> Torn] \in Partial({Flat[t] : t \in Target}, Content \union {Torn})
  BY PartialNone
<1>4. D \in Dir /\ D.manifest = NoManifest
  BY <1>3 DEF Dir, SnapInv, CountsOK
<1>5. dir' = [dir EXCEPT ![call[c].id] = D]
  BY DEF MakeDir
<1> HIDE DEF D
<1>6. DirsOK' /\ dir'[call[c].id] = D /\ \A o \in Id \ {call[c].id} : dir'[o] = dir[o]
  BY <1>2, <1>4, <1>5, DirWritten DEF SnapInv, MakeDir
<1>7. CallOK(call[c], "payload")
  BY <1>1, <1>2 DEF CallOK, Early
<1>8. call' = [call EXCEPT ![c] = call[c]] /\ pc' = [pc EXCEPT ![c] = "payload"]
  BY DEF MakeDir, Goto, SnapInv, CallsOK
<1>9. "payload" \in Steps
  BY DEF Steps
<1>10. CallsOK'
  BY <1>7, <1>8, <1>9, CallGoesOn DEF SnapInv
<1>11. call' = call /\ doomed' = doomed
  BY DEF MakeDir
<1>12. \A d \in Caller \ {c} : pc'[d] = pc[d]
  BY <1>8 DEF SnapInv, CallsOK
<1>13. \A d \in Caller \ {c} : pc[d] \in Making => call[d].id \in Id /\ call[d].id # call[c].id
  BY <1>1, CallFacts, StepNames DEF SnapInv, OwnDir
<1>14. call[c].id \notin doomed
  BY <1>1 DEF SnapInv, DirsOK, Exists
<1>15. D # NoDir
  BY <1>4, SnapshotAssumption
<1>16. OwnDir'
  BY <1>4, <1>6, <1>11, <1>12, <1>13, <1>14, <1>15 DEF SnapInv, OwnDir
<1>17. FilesOK' /\ CountsOK'
  BY DEF MakeDir, SnapInv, FilesOK, CountsOK
<1>18. QED
  BY <1>6, <1>10, <1>16, <1>17 DEF SnapInv

\* What a call within the making of its snapshot may rely on.
LEMMA MakingFacts ==
  ASSUME SnapInv, NEW c \in Caller, pc[c] \in Making
  PROVE  /\ CallOK(call[c], pc[c]) /\ call[c] \in Call
         /\ call[c].id \in Id /\ DirsOK
         /\ dir[call[c].id] # NoDir /\ dir[call[c].id] \in Dir
         /\ dir[call[c].id].manifest \in {NoManifest, Torn}
         /\ call[c].files[call[c].done + 1] \in Target
         /\ \A i \in DOMAIN call[c].files :
              call[c].files[i] \in Target /\ Captured(c, i) \in Content
<1>1. pc[c] \in Steps
  BY StepNames
<1>2. /\ dir[call[c].id] # NoDir
      /\ dir[call[c].id].manifest \in {NoManifest, Torn}
  BY DEF SnapInv, OwnDir
<1>3. call[c].id \in Id /\ DirsOK
  BY <1>1, CallFacts DEF SnapInv
<1>4. \A i \in DOMAIN call[c].files : call[c].files[i] \in Target /\ call[c].bytes[i] \in Content
  BY <1>1, CallFacts, ElementOfSeq, SeqFacts
<1>5. \A i \in DOMAIN call[c].files : Captured(c, i) \in Content
  BY <1>1, <1>4, CallFacts DEF Captured
<1>6. QED
  BY <1>1, <1>2, <1>3, <1>4, <1>5, CallFacts DEF DirsOK

\* fs::write of a payload file creates it.
LEMMA CreatePayloadStep ==
  ASSUME SnapInv, NEW c \in Caller, CreatePayload(c)
  PROVE  SnapInv'
<1>1. pc[c] = "payload" /\ pc[c] \in Making
  BY DEF CreatePayload, Goto, Making
<1>2. PICK D \in Dir : /\ dir' = [dir EXCEPT ![call[c].id] = D]
                       /\ D.manifest = dir[call[c].id].manifest
  BY <1>1, MakingFacts, PayloadPut DEF CreatePayload
<1>3. CallOK(call[c], "filling") /\ "filling" \in Making
  BY <1>1, MakingFacts DEF CallOK, Early, Making
<1>4. call' = [call EXCEPT ![c] = call[c]] /\ pc' = [pc EXCEPT ![c] = "filling"]
  BY DEF CreatePayload, Goto, SnapInv, CallsOK
<1>5. UNCHANGED <<file, calls, doomed, now>>
  BY DEF CreatePayload
<1>6. D.manifest \in {NoManifest, Torn}
  BY <1>1, <1>2, MakingFacts
<1>7. QED
  BY <1>1, <1>2, <1>3, <1>4, <1>5, <1>6, MakingStep

\* ... and fills it: the next file, or the manifest, is due.
LEMMA FillPayloadStep ==
  ASSUME SnapInv, NEW c \in Caller, FillPayload(c)
  PROVE  SnapInv'
<1> DEFINE i == call[c].done + 1
           last == i = Len(call[c].files)
           n == IF last THEN 0 ELSE i
           k == [call[c] EXCEPT !.done = n]
           p == IF last THEN "manifest" ELSE "payload"
<1>1. pc[c] = "filling" /\ pc[c] \in Making /\ pc[c] \in Steps
  BY DEF FillPayload, Goto, Making, Steps
<1>2. CallOK(call[c], pc[c]) /\ call[c] \in Call
  BY <1>1, MakingFacts
<1>3. i \in DOMAIN call[c].files /\ Len(call[c].files) \in Nat /\ call[c].done \in Nat
  BY <1>1, CallFacts, SeqFacts
<1>4. Captured(c, i) \in Content \union {Torn} /\ call[c].files[i] \in Target
  BY <1>1, <1>3, MakingFacts
<1>5. PutPayload(call[c].id, Flat[call[c].files[i]], Captured(c, i))
  BY DEF FillPayload
<1>6. n \in Nat /\ n < Len(call[c].files)
  BY <1>2, <1>3 DEF CallOK
<1>7. call' = [call EXCEPT ![c] = k] /\ pc' = [pc EXCEPT ![c] = p]
  BY DEF FillPayload, Goto
<1>8. p \in Making
  BY Zenon DEF Making
<1> HIDE DEF n, p, i, last
<1>9. /\ k \in Call /\ k.id = call[c].id /\ k.files = call[c].files
      /\ k.bytes = call[c].bytes /\ k.done = n
  BY <1>2, <1>6 DEF Call
<1> HIDE DEF k
<1>10. p \notin Early /\ p \notin {"opening", "locking"}
  BY <1>8 DEF Making, Early
<1>11. CallOK(k, p)
  BY <1>2, <1>6, <1>9, <1>10 DEF CallOK
<1>12. PICK D \in Dir : /\ dir' = [dir EXCEPT ![call[c].id] = D]
                        /\ D.manifest = dir[call[c].id].manifest
  BY <1>1, <1>4, <1>5, MakingFacts, PayloadPut
<1>13. D.manifest \in {NoManifest, Torn}
  BY <1>1, <1>12, MakingFacts
<1>14. UNCHANGED <<file, calls, doomed, now>>
  BY DEF FillPayload
<1>15. QED
  BY <1>1, <1>7, <1>8, <1>9, <1>11, <1>12, <1>13, <1>14, MakingStep

\* The manifest file is created.
LEMMA CreateManifestStep ==
  ASSUME SnapInv, NEW c \in Caller, CreateManifest(c)
  PROVE  SnapInv'
<1> DEFINE D == [dir[call[c].id] EXCEPT !.manifest = Torn]
<1>1. pc[c] = "manifest" /\ pc[c] \in Making
  BY DEF CreateManifest, Goto, Making
<1>2. dir[call[c].id] \in Dir
  BY <1>1, MakingFacts
<1>3. D \in Dir /\ D.manifest = Torn
  BY <1>2 DEF Dir
<1>4. CallOK(call[c], "sealing") /\ "sealing" \in Making
  BY <1>1, MakingFacts DEF CallOK, Early, Making
<1>5. /\ call' = [call EXCEPT ![c] = call[c]] /\ pc' = [pc EXCEPT ![c] = "sealing"]
      /\ dir' = [dir EXCEPT ![call[c].id] = D]
  BY DEF CreateManifest, Goto, SnapInv, CallsOK
<1>6. UNCHANGED <<file, calls, doomed, now>>
  BY DEF CreateManifest
<1> HIDE DEF D
<1>7. QED
  BY <1>1, <1>3, <1>4, <1>5, <1>6, MakingStep

\* The manifest is filled: the directory is finished, and the call leaves it.
LEMMA FillManifestStep ==
  ASSUME SnapInv, NEW c \in Caller, FillManifest(c)
  PROVE  SnapInv'
<1> DEFINE manifest == [i \in DOMAIN call[c].files |->
                          [path |-> call[c].files[i], sha256 |-> Captured(c, i)]]
           D == [dir[call[c].id] EXCEPT !.manifest = manifest]
<1>1. pc[c] = "sealing" /\ pc[c] \in Making /\ pc[c] \in Steps
  BY DEF FillManifest, Goto, Making, Steps
<1>2. /\ Len(call[c].files) \in Nat /\ DOMAIN call[c].files = 1..Len(call[c].files)
  BY <1>1, CallFacts, SeqFacts
<1>3. manifest \in [1..Len(call[c].files) -> Row]
  BY <1>1, <1>2, MakingFacts DEF Row
<1>4. manifest \in Seq(Row)
  BY <1>2, <1>3, FunctionIsSeq
<1>5. dir' = [dir EXCEPT ![call[c].id] = D]
  BY DEF FillManifest
<1> HIDE DEF manifest
<1>6. D \in Dir
  BY <1>1, <1>4, MakingFacts DEF Dir
<1> HIDE DEF D
<1>7. DirsOK' /\ \A o \in Id \ {call[c].id} : dir'[o] = dir[o]
  BY <1>1, <1>5, <1>6, MakingFacts, DirWritten DEF FillManifest
<1>8. CallsOK' /\ pc'[c] \notin Making
  <2>1. CASE pc' = [pc EXCEPT ![c] = "replacing"] /\ call' = call
    <3>1. CallOK(call[c], "replacing") /\ "replacing" \in Steps
      BY <1>1, CallFacts DEF CallOK, Early, Steps
    <3>2. call' = [call EXCEPT ![c] = call[c]]
      BY <2>1 DEF SnapInv, CallsOK
    <3>3. CallsOK'
      BY <2>1, <3>1, <3>2, CallGoesOn DEF SnapInv
    <3>4. pc'[c] = "replacing"
      BY <2>1 DEF SnapInv, CallsOK
    <3>5. QED
      BY <3>3, <3>4 DEF Making
  <2>2. CASE Return(c, "ok")
    <3>1. CallsOK'
      BY <2>2, CallReturns DEF SnapInv, Resting
    <3>2. pc'[c] = "ok"
      BY <2>2 DEF SnapInv, CallsOK, Return
    <3>3. QED
      BY <3>1, <3>2 DEF Making
  <2>3. QED
    BY <2>1, <2>2 DEF FillManifest, Goto
<1>9. \A d \in Caller \ {c} : pc'[d] = pc[d] /\ call'[d] = call[d]
  BY DEF FillManifest, Goto, Return, SnapInv, CallsOK
<1>10. doomed' = doomed
  BY DEF FillManifest
<1>11. \A d \in Caller \ {c} : pc[d] \in Making => call[d].id \in Id /\ call[d].id # call[c].id
  BY <1>1, CallFacts, StepNames DEF SnapInv, OwnDir
<1>12. OwnDir'
  BY <1>7, <1>8, <1>9, <1>10, <1>11 DEF SnapInv, OwnDir
<1>13. FilesOK' /\ CountsOK'
  BY DEF FillManifest, SnapInv, FilesOK, CountsOK
<1>14. QED
  BY <1>7, <1>8, <1>12, <1>13 DEF SnapInv

\* A target gets a new inode.
LEMMA ReplaceTargetStep ==
  ASSUME SnapInv, NEW c \in Caller, ReplaceTarget(c)
  PROVE  SnapInv'
<1> DEFINE i == call[c].done + 1
           t == call[c].files[i]
<1>1. pc[c] = "replacing" /\ pc[c] \in Steps /\ pc[c] \notin Making
  BY DEF ReplaceTarget, Steps, Making
<1>2. i \in DOMAIN call[c].files /\ CallOK(call[c], pc[c]) /\ call[c] \in Call
  BY <1>1, CallFacts
<1>3. t \in Target /\ call[c].bytes[i] \in Content
  BY <1>1, <1>2, CallFacts, SeqFacts
<1>4. file' = [file EXCEPT ![t] = Append(file[t], call[c].bytes[i])] /\ Len(file[t]) < MaxInodes
  BY DEF ReplaceTarget
<1>5. file[t] \in Seq(Content) /\ Len(file[t]) \in 1..MaxInodes
  BY <1>3 DEF SnapInv, FilesOK
<1> DEFINE s == Append(file[t], call[c].bytes[i])
<1>6. s \in Seq(Content) /\ Len(s) \in 1..MaxInodes
  BY <1>3, <1>4, <1>5, AppendProperties, SnapshotAssumption, SMTT(30)
<1> HIDE DEF s
<1>7. file' = [file EXCEPT ![t] = s]
  BY <1>4 DEF s
<1> HIDE DEF t
<1>8. FilesOK'
  BY <1>3, <1>6, <1>7 DEF SnapInv, FilesOK
<1>9. UNCHANGED <<dir, calls, doomed, now>>
  BY DEF ReplaceTarget
<1>10. CallsOK' /\ OwnDir'
  <2>1. CASE i = Len(call[c].files)
    <3>1. \E reply \in Resting : Return(c, reply)
      BY <2>1 DEF ReplaceTarget, Resting
    <3>2. QED
      BY <1>9, <3>1, CallReturns, ReturnKeepsOwnDir DEF SnapInv
  <2>2. CASE i # Len(call[c].files)
    <3> DEFINE k == [call[c] EXCEPT !.done = i]
    <3>1. call' = [call EXCEPT ![c] = k] /\ pc' = [pc EXCEPT ![c] = "replacing"]
      BY <1>1, <2>2 DEF ReplaceTarget, SnapInv, CallsOK
    <3>2. i \in Nat /\ i < Len(call[c].files)
      BY <1>1, <1>2, <2>2, CallFacts, SeqFacts DEF CallOK
    <3>3. /\ k \in Call /\ k.files = call[c].files
          /\ k.bytes = call[c].bytes /\ k.done = i
      BY <1>2, <3>2 DEF Call
    <3> HIDE DEF k
    <3>4. CallOK(k, "replacing") /\ "replacing" \in Steps
      BY <1>2, <3>2, <3>3 DEF CallOK, Early, Steps
    <3>5. CallsOK'
      BY <3>1, <3>4, CallGoesOn DEF SnapInv
    <3>6. \A d \in Caller : pc'[d] \in Making => pc[d] \in Making /\ call'[d].id = call[d].id
      BY <1>1, <3>1 DEF SnapInv, CallsOK
    <3>7. OwnDir'
      BY <1>9, <3>6, OwnDirKept DEF SnapInv
    <3>8. QED
      BY <3>5, <3>7
  <2>3. QED
    BY <2>1, <2>2
<1>11. DirsOK' /\ CountsOK'
  BY <1>9 DEF SnapInv, DirsOK, CountsOK, Exists
<1>12. QED
  BY <1>8, <1>10, <1>11 DEF SnapInv

-----------------------------------------------------------------------------
(* The reaper and the environment                                          *)

\* The reaper picks finished snapshots only.
LEMMA ReapStep ==
  ASSUME SnapInv, Reap
  PROVE  SnapInv'
<1>1. doomed' \subseteq Listed /\ UNCHANGED <<file, dir, call, calls, pc, now>>
  BY DEF Reap
<1>2. \A id \in Listed : id \in Id /\ Exists(id) /\ dir[id].manifest \notin {NoManifest, Torn}
  BY DEF Listed, Sealed, HasManifest
<1>3. FilesOK' /\ DirsOK' /\ CountsOK' /\ CallsOK'
  BY <1>1, <1>2 DEF SnapInv, FilesOK, DirsOK, CountsOK, CallsOK, Exists
<1>4. OwnDir'
  BY <1>1, <1>2 DEF SnapInv, OwnDir
<1>5. QED
  BY <1>3, <1>4 DEF SnapInv

\* A directory entry of a doomed snapshot is removed: no call is making it.
LEMMA ReapEntryStep ==
  ASSUME SnapInv, ReapEntry
  PROVE  SnapInv'
<1>1. PICK id \in doomed :
        /\ \/ /\ \E n \in DOMAIN dir[id].payload :
                  dir' = [dir EXCEPT ![id].payload =
                            [m \in DOMAIN dir[id].payload \ {n} |-> dir[id].payload[m]]]
              /\ UNCHANGED doomed
           \/ /\ dir[id].manifest # NoManifest
              /\ dir' = [dir EXCEPT ![id].manifest = NoManifest]
              /\ UNCHANGED doomed
           \/ /\ dir' = [dir EXCEPT ![id] = NoDir]
              /\ doomed' = doomed \ {id}
        /\ UNCHANGED <<file, call, calls, pc, now>>
  BY DEF ReapEntry
<1>2. id \in Id /\ dir[id] \in Dir /\ DirsOK
  BY DEF SnapInv, DirsOK, Exists
<1>3. DirsOK' /\ (\A o \in Id \ {id} : dir'[o] = dir[o]) /\ doomed' \subseteq doomed
  <2>1. ASSUME NEW n \in DOMAIN dir[id].payload,
               dir' = [dir EXCEPT ![id].payload =
                         [m \in DOMAIN dir[id].payload \ {n} |-> dir[id].payload[m]]],
               doomed' = doomed
        PROVE  DirsOK' /\ \A o \in Id \ {id} : dir'[o] = dir[o]
    <3> DEFINE Names == {Flat[t] : t \in Target}
               payload == [m \in DOMAIN dir[id].payload \ {n} |-> dir[id].payload[m]]
               D == [dir[id] EXCEPT !.payload = payload]
    <3>1. dir[id].payload \in Partial(Names, Content \union {Torn})
      BY <1>2 DEF Dir
    <3> HIDE DEF Names
    <3>2. payload \in Partial(Names, Content \union {Torn})
      BY <3>1, PartialTake
    <3>3. dir' = [dir EXCEPT ![id] = D]
      BY <2>1
    <3> HIDE DEF payload
    <3>4. D \in Dir
      BY <1>2, <3>2 DEF Dir, Names
    <3> HIDE DEF D
    <3>5. QED
      BY <1>2, <2>1, <3>3, <3>4, DirWritten
  <2>2. ASSUME dir' = [dir EXCEPT ![id].manifest = NoManifest], doomed' = doomed
        PROVE  DirsOK' /\ \A o \in Id \ {id} : dir'[o] = dir[o]
    <3> DEFINE D == [dir[id] EXCEPT !.manifest = NoManifest]
    <3>1. D \in Dir
      BY <1>2 DEF Dir
    <3>2. dir' = [dir EXCEPT ![id] = D]
      BY <2>2
    <3> HIDE DEF D
    <3>3. QED
      BY <1>2, <2>2, <3>1, <3>2, DirWritten
  <2>3. ASSUME dir' = [dir EXCEPT ![id] = NoDir], doomed' = doomed \ {id}
        PROVE  DirsOK' /\ \A o \in Id \ {id} : dir'[o] = dir[o]
    BY <1>2, <2>3 DEF DirsOK, Exists
  <2>4. QED
    BY <1>1, <2>1, <2>2, <2>3
<1>4. \A d \in Caller : pc[d] \in Making => call[d].id \in Id /\ call[d].id # id
  BY CallFacts, StepNames DEF SnapInv, OwnDir
<1>5. OwnDir'
  BY <1>1, <1>3, <1>4 DEF SnapInv, OwnDir
<1>6. FilesOK' /\ CountsOK' /\ CallsOK'
  BY <1>1 DEF SnapInv, FilesOK, CountsOK, CallsOK
<1>7. QED
  BY <1>3, <1>5, <1>6 DEF SnapInv

\* When the daemon dies no call is left.
LEMMA VanishLeaves ==
  ASSUME SnapInv, Vanish
  PROVE  FilesOK' /\ CountsOK' /\ CallsOK' /\ OwnDir' /\ doomed' = {}
<1>1. /\ call' = [c \in Caller |-> NoCall]
      /\ pc' = [c \in Caller |-> IF pc[c] \in Steps THEN "idle" ELSE pc[c]]
  BY DEF Vanish
<1>2. pc' \in [Caller -> Resting]
  BY <1>1, StepNames DEF SnapInv, CallsOK, Resting
<1>3. \A c \in Caller : pc'[c] \notin Steps /\ pc'[c] \notin Making /\ call'[c] = NoCall
  BY <1>1, <1>2, StepNames
<1>4. CallsOK' /\ OwnDir'
  BY <1>1, <1>2, <1>3 DEF CallsOK, OwnDir
<1>5. QED
  BY <1>4 DEF Vanish, SnapInv, FilesOK, CountsOK

\* Time passes, snapshots reach the disk, the daemon dies, the power fails.
LEMMA EnvironmentSteps ==
  ASSUME SnapInv, ReapFails \/ Tick \/ Writeback \/ Crash \/ PowerCut
  PROVE  SnapInv'
<1>1. CASE ReapFails
  BY <1>1 DEF ReapFails, SnapInv, FilesOK, DirsOK, CountsOK, CallsOK, OwnDir, Exists
<1>2. CASE Tick
  <2>1. CountsOK'
    BY <1>2, SnapshotAssumption DEF Tick, SnapInv, CountsOK
  <2>2. QED
    BY <1>2, <2>1 DEF Tick, SnapInv, FilesOK, DirsOK, CallsOK, OwnDir, Exists
<1>3. CASE Writeback
  <2>1. PICK id \in Id : Whole(id) /\ dir' = [dir EXCEPT ![id].durable = TRUE]
    BY <1>3 DEF Writeback
  <2> DEFINE D == [dir[id] EXCEPT !.durable = TRUE]
  <2>2. dir[id] \in Dir /\ dir[id].manifest \notin {NoManifest, Torn} /\ DirsOK
    BY <2>1 DEF Whole, Sealed, HasManifest, Exists, SnapInv, DirsOK
  <2>3. D \in Dir /\ dir' = [dir EXCEPT ![id] = D]
    BY <2>1, <2>2 DEF Dir
  <2> HIDE DEF D
  <2>4. DirsOK' /\ \A o \in Id \ {id} : dir'[o] = dir[o]
    BY <1>3, <2>2, <2>3, DirWritten DEF Writeback
  <2>5. UNCHANGED <<file, call, calls, pc, doomed, now>>
    BY <1>3 DEF Writeback
  <2>6. \A d \in Caller : pc[d] \in Making => call[d].id \in Id /\ call[d].id # id
    BY <2>2, MakingFacts
  <2>7. OwnDir'
    BY <2>4, <2>5, <2>6 DEF SnapInv, OwnDir
  <2>8. QED
    BY <2>4, <2>5, <2>7 DEF SnapInv, FilesOK, CountsOK, CallsOK
<1>4. CASE Crash
  <2>1. DirsOK'
    BY <1>4, VanishLeaves DEF Crash, SnapInv, DirsOK
  <2>2. QED
    BY <1>4, <2>1, VanishLeaves DEF Crash, SnapInv
<1>5. CASE PowerCut
  <2>1. PICK lost \in SUBSET {id \in Id : Exists(id)} :
          dir' = [id \in Id |->
                    IF id \in lost
                    THEN [dir[id] EXCEPT !.payload = [n \in DOMAIN dir[id].payload |-> Torn]]
                    ELSE dir[id]]
    BY <1>5 DEF PowerCut
  <2>2. ASSUME NEW id \in lost
        PROVE  [dir[id] EXCEPT !.payload = [n \in DOMAIN dir[id].payload |-> Torn]] \in Dir
    <3> DEFINE Names == {Flat[t] : t \in Target}
               payload == [n \in DOMAIN dir[id].payload |-> Torn]
    <3>1. dir[id] \in Dir
      BY DEF SnapInv, DirsOK, Exists
    <3>2. dir[id].payload \in Partial(Names, Content \union {Torn})
      BY <3>1 DEF Dir
    <3> HIDE DEF Names
    <3>3. payload \in Partial(Names, Content \union {Torn})
      BY <3>2, PartialAll
    <3> HIDE DEF payload
    <3>4. [dir[id] EXCEPT !.payload = payload] \in Dir
      BY <3>1, <3>3 DEF Dir, Names
    <3>5. QED
      BY <3>4 DEF payload
  <2>3. dir' \in [Id -> Dir \union {NoDir}]
    BY <2>1, <2>2, Zenon DEF SnapInv, DirsOK
  <2>4. DirsOK'
    BY <1>5, <2>3, VanishLeaves DEF PowerCut, DirsOK
  <2>5. QED
    BY <1>5, <2>4, VanishLeaves DEF PowerCut, SnapInv
<1>6. QED
  BY <1>1, <1>2, <1>3, <1>4, <1>5

-----------------------------------------------------------------------------
(* The theorems                                                            *)

\* SnapInv holds when the daemon starts.
LEMMA InitSnapInv == Init => SnapInv
<1> SUFFICES ASSUME Init
             PROVE  SnapInv
  OBVIOUS
<1>1. PICK bytes \in Installed : file = [t \in Target |-> <<bytes[t]>>]
  BY DEF Init
<1>2. \A t \in Target : <<bytes[t]>> \in Seq(Content) /\ Len(<<bytes[t]>>) = 1
  BY SnapshotAssumption
<1>3. FilesOK
  BY <1>1, <1>2, SnapshotAssumption DEF FilesOK
<1>4. DirsOK
  BY SnapshotAssumption DEF Init, DirsOK
<1>5. CountsOK
  BY SnapshotAssumption DEF Init, CountsOK
<1>6. CallsOK /\ OwnDir
  BY DEF Init, CallsOK, OwnDir, Resting, Refusals, Steps, Making
<1>7. QED
  BY <1>3, <1>4, <1>5, <1>6 DEF SnapInv

\* Every step of a call, the reaper or the machine keeps SnapInv.
LEMMA NextSnapInv == SnapInv /\ [Next]_vars => SnapInv'
<1> SUFFICES ASSUME SnapInv, [Next]_vars
             PROVE  SnapInv'
  OBVIOUS
<1>1. ASSUME NEW c \in Caller,
             \/ StartWrite(c) \/ StartCreate(c) \/ StartRestore(c) \/ RefuseRestore(c)
             \/ OpenTarget(c) \/ LockTarget(c)
      PROVE  SnapInv'
  BY <1>1, StartWriteStep, StartCreateStep, StartRestoreStep, RefuseRestoreStep,
     OpenTargetStep, LockTargetStep
<1>2. ASSUME NEW c \in Caller,
             \/ LockBusy(c) \/ StaleEtag(c) \/ DirExists(c) \/ BadPayload(c) \/ StepFails(c)
             \/ VerifyEtag(c) \/ CheckPayloads(c)
      PROVE  SnapInv'
  BY <1>2, EndingSteps, CheckingSteps
<1>3. ASSUME NEW c \in Caller,
             \/ MakeDir(c) \/ CreatePayload(c) \/ FillPayload(c)
             \/ CreateManifest(c) \/ FillManifest(c) \/ ReplaceTarget(c)
      PROVE  SnapInv'
  BY <1>3, MakeDirStep, CreatePayloadStep, FillPayloadStep, CreateManifestStep,
     FillManifestStep, ReplaceTargetStep
<1>4. ASSUME Reap \/ ReapEntry \/ ReapFails \/ Tick \/ Writeback \/ Crash \/ PowerCut
      PROVE  SnapInv'
  BY <1>4, ReapStep, ReapEntryStep, EnvironmentSteps
<1>5. CASE UNCHANGED vars
  BY <1>5 DEF vars, SnapInv, FilesOK, DirsOK, CountsOK, CallsOK, OwnDir, Exists
<1>6. QED
  BY <1>1, <1>2, <1>3, <1>4, <1>5 DEF Next

\* SnapInv is an invariant.
LEMMA SnapInvariant == Spec => []SnapInv
  BY InitSnapInv, NextSnapInv, PTL DEF Spec

\* Every variable keeps its type, whatever calls, reaper and machine do.
THEOREM TypeCorrect == Spec => []TypeOK
<1>1. SnapInv => TypeOK
  <2> SUFFICES ASSUME SnapInv
               PROVE  TypeOK
    OBVIOUS
  <2>1. call \in [Caller -> Call \union {NoCall}]
    BY DEF SnapInv, CallsOK
  <2>2. QED
    BY <2>1 DEF SnapInv, FilesOK, DirsOK, CountsOK, CallsOK, TypeOK
<1>2. QED
  BY <1>1, SnapInvariant, PTL

\* Of two calls that hold what the other is about to lock, each would have locked
\* a target that precedes all it has left.
THEOREM LocksAreOrdered == Spec => []NoMutualRefusal
<1>1. SnapInv => NoMutualRefusal
  <2> SUFFICES ASSUME SnapInv, NEW c \in Caller, NEW d \in Caller, Blocks(c, d), Blocks(d, c)
               PROVE  FALSE
    BY DEF NoMutualRefusal
  <2>1. /\ pc[c] = "locking" /\ pc[d] = "locking"
        /\ NextTarget(c) \in DOMAIN call[d].locks
        /\ NextTarget(d) \in DOMAIN call[c].locks
    BY DEF Blocks
  <2>2. pc[c] \in Steps /\ pc[d] \in Steps
    BY <2>1 DEF Steps
  <2>3. /\ CallOK(call[c], "locking") /\ CallOK(call[d], "locking")
        /\ call[c] \in Call /\ call[d] \in Call
    BY <2>1, <2>2, CallFacts
  <2>4. Left(call[c]) # {} /\ Left(call[d]) # {}
    BY <2>3 DEF CallOK
  <2>5. /\ NextTarget(c) \in Left(call[c]) /\ NextTarget(d) \in Left(call[d])
        /\ NextTarget(c) \in Nat /\ NextTarget(d) \in Nat
    BY <2>3, <2>4, NextIsLeast, SnapshotAssumption
  <2>6. NextTarget(c) < NextTarget(d) /\ NextTarget(d) < NextTarget(c)
    BY <2>1, <2>3, <2>5 DEF CallOK
  <2>7. QED
    BY <2>5, <2>6
<1>2. QED
  BY <1>1, SnapInvariant, PTL

\* A refused call has replaced nothing: the steps that refuse come before the first
\* replacement.
THEOREM RefusedTouchedNothing == Spec => RefusalTouchesNothing
<1>1. SnapInv /\ [Next]_vars =>
        [\A c \in Caller : pc[c] \in Steps /\ pc'[c] \in Refusals => call[c].done = 0]_vars
  <2> SUFFICES ASSUME SnapInv, Next, NEW c \in Caller, pc[c] \in Steps, pc'[c] \in Refusals
               PROVE  call[c].done = 0
    BY DEF vars
  <2>1. pc[c] \in {"locking", "verifying", "checking"} => call[c].done = 0
    BY CallFacts DEF CallOK, Early
  <2>2. pc'[c] \notin Steps /\ pc'[c] \notin {"idle", "ok", "SnapshotFailed"} /\ pc'[c] # pc[c]
    BY DEF Refusals, Steps
  <2>3. pc \in [Caller -> Resting \union Steps] /\ pc[c] \notin Resting
    BY StepNames DEF SnapInv, CallsOK
  <2>4. ASSUME NEW e \in Caller,
               \/ StartWrite(e) \/ StartCreate(e) \/ StartRestore(e) \/ RefuseRestore(e)
        PROVE  FALSE
    BY <2>2, <2>3, <2>4 DEF StartWrite, StartCreate, StartRestore, RefuseRestore, Start, Return
  <2>5. ASSUME NEW e \in Caller,
               \/ OpenTarget(e) \/ LockTarget(e) \/ VerifyEtag(e) \/ MakeDir(e) \/ DirExists(e)
               \/ CreatePayload(e) \/ FillPayload(e) \/ CreateManifest(e) \/ FillManifest(e)
               \/ CheckPayloads(e) \/ ReplaceTarget(e) \/ StepFails(e)
        PROVE  FALSE
    BY <2>2, <2>3, <2>5 DEF OpenTarget, LockTarget, VerifyEtag, MakeDir, DirExists, CreatePayload,
         FillPayload, CreateManifest, FillManifest, CheckPayloads, ReplaceTarget, StepFails,
         Goto, Return, Steps
  <2>6. ASSUME NEW e \in Caller, LockBusy(e) \/ StaleEtag(e) \/ BadPayload(e)
        PROVE  call[c].done = 0
    <3>1. e = c
      BY <2>2, <2>3, <2>6 DEF LockBusy, StaleEtag, BadPayload, Goto, Return
    <3>2. QED
      BY <2>1, <2>6, <3>1 DEF LockBusy, StaleEtag, BadPayload, Goto
  <2>7. ~(Reap \/ ReapEntry \/ ReapFails \/ Tick \/ Writeback \/ Crash \/ PowerCut)
    BY <2>2, <2>3 DEF Reap, ReapEntry, ReapFails, Tick, Writeback, Crash, PowerCut, Vanish
  <2>8. QED
    BY <2>4, <2>5, <2>6, <2>7 DEF Next
<1>2. QED
  BY <1>1, SnapInvariant, PTL DEF Spec, RefusalTouchesNothing
=============================================================================
