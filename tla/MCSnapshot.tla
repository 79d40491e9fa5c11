------------------------------ MODULE MCSnapshot ------------------------------
(***************************************************************************)
(* TLC instances of Snapshot: two targets whose manifest orders may differ *)
(* from their sorting order.                                               *)
(***************************************************************************)
EXTENDS Snapshot, TLC

CONSTANTS a, b, c1, c2

MCTarget == {1, 2}

\* Another path, which is not managed.
MCThreeTargets == {1, 2, 3}

\* Paths with different flat names.
MCFlat == <<"etc__default__grub", "boot__grub__grub.cfg", "etc__fstab">>

MCInstalled == {[t \in Target |-> a]}

MCCapture == {<<1, 2>>, <<2, 1>>}

MCOneFile == {<<1>>}

MCFirstTwo == {1, 2}

MCFreshRoot == {[id \in Id |-> NoDir]}

\* A complete snapshot of the files given.
MCSnap(files, bytes) ==
  [ts |-> 0, payload |-> [n \in {Flat[files[i]] : i \in DOMAIN files} |-> bytes],
   manifest |-> [i \in DOMAIN files |-> [path |-> files[i], sha256 |-> bytes]],
   durable |-> TRUE]

\* Two snapshots of both targets that name them in opposite orders, and a free id; or no
\* free id: a snapshot that names an unmanaged target, one that names a target twice and
\* one whose manifest a crash left half-written.
MCFound ==
  {<<MCSnap(<<1, 2>>, a), MCSnap(<<2, 1>>, b), NoDir>>,
   <<MCSnap(<<1, 3>>, a), MCSnap(<<2, 2>>, b), [MCSnap(<<1>>, a) EXCEPT !.manifest = Torn]>>}

\* The second caller has not come.
MCAlone == c2 \in Caller => call[c2] = NoCall /\ pc[c2] = "idle"

\* Nothing has happened to the snapshots but what the calls do.
MCQuiet ==
  /\ now = 0
  /\ doomed = {}
  /\ \A id \in Listed : Whole(id) /\ (dir[id].durable <=> id \in {1, 2})

\* The bound of the run of overlapping calls: a second caller comes only while the machine
\* and the reaper leave the snapshots alone, and a write is prompt.
MCOverlapBound == PromptWrites /\ (MCAlone \/ MCQuiet)
=============================================================================
