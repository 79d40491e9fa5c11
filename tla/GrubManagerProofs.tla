-------------------------- MODULE GrubManagerProofs --------------------------
(***************************************************************************)
(* Proofs about GrubManager for any number of callers, inodes, keys and    *)
(* calls.                                                                  *)
(***************************************************************************)
EXTENDS GrubManager, TLAPS

-----------------------------------------------------------------------------
(* Type correctness                                                        *)

\* What a call has at each step: typing alone is not inductive, because a
\* later step uses what an earlier one stored.
LocalsOK ==
  \A c \in Caller :
    /\ pc[c] \in Reading \union {"opened"} \union Writing => request[c] # NoRequest
    /\ pc[c] \in {"opened"} \union Writing \union (Applying \ {"generating"}) => fd[c] # NoInode
    /\ pc[c] \in Resting \union Reading \union {"rebuilding"} => fd[c] = NoInode
    /\ pc[c] \in {"created", "written"} => tfd[c] # NoInode
    /\ fd[c] # NoInode /\ pc[c] \notin {"opened", "locked"} => base[c] # NoBytes
    /\ fd[c] # NoInode => request[c] # NoRequest
    /\ pc[c] = "generating" => gen[c] # NoBytes

TypeInv == TypeOK /\ LocalsOK

\* The part of TypeOK about the failsafe entry.
EntryTyped ==
  /\ failsafe \in {"none", "empty", "part", "whole"}
  /\ failsafeTmp \in {"none", "empty", "part", "whole"}
  /\ ffd \in [Caller -> {"none", "tmp", "live", "lost"}]

States == Resting \union Reading \union InFlight

FullRequest == [change : Change, etag : Bytes, menu : Bytes \union {NoMenu}]

\* Editing a complete configuration yields a complete one.
LEMMA EditedWhole ==
  ASSUME NEW bytes \in Content, NEW change \in Change
  PROVE  Edited(bytes, change) \in Content
<1>1. \A k \in DOMAIN change : change[k] \in Value
  BY ConfigAssumption
<1>2. \A k \in Key : bytes[k] \in Value
  BY DEF Content
<1>3. QED
  BY <1>1, <1>2 DEF Edited, Content

\* Editing any bytes yields a complete configuration or Torn.
LEMMA EditedType ==
  ASSUME NEW bytes \in Bytes, NEW change \in Change
  PROVE  Edited(bytes, change) \in Content \union {Torn}
<1>1. CASE bytes \in Content
  BY <1>1, EditedWhole
<1>2. CASE bytes \notin Content
  BY <1>2 DEF Edited
<1>3. QED
  BY <1>1, <1>2

\* The bound is a number.
LEMMA MaxCallsType == MaxCalls \in Nat
  BY ConfigAssumption

\* TypeInv holds of the installed machine.
LEMMA InitTypeInv == Init => TypeInv
<1> SUFFICES ASSUME Init
             PROVE  TypeInv
  OBVIOUS
<1>1. /\ data \in [Inode -> Bytes]
      /\ grubCfg \in Bytes
  BY ConfigAssumption DEF Init, Bytes
<1>2. calls \in 0..MaxCalls
  BY MaxCallsType DEF Init
<1>3. EntryTyped
  BY DEF Init, EntryTyped
<1>4. /\ config \in Inode
      /\ tmp \in Inode \union {NoInode}
      /\ snapshots \subseteq Bytes
      /\ lock \in [Inode -> Caller \union {NoHolder, Package}]
      /\ pc \in [Caller -> Resting \union Reading \union InFlight]
  BY DEF Init, Resting
<1>5. /\ request \in [Caller -> Request]
      /\ fd \in [Caller -> Inode \union {NoInode}]
      /\ tfd \in [Caller -> Inode \union {NoInode}]
      /\ base \in [Caller -> Bytes \union {NoBytes}]
      /\ gen \in [Caller -> Bytes \union {NoBytes}]
  BY DEF Init, Request
<1>6. TypeOK
  BY <1>1, <1>2, <1>3, <1>4, <1>5 DEF TypeOK, EntryTyped
<1>7. LocalsOK
  BY DEF Init, LocalsOK, Resting, Reading, Errors, InFlight, Writing, Applying
<1>8. QED
  BY <1>6, <1>7 DEF TypeInv

\* A call that returns keeps the types, whatever its reply.
LEMMA ReturnTypeInv ==
  ASSUME TypeInv, NEW c \in Caller, NEW reply \in Resting, Return(c, reply),
         config' \in Inode, tmp' \in Inode \union {NoInode}, data' \in [Inode -> Bytes],
         snapshots' \subseteq Bytes, EntryTyped', grubCfg' \in Bytes
  PROVE  TypeInv'
<1>1. TypeOK'
  BY ConfigAssumption DEF TypeInv, TypeOK, EntryTyped, Return, Request
<1>2. LocalsOK'
  BY ConfigAssumption DEF TypeInv, TypeOK, LocalsOK, Return, Resting, Reading, Errors,
      InFlight, Writing, Applying
<1>3. QED
  BY <1>1, <1>2 DEF TypeInv

\* Every step of a client, a call, the package manager or a crash keeps TypeInv.
LEMMA NextTypeInv == TypeInv /\ [Next]_vars => TypeInv'
<1> SUFFICES ASSUME TypeInv, [Next]_vars
             PROVE  TypeInv'
  OBVIOUS
<1> USE DEF TypeInv
<1>1. ASSUME NEW c \in Caller, ReadConfig(c)
      PROVE  TypeInv'
  <2>1. TypeOK'
    BY <1>1, ConfigAssumption DEF TypeOK, LocalsOK, ReadConfig, Step, StartCall,
       files, locals, boot, entry, Request, Reading, Resting, InFlight, Writing, Applying
  <2>2. LocalsOK'
    BY <1>1, ConfigAssumption DEF TypeOK, LocalsOK, ReadConfig, Step, StartCall,
       files, locals, boot, entry, Request, Reading, Resting, Errors, InFlight, Writing, Applying
  <2>3. QED
    BY <2>1, <2>2
<1>2. ASSUME NEW c \in Caller, ListMenu(c)
      PROVE  TypeInv'
  <2>1. TypeOK'
    BY <1>2, ConfigAssumption DEF TypeOK, LocalsOK, ListMenu, Step, StartCall,
       files, locals, boot, entry, Request, Reading, Resting, InFlight, Writing, Applying
  <2>2. LocalsOK'
    BY <1>2, ConfigAssumption DEF TypeOK, LocalsOK, ListMenu, Step, StartCall,
       files, locals, boot, entry, Request, Reading, Resting, Errors, InFlight, Writing, Applying
  <2>3. QED
    BY <2>1, <2>2
<1>3. ASSUME NEW c \in Caller, OpenConfig(c)
      PROVE  TypeInv'
  <2>1. TypeOK'
    BY <1>3, ConfigAssumption DEF TypeOK, LocalsOK, OpenConfig, Step, StartCall,
       files, locals, boot, entry, Request, Reading, Resting, InFlight, Writing, Applying
  <2>2. LocalsOK'
    BY <1>3, ConfigAssumption DEF TypeOK, LocalsOK, OpenConfig, Step, StartCall,
       files, locals, boot, entry, Request, Reading, Resting, Errors, InFlight, Writing, Applying
  <2>3. QED
    BY <2>1, <2>2
<1>4. ASSUME NEW c \in Caller, Rebuild(c)
      PROVE  TypeInv'
  <2>1. TypeOK'
    BY <1>4, ConfigAssumption DEF TypeOK, LocalsOK, Rebuild, Step, StartCall,
       files, locals, boot, entry, Request, Reading, Resting, InFlight, Writing, Applying
  <2>2. LocalsOK'
    BY <1>4, ConfigAssumption DEF TypeOK, LocalsOK, Rebuild, Step, StartCall,
       files, locals, boot, entry, Request, Reading, Resting, Errors, InFlight, Writing, Applying
  <2>3. QED
    BY <2>1, <2>2
<1>5. ASSUME NEW c \in Caller, AcquireLock(c)
      PROVE  TypeInv'
  <2>1. TypeOK'
    BY <1>5, ConfigAssumption DEF TypeOK, LocalsOK, AcquireLock, Step, StartCall,
       files, locals, boot, entry, Request, Reading, Resting, InFlight, Writing, Applying
  <2>2. LocalsOK'
    BY <1>5, ConfigAssumption DEF TypeOK, LocalsOK, AcquireLock, Step, StartCall,
       files, locals, boot, entry, Request, Reading, Resting, Errors, InFlight, Writing, Applying
  <2>3. QED
    BY <2>1, <2>2
<1>6. ASSUME NEW c \in Caller, VerifyEtag(c)
      PROVE  TypeInv'
  <2>1. TypeOK'
    BY <1>6, ConfigAssumption DEF TypeOK, LocalsOK, VerifyEtag, Step, StartCall,
       files, locals, boot, entry, Request, Reading, Resting, InFlight, Writing, Applying
  <2>2. LocalsOK'
    BY <1>6, ConfigAssumption DEF TypeOK, LocalsOK, VerifyEtag, Step, StartCall,
       files, locals, boot, entry, Request, Reading, Resting, Errors, InFlight, Writing, Applying
  <2>3. QED
    BY <2>1, <2>2
<1>7. ASSUME NEW c \in Caller, ValidateMenu(c)
      PROVE  TypeInv'
  <2>1. TypeOK'
    BY <1>7, ConfigAssumption DEF TypeOK, LocalsOK, ValidateMenu, Step, StartCall,
       files, locals, boot, entry, Request, Reading, Resting, InFlight, Writing, Applying
  <2>2. LocalsOK'
    BY <1>7, ConfigAssumption DEF TypeOK, LocalsOK, ValidateMenu, Step, StartCall,
       files, locals, boot, entry, Request, Reading, Resting, Errors, InFlight, Writing, Applying
  <2>3. QED
    BY <2>1, <2>2
<1>8. ASSUME NEW c \in Caller, CaptureSnapshot(c)
      PROVE  TypeInv'
  <2>1. TypeOK'
    BY <1>8, ConfigAssumption DEF TypeOK, LocalsOK, CaptureSnapshot, Step, StartCall,
       files, locals, boot, entry, Request, Reading, Resting, InFlight, Writing, Applying
  <2>2. LocalsOK'
    BY <1>8, ConfigAssumption DEF TypeOK, LocalsOK, CaptureSnapshot, Step, StartCall,
       files, locals, boot, entry, Request, Reading, Resting, Errors, InFlight, Writing, Applying
  <2>3. QED
    BY <2>1, <2>2
<1>9. ASSUME NEW c \in Caller, CreateTmp(c)
      PROVE  TypeInv'
  <2>1. tmp' \in Inode
    BY <1>9 DEF TypeOK, CreateTmp
  <2>2. data' \in [Inode -> Bytes]
    BY <1>9, <2>1 DEF TypeOK, CreateTmp, Bytes
  <2>3. TypeOK'
    BY <1>9, <2>1, <2>2 DEF TypeOK, CreateTmp, Step, boot, entry, InFlight, Writing
  <2>4. LocalsOK'
    BY <1>9, <2>1, ConfigAssumption DEF TypeOK, LocalsOK, CreateTmp, Step, boot, entry,
       Reading, Resting, Errors, InFlight, Writing, Applying
  <2>5. QED
    BY <2>3, <2>4
<1>10. ASSUME NEW c \in Caller, WriteTmp(c)
      PROVE  TypeInv'
  <2>1. pc[c] = "created"
    BY <1>10 DEF WriteTmp, Step
  <2>2. /\ fd[c] # NoInode
        /\ request[c] # NoRequest
        /\ base[c] # NoBytes
    BY <1>10, <2>1 DEF LocalsOK, Writing
  <2>3. base[c] \in Bytes /\ request[c].change \in Change
    BY <1>10, <2>2 DEF TypeOK, Request
  <2>4. data' \in [Inode -> Bytes]
    <3>1. {Edited(base[c], request[c].change), Torn} \subseteq Bytes
      BY <2>3, EditedType DEF Bytes
    <3>2. PICK left \in {Edited(base[c], request[c].change), Torn} :
            data' = [data EXCEPT ![tfd[c]] = left]
      BY <1>10 DEF WriteTmp
    <3>3. QED
      BY <3>1, <3>2 DEF TypeOK
  <2>5. TypeOK'
    BY <1>10, <2>4 DEF TypeOK, WriteTmp, Step, locals, boot, entry, InFlight, Writing
  <2>6. LocalsOK'
    BY <1>10 DEF TypeOK, LocalsOK, WriteTmp, Step, locals, boot, entry,
       Reading, Resting, Errors, InFlight, Writing, Applying
  <2>7. QED
    BY <2>5, <2>6
<1>11. ASSUME NEW c \in Caller, RenameTmp(c)
      PROVE  TypeInv'
  <2>1. TypeOK'
    BY <1>11, ConfigAssumption DEF TypeOK, LocalsOK, RenameTmp, Step, StartCall,
       files, locals, boot, entry, Request, Reading, Resting, InFlight, Writing, Applying
  <2>2. LocalsOK'
    BY <1>11, ConfigAssumption DEF TypeOK, LocalsOK, RenameTmp, Step, StartCall,
       files, locals, boot, entry, Request, Reading, Resting, Errors, InFlight, Writing, Applying
  <2>3. QED
    BY <2>1, <2>2
<1>12. ASSUME NEW c \in Caller, CreateFailsafeTmp(c)
      PROVE  TypeInv'
  <2>1. TypeOK'
    BY <1>12, ConfigAssumption DEF TypeOK, LocalsOK, CreateFailsafeTmp, Step, StartCall,
       files, locals, boot, entry, Request, Reading, Resting, InFlight, Writing, Applying
  <2>2. LocalsOK'
    BY <1>12, ConfigAssumption DEF TypeOK, LocalsOK, CreateFailsafeTmp, Step, StartCall,
       files, locals, boot, entry, Request, Reading, Resting, Errors, InFlight, Writing, Applying
  <2>3. QED
    BY <2>1, <2>2
<1>13. ASSUME NEW c \in Caller, StartMkconfig(c)
      PROVE  TypeInv'
  <2>1. TypeOK'
    BY <1>13, ConfigAssumption DEF TypeOK, LocalsOK, StartMkconfig, Step, StartCall,
       files, locals, boot, entry, Request, Reading, Resting, InFlight, Writing, Applying
  <2>2. LocalsOK'
    BY <1>13, ConfigAssumption DEF TypeOK, LocalsOK, StartMkconfig, Step, StartCall,
       files, locals, boot, entry, Request, Reading, Resting, Errors, InFlight, Writing, Applying
  <2>3. QED
    BY <2>1, <2>2
<1>14. ASSUME NEW c \in Caller, LockBusy(c)
      PROVE  TypeInv'
  BY <1>14, ReturnTypeInv
  DEF TypeOK, EntryTyped, LocalsOK, LockBusy, files, boot, entry, Resting, Errors, Bytes
<1>15. ASSUME NEW c \in Caller, StaleEtag(c)
      PROVE  TypeInv'
  BY <1>15, ReturnTypeInv
  DEF TypeOK, EntryTyped, LocalsOK, StaleEtag, files, boot, entry, Resting, Errors, Bytes
<1>16. ASSUME NEW c \in Caller, RefuseSelection(c)
      PROVE  TypeInv'
  BY <1>16, ReturnTypeInv
  DEF TypeOK, EntryTyped, LocalsOK, RefuseSelection, files, boot, entry, Resting, Errors, Bytes
<1>17. ASSUME NEW c \in Caller, TmpGone(c)
      PROVE  TypeInv'
  BY <1>17, ReturnTypeInv
  DEF TypeOK, EntryTyped, LocalsOK, TmpGone, files, boot, entry, Resting, Errors, Bytes
<1>18. ASSUME NEW c \in Caller, FinishMkconfig(c)
      PROVE  TypeInv'
  BY <1>18, ReturnTypeInv
  DEF TypeOK, EntryTyped, LocalsOK, FinishMkconfig, files, boot, entry, Resting, Errors, Bytes
<1>19. ASSUME NEW c \in Caller, StepFails(c)
      PROVE  TypeInv'
  BY <1>19, ReturnTypeInv
  DEF TypeOK, EntryTyped, LocalsOK, StepFails, files, boot, entry, Resting, Errors, Bytes
<1>20. ASSUME NEW c \in Caller, WriteFails(c)
      PROVE  TypeInv'
  BY <1>20, ReturnTypeInv
  DEF TypeOK, EntryTyped, LocalsOK, WriteFails, files, boot, entry, Resting, Errors, Bytes
<1>21. CASE PackageLock
  <2>1. TypeOK'
    BY <1>21, ConfigAssumption
    DEF TypeOK, PackageLock, files, locals, boot, entry, Request, Resting, Bytes
  <2>2. LocalsOK'
    BY <1>21 DEF TypeOK, LocalsOK, PackageLock, files, locals, boot, entry,
       Reading, Resting, Errors, InFlight, Writing, Applying
  <2>3. QED
    BY <2>1, <2>2
<1>22. CASE PackageEdit
  <2>1. TypeOK'
    BY <1>22, ConfigAssumption
    DEF TypeOK, PackageEdit, files, locals, boot, entry, Request, Resting, Bytes
  <2>2. LocalsOK'
    BY <1>22 DEF TypeOK, LocalsOK, PackageEdit, files, locals, boot, entry,
       Reading, Resting, Errors, InFlight, Writing, Applying
  <2>3. QED
    BY <2>1, <2>2
<1>23. CASE PackageUnlock
  <2>1. TypeOK'
    BY <1>23, ConfigAssumption
    DEF TypeOK, PackageUnlock, files, locals, boot, entry, Request, Resting, Bytes
  <2>2. LocalsOK'
    BY <1>23 DEF TypeOK, LocalsOK, PackageUnlock, files, locals, boot, entry,
       Reading, Resting, Errors, InFlight, Writing, Applying
  <2>3. QED
    BY <2>1, <2>2
<1>24. CASE Crash
  <2>1. TypeOK'
    BY <1>24, ConfigAssumption
    DEF TypeOK, Crash, files, locals, boot, entry, Request, Resting, Bytes
  <2>2. LocalsOK'
    BY <1>24 DEF TypeOK, LocalsOK, Crash, files, locals, boot, entry,
       Reading, Resting, Errors, InFlight, Writing, Applying
  <2>3. QED
    BY <2>1, <2>2
<1>25. CASE UNCHANGED vars
  BY <1>25 DEF TypeOK, LocalsOK, vars
<1>26. ASSUME NEW c \in Caller, WriteFailsafeTmp(c)
      PROVE  TypeInv'
  <2>1. TypeOK'
    BY <1>26, ConfigAssumption DEF TypeOK, LocalsOK, WriteFailsafeTmp, PutEntry, Step, StartCall,
       files, locals, boot, entry, Request, Reading, Resting, InFlight, Writing, Applying
  <2>2. LocalsOK'
    BY <1>26, ConfigAssumption DEF TypeOK, LocalsOK, WriteFailsafeTmp, PutEntry, Step, StartCall,
       files, locals, boot, entry, Request, Reading, Resting, Errors, InFlight, Writing, Applying
  <2>3. QED
    BY <2>1, <2>2
<1>27. ASSUME NEW c \in Caller, RenameFailsafeTmp(c)
      PROVE  TypeInv'
  <2>1. TypeOK'
    BY <1>27, ConfigAssumption DEF TypeOK, LocalsOK, RenameFailsafeTmp, Step, StartCall,
       files, locals, boot, entry, Request, Reading, Resting, InFlight, Writing, Applying
  <2>2. LocalsOK'
    BY <1>27, ConfigAssumption DEF TypeOK, LocalsOK, RenameFailsafeTmp, Step, StartCall,
       files, locals, boot, entry, Request, Reading, Resting, Errors, InFlight, Writing, Applying
  <2>3. QED
    BY <2>1, <2>2
<1>28. ASSUME NEW c \in Caller, FailsafeTmpGone(c)
      PROVE  TypeInv'
  BY <1>28, ReturnTypeInv
  DEF TypeOK, EntryTyped, LocalsOK, FailsafeTmpGone, files, boot, entry, Resting, Errors, Bytes
<1>29. ASSUME NEW c \in Caller, FailsafeWriteFails(c)
      PROVE  TypeInv'
  BY <1>29, ReturnTypeInv
  DEF TypeOK, EntryTyped, LocalsOK, FailsafeWriteFails, PutEntry, files, boot, entry, Resting, Errors, Bytes
<1>30. CASE UpdateGrub
  <2>1. TypeOK'
    BY <1>30 DEF TypeOK, UpdateGrub, files, locals, entry
  <2>2. LocalsOK'
    BY <1>30 DEF TypeOK, LocalsOK, UpdateGrub, files, locals, entry
  <2>3. QED
    BY <2>1, <2>2
<1>31. QED
  BY <1>1, <1>2, <1>3, <1>4, <1>5, <1>6, <1>7, <1>8, <1>9, <1>10, <1>11, <1>12, <1>13, <1>14,
     <1>15, <1>16, <1>17, <1>18, <1>19, <1>20, <1>21, <1>22, <1>23, <1>24, <1>25, <1>26, <1>27,
     <1>28, <1>29, <1>30 DEF Next, Progress

\* Every variable keeps its type, for every value of the constants.
THEOREM TypeCorrect == Spec => []TypeOK
<1>1. Spec => []TypeInv
  BY InitTypeInv, NextTypeInv, PTL DEF Spec
<1>2. QED
  BY <1>1, PTL DEF TypeInv

-----------------------------------------------------------------------------
(* The lock, and what a write has behind it                                *)

\* A step keeps the flock of every inode with the call that took it.
LEMMA NextLockExclusion == TypeInv /\ LockExclusion /\ [Next]_vars => LockExclusion'
<1> SUFFICES ASSUME TypeInv /\ LockExclusion, [Next]_vars
             PROVE  LockExclusion'
  OBVIOUS
<1> USE ConfigAssumption DEF TypeInv, TypeOK, LocalsOK, LockExclusion, Owns, Resting, Reading, Errors, InFlight, Writing, Applying
<1>1. ASSUME NEW c \in Caller, ReadConfig(c)
      PROVE  LockExclusion'
  BY <1>1 DEF ReadConfig, Step, files, locals, boot, entry
<1>2. ASSUME NEW c \in Caller, ListMenu(c)
      PROVE  LockExclusion'
  BY <1>2 DEF ListMenu, Step, files, locals, boot, entry
<1>3. ASSUME NEW c \in Caller, OpenConfig(c)
      PROVE  LockExclusion'
  BY <1>3 DEF OpenConfig, Step, StartCall, files, locals, boot, entry
<1>4. ASSUME NEW c \in Caller, Rebuild(c)
      PROVE  LockExclusion'
  BY <1>4 DEF Rebuild, Step, StartCall, files, locals, boot, entry
<1>5. ASSUME NEW c \in Caller, AcquireLock(c)
      PROVE  LockExclusion'
  BY <1>5 DEF AcquireLock, Step, files, locals, boot, entry
<1>6. ASSUME NEW c \in Caller, VerifyEtag(c)
      PROVE  LockExclusion'
  BY <1>6 DEF VerifyEtag, Step, files, locals, boot, entry
<1>7. ASSUME NEW c \in Caller, ValidateMenu(c)
      PROVE  LockExclusion'
  BY <1>7 DEF ValidateMenu, Step, files, locals, boot, entry
<1>8. ASSUME NEW c \in Caller, CaptureSnapshot(c)
      PROVE  LockExclusion'
  BY <1>8 DEF CaptureSnapshot, Step, files, locals, boot, entry
<1>9. ASSUME NEW c \in Caller, CreateTmp(c)
      PROVE  LockExclusion'
  BY <1>9 DEF CreateTmp, Step, files, locals, boot, entry
<1>10. ASSUME NEW c \in Caller, WriteTmp(c)
      PROVE  LockExclusion'
  BY <1>10 DEF WriteTmp, Step, files, locals, boot, entry
<1>11. ASSUME NEW c \in Caller, RenameTmp(c)
      PROVE  LockExclusion'
  BY <1>11 DEF RenameTmp, Step, files, locals, boot, entry
<1>12. ASSUME NEW c \in Caller, CreateFailsafeTmp(c)
      PROVE  LockExclusion'
  BY <1>12 DEF CreateFailsafeTmp, Step, files, locals, boot, entry
<1>13. ASSUME NEW c \in Caller, StartMkconfig(c)
      PROVE  LockExclusion'
  BY <1>13 DEF StartMkconfig, Step, files, locals, boot, entry
<1>14. ASSUME NEW c \in Caller, LockBusy(c)
      PROVE  LockExclusion'
  BY <1>14 DEF LockBusy, Return, files, boot, entry
<1>15. ASSUME NEW c \in Caller, StaleEtag(c)
      PROVE  LockExclusion'
  BY <1>15 DEF StaleEtag, Return, files, boot, entry
<1>16. ASSUME NEW c \in Caller, RefuseSelection(c)
      PROVE  LockExclusion'
  BY <1>16 DEF RefuseSelection, Return, files, boot, entry
<1>17. ASSUME NEW c \in Caller, TmpGone(c)
      PROVE  LockExclusion'
  BY <1>17 DEF TmpGone, Return, files, boot, entry
<1>18. ASSUME NEW c \in Caller, FinishMkconfig(c)
      PROVE  LockExclusion'
  BY <1>18 DEF FinishMkconfig, Return, files, boot, entry
<1>19. ASSUME NEW c \in Caller, StepFails(c)
      PROVE  LockExclusion'
  BY <1>19 DEF StepFails, Return, files, boot, entry
<1>20. ASSUME NEW c \in Caller, WriteFails(c)
      PROVE  LockExclusion'
  BY <1>20 DEF WriteFails, Return, files, boot, entry
<1>21. CASE PackageLock
  BY <1>21 DEF PackageLock, files, locals, boot, entry
<1>22. CASE PackageEdit
  BY <1>22 DEF PackageEdit, files, locals, boot, entry
<1>23. CASE PackageUnlock
  BY <1>23 DEF PackageUnlock, files, locals, boot, entry
<1>24. CASE Crash
  BY <1>24 DEF Crash, files, locals, boot, entry
<1>25. CASE UNCHANGED vars
  BY <1>25 DEF vars
<1>26. ASSUME NEW c \in Caller, WriteFailsafeTmp(c)
      PROVE  LockExclusion'
  BY <1>26 DEF WriteFailsafeTmp, PutEntry, Step, files, locals, boot, entry
<1>27. ASSUME NEW c \in Caller, RenameFailsafeTmp(c)
      PROVE  LockExclusion'
  BY <1>27 DEF RenameFailsafeTmp, Step, files, locals, boot, entry
<1>28. ASSUME NEW c \in Caller, FailsafeTmpGone(c)
      PROVE  LockExclusion'
  BY <1>28 DEF FailsafeTmpGone, Return, files, boot, entry
<1>29. ASSUME NEW c \in Caller, FailsafeWriteFails(c)
      PROVE  LockExclusion'
  BY <1>29 DEF FailsafeWriteFails, PutEntry, Return, files, boot, entry
<1>30. CASE UpdateGrub
  BY <1>30 DEF UpdateGrub, files, locals, entry
<1>31. QED
  BY <1>1, <1>2, <1>3, <1>4, <1>5, <1>6, <1>7, <1>8, <1>9, <1>10, <1>11, <1>12, <1>13, <1>14,
     <1>15, <1>16, <1>17, <1>18, <1>19, <1>20, <1>21, <1>22, <1>23, <1>24, <1>25, <1>26, <1>27,
     <1>28, <1>29, <1>30 DEF Next, Progress


\* What the steps of a write have behind them: the bytes it read under its lock carry
\* the presented ETag, a snapshot holds them, there is a failsafe entry. (The bytes its
\* rename replaces are these only when calls do not overlap.)
Safeguards ==
  \A c \in Caller : Owns(c) =>
    /\ pc[c] # "locked" => base[c] = request[c].etag
    /\ pc[c] \notin {"locked", "verified", "validated"} => base[c] \in snapshots
    /\ pc[c] \in {"refreshed", "generating"} => failsafe # "none"

\* A step keeps what the write path has checked and stored.
LEMMA NextSafeguards == TypeInv /\ Safeguards /\ [Next]_vars => Safeguards'
<1> SUFFICES ASSUME TypeInv /\ Safeguards, [Next]_vars
             PROVE  Safeguards'
  OBVIOUS
<1> USE ConfigAssumption DEF TypeInv, TypeOK, LocalsOK, Safeguards, Owns, Resting, Reading, Errors, InFlight, Writing, Applying
<1>1. ASSUME NEW c \in Caller, ReadConfig(c)
      PROVE  Safeguards'
  BY <1>1 DEF ReadConfig, Step, files, locals, boot, entry
<1>2. ASSUME NEW c \in Caller, ListMenu(c)
      PROVE  Safeguards'
  BY <1>2 DEF ListMenu, Step, files, locals, boot, entry
<1>3. ASSUME NEW c \in Caller, OpenConfig(c)
      PROVE  Safeguards'
  BY <1>3 DEF OpenConfig, Step, StartCall, files, locals, boot, entry
<1>4. ASSUME NEW c \in Caller, Rebuild(c)
      PROVE  Safeguards'
  BY <1>4 DEF Rebuild, Step, StartCall, files, locals, boot, entry
<1>5. ASSUME NEW c \in Caller, AcquireLock(c)
      PROVE  Safeguards'
  BY <1>5 DEF AcquireLock, Step, files, locals, boot, entry
<1>6. ASSUME NEW c \in Caller, VerifyEtag(c)
      PROVE  Safeguards'
  BY <1>6 DEF VerifyEtag, Step, files, locals, boot, entry
<1>7. ASSUME NEW c \in Caller, ValidateMenu(c)
      PROVE  Safeguards'
  BY <1>7 DEF ValidateMenu, Step, files, locals, boot, entry
<1>8. ASSUME NEW c \in Caller, CaptureSnapshot(c)
      PROVE  Safeguards'
  BY <1>8 DEF CaptureSnapshot, Step, files, locals, boot, entry
<1>9. ASSUME NEW c \in Caller, CreateTmp(c)
      PROVE  Safeguards'
  BY <1>9 DEF CreateTmp, Step, files, locals, boot, entry
<1>10. ASSUME NEW c \in Caller, WriteTmp(c)
      PROVE  Safeguards'
  BY <1>10 DEF WriteTmp, Step, files, locals, boot, entry
<1>11. ASSUME NEW c \in Caller, RenameTmp(c)
      PROVE  Safeguards'
  BY <1>11 DEF RenameTmp, Step, files, locals, boot, entry
<1>12. ASSUME NEW c \in Caller, CreateFailsafeTmp(c)
      PROVE  Safeguards'
  BY <1>12 DEF CreateFailsafeTmp, Step, files, locals, boot, entry
<1>13. ASSUME NEW c \in Caller, StartMkconfig(c)
      PROVE  Safeguards'
  BY <1>13 DEF StartMkconfig, Step, files, locals, boot, entry
<1>14. ASSUME NEW c \in Caller, LockBusy(c)
      PROVE  Safeguards'
  BY <1>14 DEF LockBusy, Return, files, boot, entry
<1>15. ASSUME NEW c \in Caller, StaleEtag(c)
      PROVE  Safeguards'
  BY <1>15 DEF StaleEtag, Return, files, boot, entry
<1>16. ASSUME NEW c \in Caller, RefuseSelection(c)
      PROVE  Safeguards'
  BY <1>16 DEF RefuseSelection, Return, files, boot, entry
<1>17. ASSUME NEW c \in Caller, TmpGone(c)
      PROVE  Safeguards'
  BY <1>17 DEF TmpGone, Return, files, boot, entry
<1>18. ASSUME NEW c \in Caller, FinishMkconfig(c)
      PROVE  Safeguards'
  BY <1>18 DEF FinishMkconfig, Return, files, boot, entry
<1>19. ASSUME NEW c \in Caller, StepFails(c)
      PROVE  Safeguards'
  BY <1>19 DEF StepFails, Return, files, boot, entry
<1>20. ASSUME NEW c \in Caller, WriteFails(c)
      PROVE  Safeguards'
  BY <1>20 DEF WriteFails, Return, files, boot, entry
<1>21. CASE PackageLock
  BY <1>21 DEF PackageLock, files, locals, boot, entry
<1>22. CASE PackageEdit
  BY <1>22 DEF PackageEdit, files, locals, boot, entry
<1>23. CASE PackageUnlock
  BY <1>23 DEF PackageUnlock, files, locals, boot, entry
<1>24. CASE Crash
  BY <1>24 DEF Crash, files, locals, boot, entry
<1>25. CASE UNCHANGED vars
  BY <1>25 DEF vars
<1>26. ASSUME NEW c \in Caller, WriteFailsafeTmp(c)
      PROVE  Safeguards'
  BY <1>26 DEF WriteFailsafeTmp, PutEntry, Step, files, locals, boot, entry
<1>27. ASSUME NEW c \in Caller, RenameFailsafeTmp(c)
      PROVE  Safeguards'
  BY <1>27 DEF RenameFailsafeTmp, Step, files, locals, boot, entry
<1>28. ASSUME NEW c \in Caller, FailsafeTmpGone(c)
      PROVE  Safeguards'
  BY <1>28 DEF FailsafeTmpGone, Return, files, boot, entry
<1>29. ASSUME NEW c \in Caller, FailsafeWriteFails(c)
      PROVE  Safeguards'
  BY <1>29 DEF FailsafeWriteFails, PutEntry, Return, files, boot, entry
<1>30. CASE UpdateGrub
  BY <1>30 DEF UpdateGrub, files, locals, entry
<1>31. QED
  BY <1>1, <1>2, <1>3, <1>4, <1>5, <1>6, <1>7, <1>8, <1>9, <1>10, <1>11, <1>12, <1>13, <1>14,
     <1>15, <1>16, <1>17, <1>18, <1>19, <1>20, <1>21, <1>22, <1>23, <1>24, <1>25, <1>26, <1>27,
     <1>28, <1>29, <1>30 DEF Next, Progress

\* Two write calls past Step 2 never share an inode, and no flock outlives its
\* call, however calls interleave, fail or die.
THEOREM Exclusion == Spec => []LockExclusion
<1>1. Init => LockExclusion
  BY ConfigAssumption DEF Init, LockExclusion, Owns
<1>2. QED
  BY <1>1, InitTypeInv, NextTypeInv, NextLockExclusion, PTL DEF Spec

-----------------------------------------------------------------------------
(* Where the live bytes come from, whatever overlaps                       *)

\* Bytes that are no configuration, one the machine or a package manager brought, or
\* the edit of bytes a snapshot holds.
Origin(saved) ==
  Installed \union Edit \union {Torn, Empty}
    \union {Edited(bytes, change) : bytes \in saved, change \in Change}

\* It must be so of every inode: a rename may publish any call's temporary file.
OriginInv == \A i \in Inode : data[i] \in Origin(snapshots)

\* What is explained stays so when a snapshot is added.
LEMMA OriginGrows ==
  ASSUME NEW S, NEW T, S \subseteq T
  PROVE  Origin(S) \subseteq Origin(T)
  BY DEF Origin

\* A step writes only bytes of such an origin.
LEMMA NextOriginInv ==
  TypeInv /\ Safeguards /\ OriginInv /\ [Next]_vars => OriginInv'
<1> SUFFICES ASSUME TypeInv, Safeguards, OriginInv, [Next]_vars
             PROVE  OriginInv'
  OBVIOUS
<1>0. data \in [Inode -> Bytes]
  BY DEF TypeInv, TypeOK
<1>1. ASSUME data' = data, snapshots \subseteq snapshots'
      PROVE  OriginInv'
  BY <1>1, OriginGrows DEF OriginInv
<1>2. ASSUME NEW j, NEW bytes \in Origin(snapshots),
             data' = [data EXCEPT ![j] = bytes], snapshots' = snapshots
      PROVE  OriginInv'
  BY <1>0, <1>2 DEF OriginInv
<1>3. Torn \in Origin(snapshots) /\ Empty \in Origin(snapshots)
  BY DEF Origin
<1>4. ASSUME NEW c \in Caller, CreateTmp(c)
      PROVE  OriginInv'
  <2>1. data' = [data EXCEPT ![tmp'] = Empty] /\ snapshots' = snapshots
    BY <1>4 DEF CreateTmp, boot
  <2>2. QED
    BY <1>2, <1>3, <2>1
<1>5. ASSUME NEW c \in Caller, WriteTmp(c)
      PROVE  OriginInv'
  <2>1. pc[c] = "created"
    BY <1>5 DEF WriteTmp, Step
  <2>2. fd[c] # NoInode /\ request[c] # NoRequest
    BY <2>1 DEF TypeInv, LocalsOK, Writing
  <2>3. base[c] \in snapshots /\ request[c].change \in Change
    BY <2>1, <2>2 DEF Safeguards, Owns, Writing, TypeInv, TypeOK, Request
  <2>4. Edited(base[c], request[c].change) \in Origin(snapshots)
    BY <2>3 DEF Origin
  <2>5. PICK left \in {Edited(base[c], request[c].change), Torn} :
          data' = [data EXCEPT ![tfd[c]] = left]
    BY <1>5 DEF WriteTmp
  <2>6. snapshots' = snapshots
    BY <1>5 DEF WriteTmp, boot
  <2>7. QED
    BY <1>2, <1>3, <2>4, <2>5, <2>6
<1>6. ASSUME NEW c \in Caller, WriteFails(c)
      PROVE  OriginInv'
  BY <1>2, <1>3, <1>6 DEF WriteFails, boot
<1>7. CASE PackageEdit
  <2>1. PICK i \in Inode, bytes \in Edit : data' = [data EXCEPT ![i] = bytes]
    BY <1>7 DEF PackageEdit
  <2>2. bytes \in Origin(snapshots) /\ snapshots' = snapshots
    BY <1>7 DEF Origin, PackageEdit, boot
  <2>3. QED
    BY <1>2, <2>1, <2>2
<1>8. ASSUME NEW c \in Caller,
             \/ ReadConfig(c) \/ ListMenu(c) \/ OpenConfig(c) \/ Rebuild(c)
             \/ AcquireLock(c) \/ VerifyEtag(c) \/ ValidateMenu(c) \/ CaptureSnapshot(c) \/ RenameTmp(c)
             \/ LockBusy(c) \/ StaleEtag(c) \/ RefuseSelection(c) \/ TmpGone(c)
      PROVE  OriginInv'
  BY <1>1, <1>8 DEF ReadConfig, ListMenu, OpenConfig, Rebuild, AcquireLock, VerifyEtag, ValidateMenu,
     CaptureSnapshot, RenameTmp, LockBusy, StaleEtag, RefuseSelection, TmpGone, files, boot
<1>9. ASSUME NEW c \in Caller,
             \/ CreateFailsafeTmp(c) \/ WriteFailsafeTmp(c) \/ RenameFailsafeTmp(c)
             \/ FailsafeTmpGone(c) \/ FailsafeWriteFails(c)
             \/ StartMkconfig(c) \/ FinishMkconfig(c) \/ StepFails(c)
      PROVE  OriginInv'
  BY <1>1, <1>9 DEF CreateFailsafeTmp, WriteFailsafeTmp, RenameFailsafeTmp, FailsafeTmpGone,
     FailsafeWriteFails, StartMkconfig, FinishMkconfig, StepFails, files, boot
<1>10. CASE PackageLock \/ PackageUnlock \/ UpdateGrub \/ Crash \/ UNCHANGED vars
  BY <1>1, <1>10 DEF PackageLock, PackageUnlock, UpdateGrub, Crash, files, boot, vars
<1>11. QED
  BY <1>4, <1>5, <1>6, <1>7, <1>8, <1>9, <1>10 DEF Next, Progress

\* However calls overlap, fail and die on the shared temporary file, the live bytes are
\* torn, brought by the machine or a package manager, or one request away from bytes
\* that a complete snapshot holds.
THEOREM LiveIsAccountedFor == Spec => []LiveHasOrigin
<1>1. Init => Safeguards
  BY DEF Init, Safeguards, Owns
<1>2. Init => OriginInv
  BY DEF Init, OriginInv, Origin
<1>3. TypeInv /\ OriginInv => LiveHasOrigin
  BY DEF TypeInv, TypeOK, OriginInv, Origin, LiveHasOrigin
<1>4. QED
  BY <1>1, <1>2, <1>3, InitTypeInv, NextTypeInv, NextSafeguards, NextOriginInv, PTL DEF Spec

-----------------------------------------------------------------------------
(* Calls one at a time                                                     *)

\* The strengthening that makes the serial daemon safe. What a lone call has
\* open is the live inode and the current temporary file; what it read is still
\* live; the package manager can only hold the live inode.
SerialInv ==
  /\ \A c, d \in Caller : pc[c] \in InFlight /\ pc[d] \in InFlight => c = d
  /\ tmp # config
  /\ LiveIsWhole
  /\ FailsafeIsWhole
  /\ \A i \in Inode : lock[i] = Package => i = config
  /\ \A c \in Caller :
       /\ pc[c] \in {"opened"} \union Writing => fd[c] = config
       /\ pc[c] \in Writing \ {"locked"} => base[c] = data[config]
       /\ pc[c] \in {"created", "written"} => tfd[c] = tmp
       /\ pc[c] = "created" => data[tmp] = Empty
       /\ pc[c] = "written" => data[tmp] = Edited(base[c], request[c].change)
       /\ pc[c] = "staging" => ffd[c] = "tmp" /\ failsafeTmp = "empty"
       /\ pc[c] = "staged" => failsafeTmp = "whole"

SerialIInv == TypeInv /\ LockExclusion /\ Safeguards /\ SerialInv

\* SerialInv holds before the first call.
LEMMA InitSerialInv == Init => SerialInv
  BY ConfigAssumption
  DEF Init, SerialInv, LiveIsWhole, FailsafeIsWhole, Owns, InFlight, Writing, Applying, Resting, Errors

\* A step of the serial daemon keeps SerialInv.
LEMMA NextSerialInv ==
  ASSUME ~Overlap
  PROVE  SerialIInv /\ [Next]_vars => SerialInv'
<1> SUFFICES ASSUME SerialIInv, [Next]_vars
             PROVE  SerialInv'
  OBVIOUS
<1> USE ConfigAssumption
    DEF SerialIInv, SerialInv, LiveIsWhole, FailsafeIsWhole, TypeInv, TypeOK, LocalsOK, LockExclusion,
        Owns, Resting, Reading, Errors, InFlight, Writing, Applying
<1>1. ASSUME NEW c \in Caller, ReadConfig(c)
      PROVE  SerialInv'
  BY <1>1 DEF ReadConfig, Step, files, locals, boot, entry
<1>2. ASSUME NEW c \in Caller, ListMenu(c)
      PROVE  SerialInv'
  BY <1>2 DEF ListMenu, Step, files, locals, boot, entry
<1>3. ASSUME NEW c \in Caller, OpenConfig(c)
      PROVE  SerialInv'
  BY <1>3 DEF OpenConfig, Step, StartCall, files, locals, boot, entry
<1>4. ASSUME NEW c \in Caller, Rebuild(c)
      PROVE  SerialInv'
  BY <1>4 DEF Rebuild, Step, StartCall, files, locals, boot, entry
<1>5. ASSUME NEW c \in Caller, AcquireLock(c)
      PROVE  SerialInv'
  BY <1>5 DEF AcquireLock, Step, files, locals, boot, entry
<1>6. ASSUME NEW c \in Caller, VerifyEtag(c)
      PROVE  SerialInv'
  BY <1>6 DEF VerifyEtag, Step, files, locals, boot, entry
<1>7. ASSUME NEW c \in Caller, ValidateMenu(c)
      PROVE  SerialInv'
  BY <1>7 DEF ValidateMenu, Step, files, locals, boot, entry
<1>8. ASSUME NEW c \in Caller, CaptureSnapshot(c)
      PROVE  SerialInv'
  BY <1>8 DEF CaptureSnapshot, Step, files, locals, boot, entry
<1>9. ASSUME NEW c \in Caller, CreateTmp(c)
      PROVE  SerialInv'
  <2>1. /\ pc[c] = "captured"
        /\ pc' = [pc EXCEPT ![c] = "created"]
        /\ tfd' = [tfd EXCEPT ![c] = tmp']
        /\ data' = [data EXCEPT ![tmp'] = Empty]
        /\ UNCHANGED <<config, lock, request, fd, base, failsafe, failsafeTmp, ffd, grubCfg>>
    BY <1>9 DEF CreateTmp, Step, boot, entry
  <2>2. tmp' \in Inode /\ tmp' # config
    BY <1>9 DEF CreateTmp, Unused
  <2>3. data'[config] = data[config] /\ data'[tmp'] = Empty
    BY <2>1, <2>2
  <2>4. QED
    BY <1>9, <2>1, <2>2, <2>3
<1>10. ASSUME NEW c \in Caller, WriteTmp(c)
      PROVE  SerialInv'
  BY <1>10 DEF WriteTmp, Step, files, locals, boot, entry
<1>11. ASSUME NEW c \in Caller, RenameTmp(c)
      PROVE  SerialInv'
  <2>1. /\ pc[c] = "written"
        /\ pc' = [pc EXCEPT ![c] = "renamed"]
        /\ config' = tmp
        /\ tmp' = NoInode
        /\ tmp # NoInode
        /\ UNCHANGED <<data, lock, request, fd, tfd, base, failsafe, failsafeTmp, ffd, grubCfg>>
    BY <1>11 DEF RenameTmp, Step, locals, boot, entry
  <2>2. base[c] \in Content /\ request[c].change \in Change
    BY <1>11, <2>1 DEF Request
  <2>3. data'[config'] \in Content
    BY <1>11, <2>1, <2>2, EditedWhole
  <2>4. lock[config] = c
    BY <1>11, <2>1
  <2>5. \A i \in Inode : lock[i] # Package
    BY <1>11, <2>4
  <2>6. QED
    BY <1>11, <2>1, <2>3, <2>5
<1>12. ASSUME NEW c \in Caller, CreateFailsafeTmp(c)
      PROVE  SerialInv'
  BY <1>12 DEF CreateFailsafeTmp, Step, files, locals, boot, entry
<1>13. ASSUME NEW c \in Caller, StartMkconfig(c)
      PROVE  SerialInv'
  BY <1>13 DEF StartMkconfig, Step, files, locals, boot, entry
<1>14. ASSUME NEW c \in Caller, LockBusy(c)
      PROVE  SerialInv'
  BY <1>14 DEF LockBusy, Return, files, boot, entry
<1>15. ASSUME NEW c \in Caller, StaleEtag(c)
      PROVE  SerialInv'
  BY <1>15 DEF StaleEtag, Return, files, boot, entry
<1>16. ASSUME NEW c \in Caller, RefuseSelection(c)
      PROVE  SerialInv'
  BY <1>16 DEF RefuseSelection, Return, files, boot, entry
<1>17. ASSUME NEW c \in Caller, TmpGone(c)
      PROVE  SerialInv'
  BY <1>17 DEF TmpGone, Return, files, boot, entry
<1>18. ASSUME NEW c \in Caller, FinishMkconfig(c)
      PROVE  SerialInv'
  BY <1>18 DEF FinishMkconfig, Return, files, boot, entry
<1>19. ASSUME NEW c \in Caller, StepFails(c)
      PROVE  SerialInv'
  BY <1>19 DEF StepFails, Return, files, boot, entry
<1>20. ASSUME NEW c \in Caller, WriteFails(c)
      PROVE  SerialInv'
  BY <1>20 DEF WriteFails, Return, files, boot, entry
<1>21. CASE PackageLock
  BY <1>21 DEF PackageLock, files, locals, boot, entry
<1>22. CASE PackageEdit
  BY <1>22 DEF PackageEdit, files, locals, boot, entry
<1>23. CASE PackageUnlock
  BY <1>23 DEF PackageUnlock, files, locals, boot, entry
<1>24. CASE Crash
  BY <1>24 DEF Crash, files, locals, boot, entry
<1>25. CASE UNCHANGED vars
  BY <1>25 DEF vars
<1>26. ASSUME NEW c \in Caller, WriteFailsafeTmp(c)
      PROVE  SerialInv'
  BY <1>26 DEF WriteFailsafeTmp, PutEntry, Step, files, locals, boot, entry
<1>27. ASSUME NEW c \in Caller, RenameFailsafeTmp(c)
      PROVE  SerialInv'
  BY <1>27 DEF RenameFailsafeTmp, Step, files, locals, boot, entry
<1>28. ASSUME NEW c \in Caller, FailsafeTmpGone(c)
      PROVE  SerialInv'
  BY <1>28 DEF FailsafeTmpGone, Return, files, boot, entry
<1>29. ASSUME NEW c \in Caller, FailsafeWriteFails(c)
      PROVE  SerialInv'
  BY <1>29 DEF FailsafeWriteFails, PutEntry, Return, files, boot, entry
<1>30. CASE UpdateGrub
  BY <1>30 DEF UpdateGrub, files, locals, entry
<1>31. QED
  BY <1>1, <1>2, <1>3, <1>4, <1>5, <1>6, <1>7, <1>8, <1>9, <1>10, <1>11, <1>12, <1>13, <1>14,
     <1>15, <1>16, <1>17, <1>18, <1>19, <1>20, <1>21, <1>22, <1>23, <1>24, <1>25, <1>26, <1>27,
     <1>28, <1>29, <1>30 DEF Next, Progress

\* With calls one at a time SerialIInv is an invariant.
LEMMA SerialInvariant ==
  ASSUME ~Overlap
  PROVE  Spec => []SerialIInv
<1>1. Init => LockExclusion /\ Safeguards
  BY ConfigAssumption DEF Init, LockExclusion, Safeguards, Owns
<1>2. Init => SerialIInv
  BY <1>1, InitTypeInv, InitSerialInv DEF SerialIInv
<1>3. SerialIInv /\ [Next]_vars => SerialIInv'
  BY NextTypeInv, NextLockExclusion, NextSafeguards, NextSerialInv DEF SerialIInv
<1>4. QED
  BY <1>2, <1>3, PTL DEF Spec

\* With calls one at a time, no reader and no boot, entry ever meets anything but a
\* complete configuration, crashes and failed writes included.
THEOREM SerialLiveIsWhole ==
  ASSUME ~Overlap
  PROVE  Spec => []LiveIsWhole
<1>1. SerialIInv => LiveIsWhole
  BY DEF SerialIInv, SerialInv
<1>2. QED
  BY <1>1, SerialInvariant, PTL

\* With calls one at a time, grub-mkconfig and readers find a whole failsafe entry,
\* and one that was written before grub.cfg is generated.
THEOREM SerialFailsafeIsWhole ==
  ASSUME ~Overlap
  PROVE  Spec => []FailsafeIsWhole
<1>1. SerialIInv => FailsafeIsWhole
  BY DEF SerialIInv, SerialInv
<1>2. QED
  BY <1>1, SerialInvariant, PTL

\* How the name of the configuration can move to another inode.
LEMMA CommitStep ==
  ASSUME ~Overlap, SerialIInv, [Next]_vars, config' # config
  PROVE  \E c \in Caller :
           /\ RenameTmp(c)
           /\ data[config] \in snapshots
           /\ data[config] = request[c].etag
           /\ data'[config'] = Edited(data[config], request[c].change)
<1>1. PICK c \in Caller : RenameTmp(c)
  BY DEF Next, Progress, vars, files, ReadConfig, ListMenu, OpenConfig, Rebuild, AcquireLock,
         LockBusy, VerifyEtag, StaleEtag, ValidateMenu, RefuseSelection, CaptureSnapshot,
         CreateTmp, WriteTmp, TmpGone, CreateFailsafeTmp, WriteFailsafeTmp,
         RenameFailsafeTmp, FailsafeTmpGone, FailsafeWriteFails, PutEntry, StartMkconfig,
         FinishMkconfig, StepFails, WriteFails, PackageLock, PackageEdit, PackageUnlock, UpdateGrub, Crash
<1>2. pc[c] = "written" /\ config' = tmp /\ data' = data
  BY <1>1 DEF RenameTmp, Step
<1>3. fd[c] # NoInode
  BY <1>2 DEF SerialIInv, TypeInv, LocalsOK, Writing
<1>4. base[c] = request[c].etag /\ base[c] \in snapshots
  BY <1>2, <1>3 DEF SerialIInv, Safeguards, Owns, Writing
<1>5. base[c] = data[config] /\ data[tmp] = Edited(base[c], request[c].change)
  BY <1>2 DEF SerialIInv, SerialInv, Writing
<1>6. QED
  BY <1>1, <1>2, <1>4, <1>5

\* With calls one at a time no update is lost.
THEOREM SerialNoLostUpdate ==
  ASSUME ~Overlap
  PROVE  Spec => NoLostUpdate
<1> DEFINE Commit == \E c \in Caller :
                       /\ pc[c] = "written" /\ pc'[c] = "renamed"
                       /\ data[config] = request[c].etag
                       /\ data'[config'] = Edited(data[config], request[c].change)
<1>1. SerialIInv /\ [Next]_vars => [config' # config => Commit]_vars
  <2> SUFFICES ASSUME SerialIInv, [Next]_vars, config' # config
               PROVE  Commit
    OBVIOUS
  <2>1. PICK c \in Caller :
          /\ RenameTmp(c)
          /\ data[config] = request[c].etag
          /\ data'[config'] = Edited(data[config], request[c].change)
    BY CommitStep
  <2>2. pc[c] = "written" /\ pc'[c] = "renamed"
    BY <2>1 DEF RenameTmp, Step, SerialIInv, TypeInv, TypeOK
  <2>3. QED
    BY <2>1, <2>2
<1>2. QED
  BY <1>1, SerialInvariant, PTL DEF Spec, NoLostUpdate

\* With calls one at a time the pipeline implements ConfigStore.
THEOREM SerialImplementsStore ==
  ASSUME ~Overlap
  PROVE  Spec => ImplementsStore
<1>1. Init => Store!Init
  BY ConfigAssumption DEF Init, Store!Init, Store!Content, Content
<1>2. SerialIInv /\ [Next]_vars => [Store!Next]_<<data[config], snapshots>>
  <2> SUFFICES ASSUME SerialIInv, [Next]_vars
               PROVE  [Store!Next]_<<data[config], snapshots>>
    OBVIOUS
  <2>1. CASE config' # config
    <3>1. PICK c \in Caller :
            /\ RenameTmp(c)
            /\ data[config] \in snapshots
            /\ data'[config'] = Edited(data[config], request[c].change)
      BY <2>1, CommitStep
    <3>2. request[c].change \in Change /\ data[config] \in Content
      BY <3>1 DEF RenameTmp, Step, SerialIInv, SerialInv, LiveIsWhole, TypeInv, TypeOK,
                  LocalsOK, Request, Writing
    <3>3. data'[config'] = Store!Apply(data[config], request[c].change)
      BY <3>1, <3>2 DEF Edited, Store!Apply
    <3>4. snapshots' = snapshots
      BY <3>1 DEF RenameTmp, boot, entry
    <3>5. Store!Update(data[config], request[c].change)
      BY <3>1, <3>3, <3>4 DEF Store!Update
    <3>6. QED
      BY <3>2, <3>5 DEF Store!Next, Store!Content, Content
  <2>2. CASE config' = config /\ snapshots' # snapshots
    <3>1. PICK c \in Caller : CaptureSnapshot(c)
      BY <2>2 DEF Next, Progress, vars, boot, entry, Return, ReadConfig, ListMenu, OpenConfig, Rebuild,
         AcquireLock, LockBusy, VerifyEtag, StaleEtag, ValidateMenu, RefuseSelection,
         CreateTmp, WriteTmp, RenameTmp, TmpGone, CreateFailsafeTmp, WriteFailsafeTmp,
         RenameFailsafeTmp, FailsafeTmpGone, FailsafeWriteFails, PutEntry, StartMkconfig,
         FinishMkconfig, StepFails, WriteFails, PackageLock, PackageEdit, PackageUnlock, UpdateGrub, Crash
    <3>2. /\ base[c] = data[config]
          /\ snapshots' = snapshots \union {base[c]}
          /\ data'[config'] = data[config]
      BY <2>2, <3>1 DEF CaptureSnapshot, Step, files, SerialIInv, SerialInv, Writing
    <3>3. QED
      BY <3>2 DEF Store!Next, Store!Save
  <2>3. CASE config' = config /\ snapshots' = snapshots /\ data'[config] # data[config]
    <3>1. PackageEdit
      <4>1. ASSUME NEW c \in Caller, CreateTmp(c) \/ WriteTmp(c) \/ WriteFails(c)
            PROVE  data'[config] = data[config]
        <5>1. tfd[c] # config \/ CreateTmp(c)
          BY <4>1 DEF WriteTmp, WriteFails, Step, SerialIInv, SerialInv
        <5>2. tmp' # config \/ ~CreateTmp(c)
          BY DEF CreateTmp, Unused, SerialIInv, SerialInv
        <5>3. QED
          BY <4>1, <5>1, <5>2 DEF CreateTmp, WriteTmp, WriteFails, SerialIInv, TypeInv, TypeOK
      <4>2. QED
        BY <2>3, <4>1 DEF Next, Progress, vars, files, ReadConfig, ListMenu, OpenConfig,
           Rebuild, AcquireLock, LockBusy, VerifyEtag, StaleEtag, ValidateMenu,
           RefuseSelection, CaptureSnapshot, RenameTmp, TmpGone, CreateFailsafeTmp, WriteFailsafeTmp,
         RenameFailsafeTmp, FailsafeTmpGone, FailsafeWriteFails, PutEntry,
           StartMkconfig, FinishMkconfig, StepFails, PackageLock, PackageUnlock, UpdateGrub, Crash
    <3>2. data'[config'] \in Edit
      BY <2>3, <3>1 DEF PackageEdit, SerialIInv, TypeInv, TypeOK
    <3>3. QED
      BY <2>3, <3>2 DEF Store!Next, Store!PackageUpdate
  <2>4. QED
    BY <2>1, <2>2, <2>3
<1>3. QED
  BY <1>1, <1>2, SerialInvariant, PTL DEF Spec, ImplementsStore, Store!Spec

-----------------------------------------------------------------------------
(* Success takes effect                                                    *)

\* What a call wrote, or what a package manager put in its place.
Effects(c) == {Edited(base[c], request[c].change)} \union Edit

\* From the rename on the live configuration is what the call wrote, or a package
\* manager's, and so is what grub-mkconfig sources. A call that only regenerates has
\* no request.
EffectInv ==
  \A c \in Caller :
    /\ pc[c] \in {"renamed", "staging", "staged", "refreshed"} => data[config] \in Effects(c)
    /\ pc[c] = "generating" /\ request[c] # NoRequest =>
         gen[c] \in Effects(c) /\ data[config] \in Effects(c)
    /\ pc[c] \in Resting \union {"rebuilding"} => request[c] = NoRequest

\* A step of the serial daemon keeps EffectInv.
LEMMA NextEffectInv ==
  ASSUME ~Overlap
  PROVE  SerialIInv /\ EffectInv /\ [Next]_vars => EffectInv'
<1> SUFFICES ASSUME SerialIInv, EffectInv, [Next]_vars
             PROVE  EffectInv'
  OBVIOUS
<1>0. /\ pc \in [Caller -> States] /\ request \in [Caller -> Request]
      /\ base \in [Caller -> Bytes \union {NoBytes}] /\ gen \in [Caller -> Bytes \union {NoBytes}]
      /\ config \in Inode /\ data \in [Inode -> Bytes]
      /\ \A c, d \in Caller : pc[c] \in InFlight /\ pc[d] \in InFlight => c = d
  BY DEF SerialIInv, SerialInv, TypeInv, TypeOK, States
<1> DEFINE Steady == {"renamed", "staging", "staged", "refreshed"}
\* Steps of a call that leave what the effect is about, or end the call.
<1>1. ASSUME data'[config'] = data[config] \/ \A c \in Caller : pc'[c] \notin Steady \union {"generating"},
             NEW c \in Caller,
             \A d \in Caller \ {c} : pc'[d] = pc[d] /\ request'[d] = request[d] /\ base'[d] = base[d] /\ gen'[d] = gen[d],
             \/ /\ pc'[c] \notin Steady \union {"generating", "rebuilding"}
                /\ pc'[c] \in Resting => request'[c] = NoRequest
             \/ /\ pc[c] \in Steady /\ pc'[c] \in Steady
                /\ request'[c] = request[c] /\ base'[c] = base[c]
      PROVE  EffectInv'
  <2> SUFFICES ASSUME NEW d \in Caller
               PROVE  /\ pc'[d] \in Steady => (data[config])' \in Effects(d)'
                      /\ pc'[d] = "generating" /\ request'[d] # NoRequest =>
                           gen'[d] \in Effects(d)' /\ (data[config])' \in Effects(d)'
                      /\ pc'[d] \in Resting \union {"rebuilding"} => request'[d] = NoRequest
    BY DEF EffectInv
  <2>1. base'[d] = base[d] /\ request'[d] = request[d] => Effects(d)' = Effects(d)
    BY DEF Effects
  <2>2. CASE d # c
    BY <1>1, <2>1, <2>2 DEF EffectInv
  <2>3. CASE d = c
    <3>1. Steady \cap (Resting \union {"rebuilding", "generating"}) = {}
      BY DEF Resting, Errors
    <3>2. QED
      BY <1>1, <2>1, <2>3, <3>1 DEF EffectInv
  <2>4. QED
    BY <2>2, <2>3
<1>2. ASSUME NEW c \in Caller, ReadConfig(c) \/ ListMenu(c) \/ OpenConfig(c)
      PROVE  EffectInv'
  BY <1>0, <1>1, <1>2 DEF ReadConfig, ListMenu, OpenConfig, Step, StartCall, files, Resting, Reading, Errors
<1>3. ASSUME NEW c \in Caller, AcquireLock(c) \/ VerifyEtag(c) \/ ValidateMenu(c) \/ CaptureSnapshot(c)
      PROVE  EffectInv'
  BY <1>0, <1>1, <1>3 DEF AcquireLock, VerifyEtag, ValidateMenu, CaptureSnapshot, Step, files, locals, Resting, Errors
<1>4. ASSUME NEW c \in Caller, CreateTmp(c) \/ WriteTmp(c)
      PROVE  EffectInv'
  <2>1. pc[c] \in InFlight /\ pc'[c] \in {"created", "written"}
    BY <1>0, <1>4 DEF CreateTmp, WriteTmp, Step, InFlight, Writing
  <2>2. \A d \in Caller \ {c} : pc'[d] = pc[d] /\ request'[d] = request[d] /\ base'[d] = base[d] /\ gen'[d] = gen[d]
    BY <1>0, <1>4 DEF CreateTmp, WriteTmp, Step, locals
  <2>3. \A d \in Caller : pc'[d] \notin Steady \union {"generating"}
    BY <1>0, <2>1, <2>2 DEF InFlight, Applying
  <2>4. QED
    BY <1>1, <2>1, <2>2, <2>3 DEF Resting, Errors
<1>5. ASSUME NEW c \in Caller, RenameTmp(c)
      PROVE  EffectInv'
  <2>1. /\ pc[c] = "written" /\ pc' = [pc EXCEPT ![c] = "renamed"]
        /\ config' = tmp /\ data' = data /\ request' = request /\ base' = base /\ gen' = gen
    BY <1>5 DEF RenameTmp, Step, locals
  <2>2. data'[config'] = Edited(base[c], request[c].change)
    BY <2>1 DEF SerialIInv, SerialInv
  <2>3. (data[config])' \in Effects(c)'
    BY <2>1, <2>2 DEF Effects
  <2>4. \A d \in Caller \ {c} : pc[d] \notin InFlight /\ pc'[d] = pc[d]
    BY <1>0, <2>1 DEF InFlight, Writing
  <2>5. ASSUME NEW d \in Caller
        PROVE  /\ pc'[d] \in Steady => (data[config])' \in Effects(d)'
               /\ pc'[d] = "generating" /\ request'[d] # NoRequest =>
                    gen'[d] \in Effects(d)' /\ (data[config])' \in Effects(d)'
               /\ pc'[d] \in Resting \union {"rebuilding"} => request'[d] = NoRequest
    <3>1. CASE d = c
      BY <1>0, <2>1, <2>3, <3>1 DEF Resting, Errors
    <3>2. CASE d # c
      BY <2>1, <2>4, <3>2 DEF EffectInv, InFlight, Applying
    <3>3. QED
      BY <3>1, <3>2
  <2>6. QED
    BY <2>5 DEF EffectInv
<1>6. ASSUME NEW c \in Caller,
             CreateFailsafeTmp(c) \/ WriteFailsafeTmp(c) \/ RenameFailsafeTmp(c)
      PROVE  EffectInv'
  BY <1>0, <1>1, <1>6 DEF CreateFailsafeTmp, WriteFailsafeTmp, RenameFailsafeTmp, Step, files, locals
<1>7. ASSUME NEW c \in Caller, StartMkconfig(c)
      PROVE  EffectInv'
  <2>1. /\ pc[c] \in {"refreshed", "rebuilding"} /\ pc' = [pc EXCEPT ![c] = "generating"]
        /\ gen' = [gen EXCEPT ![c] = data[config]]
        /\ data' = data /\ config' = config /\ request' = request /\ base' = base
    BY <1>7 DEF StartMkconfig, Step, files
  <2>2. ASSUME NEW d \in Caller
        PROVE  /\ pc'[d] \in Steady => (data[config])' \in Effects(d)'
               /\ pc'[d] = "generating" /\ request'[d] # NoRequest =>
                    gen'[d] \in Effects(d)' /\ (data[config])' \in Effects(d)'
               /\ pc'[d] \in Resting \union {"rebuilding"} => request'[d] = NoRequest
    <3>1. Effects(d)' = Effects(d)
      BY <2>1 DEF Effects
    <3>2. CASE d = c
      <4>1. pc'[d] = "generating" /\ gen'[d] = data[config] /\ request'[d] = request[d]
        BY <1>0, <2>1, <3>2
      <4>2. request[d] # NoRequest => data[config] \in Effects(d)
        BY <2>1, <3>2 DEF EffectInv
      <4>3. QED
        BY <2>1, <3>1, <4>1, <4>2 DEF Resting, Errors
    <3>3. CASE d # c
      BY <1>0, <2>1, <3>1, <3>3 DEF EffectInv
    <3>4. QED
      BY <3>2, <3>3
  <2>3. QED
    BY <2>2 DEF EffectInv
<1>8. ASSUME NEW c \in Caller, NEW reply \in {"ok"} \union Errors, Return(c, reply),
             data'[config'] = data[config] \/ pc[c] \in InFlight
      PROVE  EffectInv'
  <2>1. pc'[c] = reply /\ request'[c] = NoRequest /\ reply \in Resting
    BY <1>0, <1>8 DEF Return, Resting
  <2>2. \A d \in Caller \ {c} : pc'[d] = pc[d] /\ request'[d] = request[d] /\ base'[d] = base[d] /\ gen'[d] = gen[d]
    BY <1>0, <1>8 DEF Return
  <2>3. pc'[c] \notin Steady \union {"generating", "rebuilding"}
    BY <2>1 DEF Resting, Errors
  <2>4. data'[config'] = data[config] \/ \A d \in Caller : pc'[d] \notin Steady \union {"generating"}
    BY <1>0, <1>8, <2>2, <2>3 DEF InFlight, Applying
  <2>5. QED
    BY <1>1, <2>1, <2>2, <2>3, <2>4
<1>9. ASSUME NEW c \in Caller,
             LockBusy(c) \/ StaleEtag(c) \/ RefuseSelection(c) \/ TmpGone(c) \/ FinishMkconfig(c) \/ StepFails(c)
      PROVE  EffectInv'
  BY <1>8, <1>9 DEF LockBusy, StaleEtag, RefuseSelection, TmpGone, FinishMkconfig, StepFails, Errors, files
<1>10. ASSUME NEW c \in Caller, FailsafeTmpGone(c) \/ FailsafeWriteFails(c)
      PROVE  EffectInv'
  BY <1>8, <1>10 DEF FailsafeTmpGone, FailsafeWriteFails, Errors, files
<1>11. ASSUME NEW c \in Caller, WriteFails(c)
      PROVE  EffectInv'
  BY <1>8, <1>11 DEF WriteFails, Errors, InFlight, Writing
<1>12. ASSUME NEW c \in Caller, Rebuild(c)
      PROVE  EffectInv'
  <2>1. /\ pc[c] \in Resting /\ pc' = [pc EXCEPT ![c] = "rebuilding"]
        /\ data' = data /\ config' = config /\ request' = request /\ base' = base /\ gen' = gen
    BY <1>12 DEF Rebuild, files
  <2>2. QED
    BY <1>0, <2>1 DEF EffectInv, Effects
<1>13. CASE PackageLock \/ PackageUnlock \/ UpdateGrub
  BY <1>13 DEF PackageLock, PackageUnlock, UpdateGrub, files, locals, EffectInv, Effects
<1>14. CASE PackageEdit
  <2>1. /\ config' = config /\ pc' = pc /\ request' = request /\ base' = base /\ gen' = gen
        /\ data'[config] \in {data[config]} \union Edit
    BY <1>0, <1>14 DEF PackageEdit, locals
  <2>2. QED
    BY <2>1 DEF EffectInv, Effects
<1>15. CASE Crash
  <2>1. /\ \A c \in Caller : pc'[c] = IF pc[c] \in InFlight THEN "idle" ELSE pc[c]
        /\ \A c \in Caller : request'[c] = IF pc[c] \in InFlight THEN NoRequest ELSE request[c]
    BY <1>0, <1>15 DEF Crash
  <2>2. QED
    BY <2>1 DEF EffectInv, InFlight, Applying
<1>16. CASE UNCHANGED vars
  BY <1>16 DEF vars, EffectInv, Effects
<1>17. QED
  BY <1>2, <1>3, <1>4, <1>5, <1>6, <1>7, <1>9, <1>10, <1>11, <1>12, <1>13, <1>14, <1>15, <1>16
  DEF Next, Progress

\* With calls one at a time, a write that returns success has taken effect: grub.cfg
\* is generated from what it wrote, or from what a package manager wrote since.
THEOREM SerialSuccessTakesEffect ==
  ASSUME ~Overlap
  PROVE  Spec => SuccessTakesEffect
<1> DEFINE A == \A c \in Caller :
                  pc[c] = "generating" /\ pc'[c] = "ok" /\ request[c] # NoRequest =>
                    grubCfg' \in {Edited(base[c], request[c].change)} \union Edit
<1>1. Init => EffectInv
  BY DEF Init, EffectInv, Resting
<1>2. ASSUME SerialIInv, EffectInv, Next
      PROVE  A
  <2> SUFFICES ASSUME NEW c \in Caller, pc[c] = "generating", pc'[c] = "ok", request[c] # NoRequest
               PROVE  grubCfg' \in {Edited(base[c], request[c].change)} \union Edit
    OBVIOUS
  <2>1. FinishMkconfig(c)
    BY <1>2 DEF SerialIInv, TypeInv, TypeOK, Next, Progress, Return, Step, ReadConfig, ListMenu, OpenConfig, Rebuild,
       AcquireLock, LockBusy, VerifyEtag, StaleEtag, ValidateMenu, RefuseSelection, CaptureSnapshot,
       CreateTmp, WriteTmp, RenameTmp, TmpGone, CreateFailsafeTmp, WriteFailsafeTmp,
       RenameFailsafeTmp, FailsafeTmpGone, FailsafeWriteFails, PutEntry, StartMkconfig,
       FinishMkconfig, StepFails, WriteFails, PackageLock, PackageEdit, PackageUnlock, UpdateGrub, Crash
  <2>2. grubCfg' = gen[c]
    BY <2>1 DEF FinishMkconfig
  <2>3. QED
    BY <1>2, <2>2 DEF EffectInv, Effects
<1>3. SerialIInv /\ EffectInv /\ [Next]_vars => [A]_vars
  BY <1>2
<1>4. QED
  BY <1>1, <1>3, SerialInvariant, NextEffectInv, PTL DEF Spec, SuccessTakesEffect

-----------------------------------------------------------------------------
(* What an error leaves behind                                             *)

\* A step that fails a write keeps the live bytes, and the snapshots.
LEMMA FailingStep ==
  ASSUME SerialIInv, Next, NEW c \in Caller, Owns(c), pc'[c] \in Errors
  PROVE  /\ data'[config'] = data[config] /\ snapshots' = snapshots
         /\ pc[c] \in Applying => pc'[c] = "EspScanFailed"
<1>0. /\ pc[c] \in Writing \union Applying /\ pc \in [Caller -> States]
      /\ config \in Inode /\ data \in [Inode -> Bytes]
  BY DEF Owns, SerialIInv, TypeInv, TypeOK, States
<1>1. pc[c] \notin Errors
  BY <1>0 DEF Writing, Applying, Errors
<1>2. \/ LockBusy(c) \/ StaleEtag(c) \/ RefuseSelection(c) \/ TmpGone(c)
      \/ FailsafeTmpGone(c) \/ FailsafeWriteFails(c) \/ StepFails(c) \/ WriteFails(c)
  BY <1>0, <1>1 DEF States, Next, Progress, Return, Step, ReadConfig, ListMenu, OpenConfig, Rebuild,
     AcquireLock, LockBusy, VerifyEtag, StaleEtag, ValidateMenu, RefuseSelection, CaptureSnapshot,
     CreateTmp, WriteTmp, RenameTmp, TmpGone, CreateFailsafeTmp, WriteFailsafeTmp,
     RenameFailsafeTmp, FailsafeTmpGone, FailsafeWriteFails, PutEntry, StartMkconfig,
     FinishMkconfig, StepFails, WriteFails, PackageLock, PackageEdit, PackageUnlock, UpdateGrub, Crash,
     locals, Errors, Writing, Applying
<1>3. CASE WriteFails(c)
  <2>1. tfd[c] # config /\ pc[c] = "created"
    BY <1>3 DEF WriteFails, SerialIInv, SerialInv
  <2>2. QED
    BY <1>0, <1>3, <2>1 DEF WriteFails, boot, Applying
<1>4. CASE ~WriteFails(c)
  BY <1>0, <1>2, <1>4 DEF LockBusy, StaleEtag, RefuseSelection, TmpGone, FailsafeTmpGone,
     FailsafeWriteFails, StepFails, Return, files, boot, Applying
<1>5. QED
  BY <1>3, <1>4

\* With calls one at a time, a write that fails has changed nothing, or its whole edit
\* is in place, a snapshot holds what it replaced, and the error says EspScanFailed.
THEOREM SerialFailureIsUndoable ==
  ASSUME ~Overlap
  PROVE  Spec => FailureIsUndoable
<1> DEFINE Undoable(c) ==
             \/ data'[config'] = base[c]
             \/ /\ pc'[c] = "EspScanFailed" /\ pc[c] \in Applying
                /\ data'[config'] \in {Edited(base[c], request[c].change)} \union Edit
                /\ base[c] \in snapshots'
           A == \A c \in Caller : Owns(c) /\ pc[c] # "locked" /\ pc'[c] \in Errors => Undoable(c)
<1>1. Init => EffectInv
  BY DEF Init, EffectInv, Resting
<1>2. ASSUME SerialIInv, EffectInv, Next
      PROVE  A
  <2> SUFFICES ASSUME NEW c \in Caller, Owns(c), pc[c] # "locked", pc'[c] \in Errors
               PROVE  Undoable(c)
    OBVIOUS
  <2>1. /\ data'[config'] = data[config] /\ snapshots' = snapshots
        /\ pc[c] \in Applying => pc'[c] = "EspScanFailed"
    BY <1>2, FailingStep
  <2>2. CASE pc[c] \in Writing
    BY <1>2, <2>1, <2>2 DEF SerialIInv, SerialInv
  <2>3. CASE pc[c] \in Applying
    <3>1. base[c] \in snapshots
      BY <1>2, <2>3 DEF SerialIInv, Safeguards, Applying
    <3>2. request[c] # NoRequest
      BY <1>2 DEF SerialIInv, TypeInv, LocalsOK, Owns
    <3>3. data[config] \in Effects(c)
      BY <1>2, <2>3, <3>2 DEF EffectInv, Applying
    <3>4. QED
      BY <2>1, <2>3, <3>1, <3>3 DEF Effects
  <2>4. QED
    BY <2>2, <2>3 DEF Owns
<1>3. SerialIInv /\ EffectInv /\ [Next]_vars => [A]_vars
  BY <1>2
<1>4. QED
  BY <1>1, <1>3, SerialInvariant, NextEffectInv, PTL DEF Spec, FailureIsUndoable
=============================================================================
