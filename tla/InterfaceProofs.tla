--------------------------- MODULE InterfaceProofs ---------------------------
(***************************************************************************)
(* Proofs about Interface for any clients, requests, hosts, policy files   *)
(* and bounds.                                                             *)
(***************************************************************************)
EXTENDS Interface, SequenceTheorems, TLAPS

-----------------------------------------------------------------------------
(* EFI variables: what is written is what is read back                     *)

\* What is behind the first four bytes.
LEMMA BehindFour ==
  ASSUME NEW Cell, NEW head \in Seq(Cell), NEW rest \in Seq(Cell), Len(head) = 4
  PROVE  /\ Len(head \o rest) = 4 + Len(rest)
         /\ SubSeq(head \o rest, 5, 4 + Len(rest)) = rest
<1> DEFINE n == Len(rest)
           whole == head \o rest
           back == SubSeq(whole, 5, 4 + n)
<1>1. n \in Nat
  BY LenProperties
<1>2. /\ whole \in Seq(Cell)
      /\ Len(whole) = 4 + n
      /\ \A j \in 1..(4 + n) : whole[j] = IF j <= 4 THEN head[j] ELSE rest[j - 4]
  <2>1. /\ head \o rest \in Seq(Cell)
        /\ Len(head \o rest) = Len(head) + Len(rest)
        /\ \A j \in 1..(Len(head) + Len(rest)) :
             (head \o rest)[j] = IF j <= Len(head) THEN head[j] ELSE rest[j - Len(head)]
    BY ConcatProperties, Zenon
  <2>2. QED
    BY <2>1, Zenon
<1>3. ASSUME NEW i \in 1..n
      PROVE  whole[4 + i] = rest[i]
  <2>1. 4 + i \in 1..(4 + n) /\ ~(4 + i <= 4) /\ (4 + i) - 4 = i
    BY <1>1
  <2>2. QED
    BY <1>2, <2>1
<1> HIDE DEF whole
<1>4. /\ back \in Seq(Cell)
      /\ Len(back) = n
      /\ \A i \in 1..n : back[i] = whole[4 + i]
  BY <1>1, <1>2, SubSeqProperties
<1>5. back = rest
  BY <1>3, <1>4, SeqEqual
<1>6. QED
  BY <1>2, <1>5 DEF whole

\* read_global takes off what write_global put in front.
LEMMA PayloadOfFile ==
  ASSUME NEW S, NEW payload \in Seq(S), NEW attrs
  PROVE  /\ HasPayload(VariableFile(attrs, payload))
         /\ Payload(VariableFile(attrs, payload)) = payload
<1> DEFINE low == AttributeBytes(attrs)[1]
           head == <<low, 0, 0, 0>>
           Cell == S \union {low, 0}
<1>1. AttributeBytes(attrs) = head
  BY DEF AttributeBytes
<1>2. head \in Seq(Cell) /\ payload \in Seq(Cell) /\ Len(head) = 4
  OBVIOUS
<1> HIDE DEF head, Cell
<1>3. /\ Len(head \o payload) = 4 + Len(payload)
      /\ SubSeq(head \o payload, 5, 4 + Len(payload)) = payload
  BY <1>2, BehindFour
<1>4. QED
  BY <1>1, <1>3, LenProperties DEF VariableFile, HasPayload, Payload

\* A number is its two bytes.
LEMMA TwoBytes ==
  ASSUME NEW n \in U16
  PROVE  /\ n % 256 \in Byte /\ n \div 256 \in Byte
         /\ (n % 256) + 256 * (n \div 256) = n
BY SMTT(30) DEF U16, Byte

\* An order that is encoded has two bytes for each entry, and is parsed to itself.
THEOREM OrderIsReadBack ==
  ASSUME NEW indices \in Seq(U16)
  PROVE  /\ EncodeBootOrder(indices) \in Seq(Byte)
         /\ IsBootOrder(EncodeBootOrder(indices))
         /\ ParseBootOrder(EncodeBootOrder(indices)) = indices
<1> DEFINE n == Len(indices)
           bytes == EncodeBootOrder(indices)
<1>1. n \in Nat /\ \A i \in 1..n : indices[i] \in U16
  BY LenProperties, ElementOfSeq
<1>2. ASSUME NEW k \in 1..(2 * n)
      PROVE  (IF k % 2 = 1 THEN indices[(k + 1) \div 2] % 256 ELSE indices[k \div 2] \div 256) \in Byte
  <2>1. CASE k % 2 = 1
    <3>1. (k + 1) \div 2 \in 1..n
      BY <1>1, <2>1
    <3>2. QED
      BY <1>1, <2>1, <3>1, TwoBytes
  <2>2. CASE k % 2 # 1
    <3>1. k \div 2 \in 1..n
      BY <1>1, <2>2
    <3>2. QED
      BY <1>1, <2>2, <3>1, TwoBytes
  <2>3. QED
    BY <2>1, <2>2
<1>3. bytes \in Seq(Byte) /\ Len(bytes) = 2 * n
  BY <1>1, <1>2 DEF EncodeBootOrder
<1>4. Len(bytes) % 2 = 0 /\ Len(bytes) \div 2 = n
  BY <1>1, <1>3
<1>5. ASSUME NEW i \in 1..n
      PROVE  bytes[2 * i - 1] + 256 * bytes[2 * i] = indices[i]
  <2>1. /\ 2 * i - 1 \in 1..(2 * n) /\ (2 * i - 1) % 2 = 1 /\ ((2 * i - 1) + 1) \div 2 = i
        /\ 2 * i \in 1..(2 * n) /\ (2 * i) % 2 # 1 /\ (2 * i) \div 2 = i
    BY <1>1
  <2>2. bytes[2 * i - 1] = indices[i] % 256 /\ bytes[2 * i] = indices[i] \div 256
    BY <2>1 DEF EncodeBootOrder
  <2>3. QED
    BY <1>1, <2>2, TwoBytes
<1>6. ParseBootOrder(bytes) = [i \in 1..n |-> indices[i]]
  BY <1>4, <1>5 DEF ParseBootOrder
<1>7. indices = [i \in 1..n |-> indices[i]]
  OBVIOUS
<1>8. QED
  BY <1>3, <1>4, <1>6, <1>7 DEF IsBootOrder

\* BootNext is read back as the number it was set to.
LEMMA SingleIsReadBack ==
  ASSUME NEW index \in U16
  PROVE  /\ EncodeSingle(index) \in Seq(Byte)
         /\ IsSingle(EncodeSingle(index))
         /\ ParseSingle(EncodeSingle(index)) = index
BY TwoBytes DEF EncodeSingle, IsSingle, ParseSingle

\* The write and the read of BootOrder, and of BootNext, through their files.
LEMMA OrderIsStored ==
  ASSUME NEW indices \in Seq(U16), NEW attrs
  PROVE  ParseBootOrder(Payload(VariableFile(attrs, EncodeBootOrder(indices)))) = indices
BY OrderIsReadBack, PayloadOfFile

LEMMA SingleIsStored ==
  ASSUME NEW index \in U16, NEW attrs
  PROVE  ParseSingle(Payload(VariableFile(attrs, EncodeSingle(index)))) = index
BY SingleIsReadBack, PayloadOfFile

-----------------------------------------------------------------------------
(* The strengthening                                                       *)

Busy == Steps \ {"idle", "sent"}

\* What a call has read of a Secure Boot variable.
Copy == [var : SecureBoot, bytes : {"old", "new"}, file : {"none", "created", "written"}]

Known == DOMAIN Request \union {NoRequest}

\* Where each call is and what belongs to it.
CallsTyped ==
  /\ daemon \in {"off", "running", "exiting"}
  /\ pc \in [Client -> Steps]
  /\ daemon = "off" => \A c \in Client : pc[c] \in {"idle", "sent"}
  /\ request \in [Client -> Known]
  /\ job \in [Client -> 0..MaxCalls]
  /\ \A c \in Client : pc[c] # "idle" => request[c] # NoRequest /\ job[c] > 0
  /\ granted \in [Client -> SUBSET KnownActions]
  /\ reply = [c \in Client |-> reply[c]]
  /\ seen = [c \in Client |-> seen[c]]
  /\ copies \in [Client -> SUBSET Copy]

\* The machine.
BootTyped ==
  /\ config \in 0..MaxCalls
  /\ order \in Seq(U16) /\ next \in {NoNext} \union U16
  /\ firmware \in [SecureBoot -> {"old", "new"}]
  /\ backup \in [Dir \X SecureBoot -> {"none", "part", "old", "new"}]
  /\ signed \in BOOLEAN /\ pending \in BOOLEAN

CountsTyped ==
  /\ calls \in 0..MaxCalls /\ outside \in 0..MaxOutside /\ killed \subseteq 1..MaxCalls

TypeInv == CallsTyped /\ BootTyped /\ CountsTyped

\* Polkit has granted the call its method's action, and the host takes its writes.
Passed(c) ==
  /\ MethodFor(c).action \in granted[c]
  /\ HostAdmits(MethodFor(c), host)

\* The steps that only a writing method reaches.
Writing == {"started", "snapped", "written", "done", "compared", "found", "opened",
            "creating", "signed"}

\* A call is at a writing step only with the grant and on a host that admits it; one
\* that came in without a grant can only read.
GateInv ==
  \A c \in Client :
    /\ pc[c] \in Writing => Passed(c)
    /\ pc[c] = "admitted" => Passed(c) \/ MethodFor(c).work \in {"entries", "read", "name"}
    /\ pc[c] = "granted" => MethodFor(c).action \in granted[c]

-----------------------------------------------------------------------------
(* The methods                                                             *)

\* A method that asks for no action only reads.
LEMMA UnguardedRead ==
  ASSUME NEW m \in DOMAIN MethodOf, MethodOf[m].action = NoAction
  PROVE  MethodOf[m].work \in {"entries", "read", "name"}
  BY ActionAssumption
     DEF MethodOf, Method, Reader, SetGrubSettings, SetGrubValue, SetGrubDefault,
     RebuildGrubConfig, BackupNvram, SignAndEnrollUki, SetLoaderDefault, RenameLoaderEntry,
     AddKernelParam, RemoveKernelParam, RestoreSnapshot, SetBootOrder, SetBootNext,
     ClearBootNext, ListEfiBootEntries, ReadGrubConfig, ReadGrubSettings, GetEtag,
     GetActiveBackend, ListGrubEntries, ListLoaderEntries, ReadLoaderEntry, GetLoaderConfEtag,
     ReadKernelCmdline, ListSnapshots, GetBootOrder, GetBootNext, KnownActions, RewriteGrub,
     WriteBootloader, EnrollMok, RestoreAction

\* Only SetBootOrder and SetBootNext work on the order and on BootNext.
LEMMA BootWorks ==
  ASSUME NEW m \in DOMAIN MethodOf
  PROVE  /\ MethodOf[m].work = "order" => m = "SetBootOrder"
         /\ MethodOf[m].work = "next" => m = "SetBootNext"
  BY DEF MethodOf, Method, Reader, SetGrubSettings, SetGrubValue, SetGrubDefault,
     RebuildGrubConfig, BackupNvram, SignAndEnrollUki, SetLoaderDefault, RenameLoaderEntry,
     AddKernelParam, RemoveKernelParam, RestoreSnapshot, SetBootOrder, SetBootNext,
     ClearBootNext, ListEfiBootEntries, ReadGrubConfig, ReadGrubSettings, GetEtag,
     GetActiveBackend, ListGrubEntries, ListLoaderEntries, ReadLoaderEntry, GetLoaderConfEtag,
     ReadKernelCmdline, ListSnapshots, GetBootOrder, GetBootNext

-----------------------------------------------------------------------------
(* Types                                                                   *)

\* What a step of a handler at work leaves alone.
LEMMA WorkFrame ==
  ASSUME TypeInv, NEW c \in Client, Work(c)
  PROVE  /\ UNCHANGED <<daemon, host, policy, request, job, granted, calls, outside, killed>>
         /\ InPoll(c)
         /\ \E p \in Busy : pc' = [pc EXCEPT ![c] = p]
<1> USE DEF Busy, Steps, InPoll, Go, Finish, fixed, history
<1>1. CASE Admit(c) \/ Refuse(c)
  BY <1>1 DEF Admit, Refuse
<1>2. CASE EmitStarted(c) \/ TakeSnapshot(c) \/ WriteConfig(c)
  BY <1>2 DEF EmitStarted, TakeSnapshot, WriteConfig, Works
<1>3. CASE PipelineEnds(c) \/ PipelineFails(c) \/ EmitCompleted(c) \/ Write(c)
  BY <1>3 DEF PipelineEnds, PipelineFails, EmitCompleted, Write, Works
<1>4. CASE ReadBootOrder(c) \/ WriteBootOrder(c) \/ WriteBootNext(c)
  BY <1>4 DEF ReadBootOrder, WriteBootOrder, WriteBootNext, Works
<1>5. CASE FindBootNext(c) \/ RemoveBootNext(c)
  BY <1>5 DEF FindBootNext, RemoveBootNext, Works
<1>6. CASE ReadOnce(c) \/ ListNames(c) \/ ReadEntries(c)
  BY <1>6 DEF ReadOnce, ListNames, ReadEntries, Works
<1>7. CASE CopyVariable(c)
  <2>1. pc' = pc /\ pc[c] = "admitted"
    BY <1>7 DEF CopyVariable, Works
  <2>2. pc' = [pc EXCEPT ![c] = "admitted"]
    BY <2>1 DEF TypeInv, CallsTyped
  <2>3. QED
    BY <1>7, <2>1, <2>2 DEF CopyVariable
<1>8. CASE OpenBackupDirectory(c) \/ CreateBackupFile(c) \/ BackupFileExists(c)
  BY <1>8 DEF OpenBackupDirectory, CreateBackupFile, BackupFileExists, Works
<1>9. CASE WriteBackupFile(c) \/ EndBackup(c)
  BY <1>9 DEF WriteBackupFile, EndBackup
<1>10. CASE SignUki(c) \/ GenerateEnrollmentRequest(c)
  BY <1>10 DEF SignUki, GenerateEnrollmentRequest, Works
<1>11. QED
  BY <1>1, <1>2, <1>3, <1>4, <1>5, <1>6, <1>7, <1>8, <1>9, <1>10 DEF Work

\* A method's record and the values its arguments have.
LEMMA RequestFacts ==
  ASSUME TypeInv, NEW c \in Client, pc[c] # "idle"
  PROVE  /\ request[c] \in DOMAIN Request
         /\ Request[request[c]].method \in DOMAIN MethodOf
         /\ job[c] \in 1..MaxCalls
         /\ MethodFor(c).work = "order" => Arg(c) \in Seq(U16)
         /\ MethodFor(c).work = "next" => Arg(c) \in U16
<1>1. request[c] \in DOMAIN Request /\ job[c] \in 1..MaxCalls
  BY InterfaceAssumption DEF TypeInv, CallsTyped, Known
<1>2. Request[request[c]].method \in DOMAIN MethodOf
  BY <1>1, InterfaceAssumption
<1>3. QED
  BY <1>1, <1>2, BootWorks, InterfaceAssumption DEF MethodFor, Arg

\* What a call stores in BootOrder or BootNext is its argument.
LEMMA StoredIsArgument ==
  ASSUME TypeInv, NEW c \in Client, pc[c] # "idle"
  PROVE  /\ MethodFor(c).work = "order" => ParseBootOrder(Stored(EncodeBootOrder(Arg(c)))) = Arg(c)
         /\ MethodFor(c).work = "next" => ParseSingle(Stored(EncodeSingle(Arg(c)))) = Arg(c)
BY RequestFacts, OrderIsStored, SingleIsStored DEF Stored

\* A file of the backup a call may write.
LEMMA TargetDirType ==
  ASSUME TypeInv, NEW c \in Client, pc[c] # "idle"
  PROVE  TargetDir(c) \in Dir
  BY RequestFacts, InterfaceAssumption DEF TargetDir, Dir

\* Handlers at work write values of the right types.
LEMMA WorkBootTyped ==
  ASSUME TypeInv, NEW c \in Client, Work(c)
  PROVE  BootTyped'
<1> USE DEF bootVars, Go, Finish
<1>1. CASE Admit(c) \/ Refuse(c) \/ EmitStarted(c) \/ TakeSnapshot(c) \/ PipelineEnds(c)
           \/ PipelineFails(c) \/ EmitCompleted(c)
  BY <1>1 DEF Admit, Refuse, EmitStarted, TakeSnapshot, PipelineEnds, PipelineFails,
     EmitCompleted, TypeInv, BootTyped
<1>2. CASE ReadBootOrder(c) \/ FindBootNext(c) \/ ReadOnce(c) \/ ListNames(c) \/ ReadEntries(c)
           \/ CopyVariable(c) \/ OpenBackupDirectory(c) \/ BackupFileExists(c) \/ EndBackup(c)
  BY <1>2 DEF ReadBootOrder, FindBootNext, ReadOnce, ListNames, ReadEntries, CopyVariable,
     OpenBackupDirectory, BackupFileExists, EndBackup, TypeInv, BootTyped
<1>3. CASE WriteConfig(c) \/ Write(c)
  <2>1. pc[c] # "idle"
    BY <1>3 DEF WriteConfig, Write, Works
  <2>2. config' \in 0..MaxCalls
    BY <1>3, <2>1, RequestFacts, InterfaceAssumption DEF WriteConfig, Write, TypeInv, BootTyped
  <2>3. QED
    BY <1>3, <2>2 DEF WriteConfig, Write, TypeInv, BootTyped
<1>4. CASE WriteBootOrder(c) \/ WriteBootNext(c)
  <2>1. pc[c] # "idle"
    BY <1>4 DEF WriteBootOrder, WriteBootNext
  <2>2. order' \in Seq(U16) /\ next' \in {NoNext} \union U16
    BY <1>4, <2>1, RequestFacts, StoredIsArgument
       DEF WriteBootOrder, WriteBootNext, TypeInv, BootTyped
  <2>3. QED
    BY <1>4, <2>2 DEF WriteBootOrder, WriteBootNext, TypeInv, BootTyped
<1>5. CASE RemoveBootNext(c)
  BY <1>5 DEF RemoveBootNext, TypeInv, BootTyped
<1>6. CASE CreateBackupFile(c) \/ WriteBackupFile(c)
  <2>1. PICK copy \in copies[c] :
          \/ backup' = backup
          \/ backup' = [backup EXCEPT ![<<TargetDir(c), copy.var>>] = "part"]
          \/ backup' = [backup EXCEPT ![<<TargetDir(c), copy.var>>] = copy.bytes]
    BY <1>6 DEF CreateBackupFile, WriteBackupFile
  <2>2. copy \in Copy
    BY DEF TypeInv, CallsTyped
  <2>3. copy.bytes \in {"none", "part", "old", "new"}
    BY <2>2 DEF Copy
  <2>4. backup' \in [Dir \X SecureBoot -> {"none", "part", "old", "new"}]
    BY <2>1, <2>3 DEF TypeInv, BootTyped
  <2>5. QED
    BY <1>6, <2>4 DEF CreateBackupFile, WriteBackupFile, TypeInv, BootTyped
<1>7. CASE SignUki(c) \/ GenerateEnrollmentRequest(c)
  <2>1. signed' \in BOOLEAN /\ pending' \in BOOLEAN
    BY <1>7, Zenon DEF SignUki, GenerateEnrollmentRequest, TypeInv, BootTyped
  <2>2. QED
    BY <1>7, <2>1 DEF SignUki, GenerateEnrollmentRequest, TypeInv, BootTyped
<1>8. QED
  BY <1>1, <1>2, <1>3, <1>4, <1>5, <1>6, <1>7 DEF Work

\* What handlers at work note for themselves.
LEMMA WorkNotes ==
  ASSUME TypeInv, NEW c \in Client, Work(c)
  PROVE  /\ reply' = [d \in Client |-> reply'[d]]
         /\ seen' = [d \in Client |-> seen'[d]]
         /\ copies' \in [Client -> SUBSET Copy]
<1> USE DEF Go, Finish
<1>0. /\ reply = [d \in Client |-> reply[d]]
      /\ seen = [d \in Client |-> seen[d]]
      /\ copies \in [Client -> SUBSET Copy]
  BY DEF TypeInv, CallsTyped
<1>1. CASE Admit(c) \/ Refuse(c) \/ EmitStarted(c) \/ TakeSnapshot(c) \/ WriteConfig(c)
           \/ PipelineEnds(c) \/ PipelineFails(c) \/ EmitCompleted(c) \/ Write(c)
  BY <1>0, <1>1 DEF Admit, Refuse, EmitStarted, TakeSnapshot, WriteConfig, PipelineEnds,
     PipelineFails, EmitCompleted, Write
<1>2. CASE ReadBootOrder(c) \/ WriteBootOrder(c) \/ WriteBootNext(c) \/ FindBootNext(c)
           \/ RemoveBootNext(c) \/ ReadOnce(c) \/ ListNames(c) \/ ReadEntries(c)
  BY <1>0, <1>2 DEF ReadBootOrder, WriteBootOrder, WriteBootNext, FindBootNext, RemoveBootNext,
     ReadOnce, ListNames, ReadEntries
<1>3. CASE OpenBackupDirectory(c) \/ BackupFileExists(c) \/ EndBackup(c) \/ SignUki(c)
           \/ GenerateEnrollmentRequest(c)
  BY <1>0, <1>3 DEF OpenBackupDirectory, BackupFileExists, EndBackup, SignUki,
     GenerateEnrollmentRequest
<1>4. CASE CopyVariable(c)
  <2>1. PICK v \in SecureBoot :
          copies' = [copies EXCEPT ![c] =
            copies[c] \union {[var |-> v, bytes |-> firmware[v], file |-> "none"]}]
    BY <1>4 DEF CopyVariable
  <2>2. [var |-> v, bytes |-> firmware[v], file |-> "none"] \in Copy
    BY DEF TypeInv, BootTyped, Copy
  <2>3. copies' \in [Client -> SUBSET Copy]
    BY <1>0, <2>1, <2>2
  <2>4. QED
    BY <1>0, <1>4, <2>3 DEF CopyVariable
<1>5. CASE CreateBackupFile(c) \/ WriteBackupFile(c)
  <2>1. PICK copy \in copies[c], file \in {"created", "written"} : copies' = copies \/ At(c, copy, file)
    BY <1>5 DEF CreateBackupFile, WriteBackupFile
  <2>2. copy \in Copy
    BY <1>0
  <2>3. [copy EXCEPT !.file = file] \in Copy
    BY <2>2 DEF Copy
  <2>4. copies' \in [Client -> SUBSET Copy]
    BY <1>0, <2>1, <2>3 DEF At
  <2>5. QED
    BY <1>0, <1>5, <2>4 DEF CreateBackupFile, WriteBackupFile
<1>6. QED
  BY <1>1, <1>2, <1>3, <1>4, <1>5 DEF Work

\* Handlers at work keep TypeInv.
LEMMA WorkTyped ==
  ASSUME TypeInv, NEW c \in Client, Work(c)
  PROVE  TypeInv'
<1>1. PICK p \in Busy : pc' = [pc EXCEPT ![c] = p]
  BY WorkFrame
<1>2. /\ UNCHANGED <<daemon, request, job, granted, calls, outside, killed>>
      /\ pc[c] \notin {"idle", "sent"} /\ p \notin {"idle", "sent"} /\ p \in Steps
  BY WorkFrame DEF InPoll, Busy
<1>3. CallsTyped'
  BY <1>1, <1>2, WorkNotes DEF TypeInv, CallsTyped
<1>4. CountsTyped'
  BY <1>2 DEF TypeInv, CountsTyped
<1>5. QED
  BY <1>3, <1>4, WorkBootTyped DEF TypeInv

\* Calls that are over are forgotten; a daemon that ends forgets all.
LEMMA ForgetTyped ==
  ASSUME CallsTyped, NEW over \in SUBSET Client, Forget(over),
         daemon' = daemon \/ (daemon' = "off" /\ over = Client)
  PROVE  CallsTyped'
<1>1. MaxCalls \in Nat
  BY InterfaceAssumption
<1>2. pc' \in [Client -> Steps]
  BY DEF Forget, CallsTyped, Steps
<1>3. request' \in [Client -> Known]
  BY DEF Forget, CallsTyped, Known
<1>4. job' \in [Client -> 0..MaxCalls]
  <2>1. job' = [d \in Client |-> IF d \in over THEN 0 ELSE job[d]]
    BY Zenon DEF Forget
  <2>2. job \in [Client -> 0..MaxCalls]
    BY Zenon DEF CallsTyped
  <2>3. QED
    BY <1>1, <2>1, <2>2
<1>5. /\ granted' \in [Client -> SUBSET KnownActions]
      /\ copies' \in [Client -> SUBSET Copy]
  BY DEF Forget, CallsTyped
<1>6. /\ reply' = [d \in Client |-> reply'[d]]
      /\ seen' = [d \in Client |-> seen'[d]]
  BY DEF Forget
<1>7. \A c \in Client : pc'[c] # "idle" =>
        pc'[c] = pc[c] /\ request'[c] = request[c] /\ job'[c] = job[c]
  BY DEF Forget
<1>8. daemon' = "off" => \A c \in Client : pc'[c] \in {"idle", "sent"}
  BY DEF Forget, CallsTyped
<1>9. QED
  BY <1>2, <1>3, <1>4, <1>5, <1>6, <1>7, <1>8 DEF CallsTyped

\* The bus, the daemon's life and the gate keep TypeInv.
LEMMA GateTyped ==
  ASSUME TypeInv, NEW c \in Client, Begin(c) \/ ResolveUid(c) \/ Authorize(c)
  PROVE  TypeInv'
<1>1. /\ UNCHANGED <<daemon, request, job, seen, copies, bootVars, calls, outside, killed>>
      /\ reply' = [d \in Client |-> reply'[d]]
      /\ pc[c] # "idle" /\ daemon # "off"
      /\ \E p \in Busy : pc' = [pc EXCEPT ![c] = p]
  BY DEF Begin, ResolveUid, Authorize, Go, Finish, history, TypeInv, CallsTyped, Busy, Steps
<1>2. granted' \in [Client -> SUBSET KnownActions]
  BY DEF Begin, ResolveUid, Authorize, TypeInv, CallsTyped
<1>3. CallsTyped'
  BY <1>1, <1>2 DEF TypeInv, CallsTyped, Busy
<1>4. BootTyped' /\ CountsTyped'
  BY <1>1 DEF TypeInv, BootTyped, CountsTyped, bootVars
<1>5. QED
  BY <1>3, <1>4 DEF TypeInv

\* A call is sent.
LEMMA CallTyped ==
  ASSUME TypeInv, NEW c \in Client, Call(c)
  PROVE  TypeInv'
<1>1. PICK r \in DOMAIN Request : request' = [request EXCEPT ![c] = r]
  BY DEF Call
<1>2. calls' \in 1..MaxCalls /\ job' = [job EXCEPT ![c] = calls']
  BY InterfaceAssumption DEF Call, TypeInv, CountsTyped
<1>3. r \in Known /\ r # NoRequest
  BY InterfaceAssumption DEF Known
<1>4. pc' = [pc EXCEPT ![c] = "sent"] /\ "sent" \in Steps
  BY DEF Call, Go, Steps
<1>5. UNCHANGED <<daemon, granted, reply, seen, copies, bootVars, outside, killed>>
  BY DEF Call
<1>6. CallsTyped'
  BY <1>1, <1>2, <1>3, <1>4, <1>5 DEF TypeInv, CallsTyped
<1>7. BootTyped' /\ CountsTyped'
  BY <1>2, <1>5 DEF TypeInv, BootTyped, CountsTyped, bootVars
<1>8. QED
  BY <1>6, <1>7 DEF TypeInv

\* The daemon starts, idles out, ends or dies, and replies.
LEMMA LifeTyped ==
  ASSUME TypeInv,
         Start \/ BecomeIdle \/ Exit \/ Kill \/ \E c \in Client : Reply(c)
  PROVE  TypeInv'
<1>1. CASE Start
  <2>1. CallsTyped'
    <3>1. CASE daemon' = "running" /\ UNCHANGED callVars
      BY <3>1 DEF TypeInv, CallsTyped, callVars
    <3>2. CASE UNCHANGED daemon /\ Forget(Client)
      BY <3>2, ForgetTyped DEF TypeInv
    <3>3. QED
      BY <1>1, <3>1, <3>2 DEF Start
  <2>2. BootTyped' /\ CountsTyped'
    BY <1>1 DEF Start, TypeInv, BootTyped, CountsTyped, bootVars, history
  <2>3. QED
    BY <2>1, <2>2 DEF TypeInv
<1>2. CASE BecomeIdle
  BY <1>2 DEF BecomeIdle, TypeInv, CallsTyped, BootTyped, CountsTyped, callVars, bootVars, history
<1>3. CASE Exit \/ Kill
  <2>1. CallsTyped'
    BY <1>3, ForgetTyped DEF Exit, Kill, DropCalls, TypeInv
  <2>2. killed' \subseteq 1..MaxCalls
    BY <1>3, RequestFacts DEF Exit, Kill, InPoll, TypeInv, CountsTyped
  <2>3. BootTyped' /\ CountsTyped'
    BY <1>3, <2>2 DEF Exit, Kill, DropCalls, TypeInv, BootTyped, CountsTyped, bootVars
  <2>4. QED
    BY <2>1, <2>3 DEF TypeInv
<1>4. ASSUME NEW c \in Client, Reply(c)
      PROVE  TypeInv'
  <2>1. CallsTyped'
    BY <1>4, ForgetTyped DEF Reply, TypeInv
  <2>2. BootTyped' /\ CountsTyped'
    BY <1>4 DEF Reply, TypeInv, BootTyped, CountsTyped, bootVars, history
  <2>3. QED
    BY <2>1, <2>2 DEF TypeInv
<1>5. QED
  BY <1>1, <1>2, <1>3, <1>4

\* Other programs keep TypeInv.
LEMMA OutsideTyped ==
  ASSUME TypeInv, EditBootOrder \/ UpdateFirmware
  PROVE  TypeInv'
<1>1. /\ UNCHANGED <<daemon, callVars, config, next, backup, signed, pending, calls, killed>>
      /\ outside' \in 0..MaxOutside
  BY InterfaceAssumption DEF EditBootOrder, UpdateFirmware, TypeInv, CountsTyped
<1>2. order' \in Seq(U16)
  <2>1. order \in Seq(U16)
    BY DEF TypeInv, BootTyped
  <2>2. order # <<>> => Tail(order) \in Seq(U16)
    BY <2>1, HeadTailProperties
  <2>3. \A e \in NewEntries : Append(order, e) \in Seq(U16)
    BY <2>1, InterfaceAssumption, AppendProperties
  <2>4. QED
    BY <2>1, <2>2, <2>3 DEF EditBootOrder, UpdateFirmware
<1>3. firmware' \in [SecureBoot -> {"old", "new"}]
  BY DEF EditBootOrder, UpdateFirmware, TypeInv, BootTyped
<1>4. CallsTyped' /\ BootTyped' /\ CountsTyped'
  BY <1>1, <1>2, <1>3 DEF TypeInv, CallsTyped, BootTyped, CountsTyped, callVars
<1>5. QED
  BY <1>4 DEF TypeInv

\* TypeInv holds before the daemon is first started.
LEMMA InitTypeInv == Init => TypeInv
<1> SUFFICES ASSUME Init
             PROVE  TypeInv
  OBVIOUS
<1>0. MaxCalls \in Nat /\ MaxOutside \in Nat
  BY InterfaceAssumption
<1>1. CallsTyped
  <2>1. /\ pc \in [Client -> Steps] /\ \A c \in Client : pc[c] = "idle"
        /\ request \in [Client -> Known]
    BY DEF Init, Steps, Known
  <2>2. job = [d \in Client |-> 0]
    BY Zenon DEF Init
  <2>3. job \in [Client -> 0..MaxCalls]
    BY <1>0, <2>2
  <2>4. /\ granted \in [Client -> SUBSET KnownActions]
        /\ copies \in [Client -> SUBSET Copy]
    BY DEF Init
  <2>5. /\ reply = [d \in Client |-> reply[d]]
        /\ seen = [d \in Client |-> seen[d]]
        /\ daemon = "off"
    BY DEF Init
  <2>6. QED
    BY <2>1, <2>3, <2>4, <2>5 DEF CallsTyped
<1>2. BootTyped
  <2>1. signed = FALSE /\ pending = FALSE
    BY Zenon DEF Init
  <2>2. signed \in BOOLEAN /\ pending \in BOOLEAN
    BY <2>1, Zenon
  <2>3. order \in BootOrders /\ next = NoNext /\ config = 0
    BY Zenon DEF Init
  <2>4. order \in Seq(U16) /\ next = NoNext /\ config \in 0..MaxCalls
    BY <1>0, <2>3, InterfaceAssumption
  <2>5. firmware \in [SecureBoot -> {"old", "new"}]
    BY DEF Init
  <2>6. backup \in [Dir \X SecureBoot -> {"none", "part", "old", "new"}]
    BY DEF Init
  <2>7. QED
    BY <2>2, <2>4, <2>5, <2>6 DEF BootTyped
<1>3. CountsTyped
  <2>1. calls = 0 /\ outside = 0 /\ killed = {}
    BY Zenon DEF Init
  <2>2. QED
    BY <1>0, <2>1 DEF CountsTyped
<1>4. QED
  BY <1>1, <1>2, <1>3 DEF TypeInv

\* Every step keeps TypeInv.
LEMMA NextTypeInv == TypeInv /\ [Next]_vars => TypeInv'
<1>1. TypeInv /\ UNCHANGED vars => TypeInv'
  BY DEF vars, TypeInv, CallsTyped, BootTyped, CountsTyped
<1>2. QED
  BY <1>1, WorkTyped, GateTyped, CallTyped, LifeTyped, OutsideTyped DEF Next

\* TypeInv is an invariant.
LEMMA TypeInvariant == Spec => []TypeInv
  BY InitTypeInv, NextTypeInv, PTL DEF Spec

\* Every variable keeps its type.
THEOREM TypeCorrect == Spec => []TypeOK
<1>1. TypeInv => TypeOK
  <2> SUFFICES ASSUME TypeInv
               PROVE  TypeOK
    OBVIOUS
  <2>1. /\ request \in [Client -> DOMAIN Request \union {NoRequest}]
        /\ \A c \in Client : granted[c] \subseteq KnownActions
    BY DEF TypeInv, CallsTyped, Known
  <2>2. {signed, pending} \subseteq BOOLEAN
    BY Zenon DEF TypeInv, BootTyped
  <2>3. QED
    BY <2>1, <2>2 DEF TypeInv, CallsTyped, BootTyped, CountsTyped, TypeOK
<1>2. QED
  BY <1>1, TypeInvariant, PTL

-----------------------------------------------------------------------------
(* Authorization                                                           *)

\* A call moves to a step it may be at.
LEMMA GateKept ==
  ASSUME TypeInv, GateInv, NEW c \in Client, NEW p,
         pc' = [pc EXCEPT ![c] = p], UNCHANGED <<request, granted, host>>,
         p \in Writing => Passed(c),
         p = "admitted" => Passed(c) \/ MethodFor(c).work \in {"entries", "read", "name"},
         p = "granted" => MethodFor(c).action \in granted[c]
  PROVE  GateInv'
<1>1. \A d \in Client : MethodFor(d)' = MethodFor(d) /\ (Passed(d)' <=> Passed(d))
  BY DEF MethodFor, Passed, HostAdmits
<1>2. \A d \in Client : pc'[d] = IF d = c THEN p ELSE pc[d]
  BY DEF TypeInv, CallsTyped
<1>3. ASSUME NEW d \in Client
      PROVE  /\ pc'[d] \in Writing => Passed(d)'
             /\ pc'[d] = "admitted" =>
                  Passed(d)' \/ MethodFor(d)'.work \in {"entries", "read", "name"}
             /\ pc'[d] = "granted" => MethodFor(d)'.action \in granted'[d]
  <2>1. CASE d = c
    BY <1>1, <1>2, <2>1
  <2>2. CASE d # c
    BY <1>1, <1>2, <2>2 DEF GateInv
  <2>3. QED
    BY <2>1, <2>2
<1>4. QED
  BY <1>3 DEF GateInv

\* Handlers at work write only behind the gate.
LEMMA WorkGate ==
  ASSUME TypeInv, GateInv, NEW c \in Client, Work(c)
  PROVE  GateInv'
<1>1. UNCHANGED <<request, granted, host>> /\ "finished" \notin Writing \union {"admitted", "granted"}
  BY WorkFrame DEF Writing
<1>2. \/ \E p \in Writing : pc' = [pc EXCEPT ![c] = p] /\ Passed(c)
      \/ \E p \in {"finished", "listed"} : pc' = [pc EXCEPT ![c] = p]
      \/ /\ pc' = [pc EXCEPT ![c] = "admitted"]
         /\ Passed(c) \/ MethodFor(c).work \in {"entries", "read", "name"}
  <2> USE DEF Go, Finish, Writing, Works, GateInv
  <2>1. CASE Admit(c) \/ Refuse(c)
    BY <2>1 DEF Admit, Refuse, Passed
  <2>2. CASE EmitStarted(c) \/ TakeSnapshot(c) \/ WriteConfig(c)
    BY <2>2 DEF EmitStarted, TakeSnapshot, WriteConfig
  <2>3. CASE PipelineEnds(c) \/ PipelineFails(c) \/ EmitCompleted(c) \/ Write(c)
    BY <2>3 DEF PipelineEnds, PipelineFails, EmitCompleted, Write
  <2>4. CASE ReadBootOrder(c) \/ WriteBootOrder(c) \/ WriteBootNext(c)
    BY <2>4 DEF ReadBootOrder, WriteBootOrder, WriteBootNext
  <2>5. CASE FindBootNext(c) \/ RemoveBootNext(c)
    BY <2>5 DEF FindBootNext, RemoveBootNext
  <2>6. CASE ReadOnce(c) \/ ListNames(c) \/ ReadEntries(c)
    BY <2>6 DEF ReadOnce, ListNames, ReadEntries
  <2>7. CASE CopyVariable(c)
    <3>1. pc' = pc /\ pc[c] = "admitted"
      BY <2>7 DEF CopyVariable
    <3>2. pc' = [pc EXCEPT ![c] = "admitted"]
      BY <3>1 DEF TypeInv, CallsTyped
    <3>3. QED
      BY <3>1, <3>2
  <2>8. CASE OpenBackupDirectory(c) \/ CreateBackupFile(c) \/ BackupFileExists(c)
    BY <2>8 DEF OpenBackupDirectory, CreateBackupFile, BackupFileExists
  <2>9. CASE WriteBackupFile(c) \/ EndBackup(c)
    BY <2>9 DEF WriteBackupFile, EndBackup
  <2>10. CASE SignUki(c) \/ GenerateEnrollmentRequest(c)
    BY <2>10 DEF SignUki, GenerateEnrollmentRequest
  <2>11. QED
    BY <2>1, <2>2, <2>3, <2>4, <2>5, <2>6, <2>7, <2>8, <2>9, <2>10 DEF Work
<1>3. {"finished", "listed"} \intersect (Writing \union {"admitted", "granted"}) = {}
  BY DEF Writing
<1>4. Writing \intersect {"admitted", "granted"} = {} /\ "admitted" \notin Writing
  BY DEF Writing
<1>5. QED
  BY <1>1, <1>2, <1>3, <1>4, GateKept

\* The gate lets a call through only with the grant it asked for.
LEMMA EntryGate ==
  ASSUME TypeInv, GateInv, NEW c \in Client,
         Call(c) \/ Begin(c) \/ ResolveUid(c) \/ Authorize(c)
  PROVE  GateInv'
<1> USE DEF Go, Finish, Writing, fixed
<1>1. CASE Call(c)
  <2>1. \A d \in Client \ {c} : /\ pc'[d] = pc[d] /\ request'[d] = request[d]
                                /\ granted'[d] = granted[d]
    BY <1>1 DEF Call, TypeInv, CallsTyped
  <2>2. \A d \in Client \ {c} : MethodFor(d)' = MethodFor(d) /\ (Passed(d)' <=> Passed(d))
    BY <1>1, <2>1 DEF Call, MethodFor, Passed, HostAdmits
  <2>3. pc'[c] = "sent"
    BY <1>1 DEF Call, TypeInv, CallsTyped
  <2>4. QED
    BY <2>1, <2>2, <2>3 DEF GateInv
<1>2. CASE Begin(c)
  <2>1. Request[request[c]].method \in DOMAIN MethodOf
    BY <1>2, RequestFacts DEF Begin
  <2>2. MethodFor(c).action = NoAction => MethodFor(c).work \in {"entries", "read", "name"}
    BY <2>1, UnguardedRead DEF MethodFor
  <2>3. QED
    BY <1>2, <2>2, GateKept DEF Begin
<1>3. CASE ResolveUid(c)
  BY <1>3, GateKept DEF ResolveUid
<1>4. CASE Authorize(c)
  <2>1. CASE Finish(c, "PolkitDenied") /\ UNCHANGED granted
    BY <1>4, <2>1, GateKept DEF Authorize
  <2>2. CASE /\ granted' = [granted EXCEPT ![c] = @ \union {MethodFor(c).action}]
             /\ pc' = [pc EXCEPT ![c] = "granted"]
    <3>1. \A d \in Client \ {c} : pc'[d] = pc[d] /\ granted'[d] = granted[d]
      BY <2>2 DEF TypeInv, CallsTyped
    <3>2. \A d \in Client : MethodFor(d)' = MethodFor(d)
      BY <1>4 DEF Authorize, MethodFor
    <3>3. \A d \in Client \ {c} : Passed(d)' <=> Passed(d)
      BY <1>4, <3>1, <3>2 DEF Authorize, Passed, HostAdmits
    <3>4. pc'[c] = "granted" /\ MethodFor(c)'.action \in granted'[c]
      BY <2>2, <3>2 DEF TypeInv, CallsTyped
    <3>5. QED
      BY <3>1, <3>2, <3>3, <3>4 DEF GateInv
  <2>3. QED
    BY <1>4, <2>1, <2>2 DEF Authorize
<1>5. QED
  BY <1>1, <1>2, <1>3, <1>4

\* Calls that are over need no grant.
LEMMA ForgetGate ==
  ASSUME GateInv, NEW over \in SUBSET Client, Forget(over), host' = host
  PROVE  GateInv'
<1>1. \A d \in Client : d \in over => pc'[d] = "idle"
  BY DEF Forget
<1>2. \A d \in Client : d \notin over =>
        pc'[d] = pc[d] /\ request'[d] = request[d] /\ granted'[d] = granted[d]
  BY DEF Forget
<1>3. \A d \in Client : d \notin over => MethodFor(d)' = MethodFor(d) /\ (Passed(d)' <=> Passed(d))
  BY <1>2 DEF MethodFor, Passed, HostAdmits
<1>4. QED
  BY <1>1, <1>2, <1>3 DEF GateInv, Writing

\* Nothing else touches a call.
LEMMA StillGate ==
  ASSUME GateInv, UNCHANGED <<pc, request, granted, host>>
  PROVE  GateInv'
<1>1. \A d \in Client : MethodFor(d)' = MethodFor(d) /\ (Passed(d)' <=> Passed(d))
  BY DEF MethodFor, Passed, HostAdmits
<1>2. QED
  BY <1>1 DEF GateInv

\* Every step keeps GateInv.
LEMMA NextGate == TypeInv /\ GateInv /\ [Next]_vars => GateInv'
<1> SUFFICES ASSUME TypeInv, GateInv, [Next]_vars
             PROVE  GateInv'
  OBVIOUS
<1>1. CASE BecomeIdle \/ EditBootOrder \/ UpdateFirmware \/ UNCHANGED vars
  BY <1>1, StillGate DEF BecomeIdle, EditBootOrder, UpdateFirmware, vars, callVars, fixed
<1>2. CASE Start \/ Exit \/ Kill \/ \E c \in Client : Reply(c)
  <2>1. host' = host
    BY <1>2 DEF Start, Exit, Kill, DropCalls, Reply, fixed
  <2>2. CASE UNCHANGED callVars
    BY <2>1, <2>2, StillGate DEF callVars
  <2>3. CASE \E over \in SUBSET Client : Forget(over)
    BY <2>1, <2>3, ForgetGate
  <2>4. QED
    BY <1>2, <2>2, <2>3 DEF Start, Exit, Kill, DropCalls, Reply
<1>3. QED
  BY <1>1, <1>2, WorkGate, EntryGate DEF Next

\* GateInv is an invariant.
LEMMA GateInvariant == Spec => []GateInv
<1>1. Init => GateInv
  BY DEF Init, GateInv, Writing
<1>2. QED
  BY <1>1, NextGate, TypeInvariant, PTL DEF Spec

\* A handler writes only for a caller granted its method's action, on a host that
\* takes such writes.
THEOREM WritesAreAuthorized == Spec => OnlyAuthorizedWrites
<1>1. ASSUME TypeInv, GateInv, NEW c \in Client, Work(c), <<bootVars, log>>' # <<bootVars, log>>
      PROVE  Acts(c) /\ Passed(c)
  <2>1. InPoll(c) /\ \E p \in Steps : pc' = [pc EXCEPT ![c] = p]
    BY <1>1, WorkFrame DEF Busy
  <2>2. UNCHANGED <<bootVars, log>> \/ pc[c] \in Writing
        \/ (pc[c] = "admitted" /\ MethodFor(c).work \notin {"entries", "read", "name"})
    <3> USE DEF Writing, Works
    <3>1. CASE Admit(c) \/ Refuse(c) \/ EmitStarted(c) \/ TakeSnapshot(c) \/ WriteConfig(c)
      BY <3>1 DEF Admit, Refuse, EmitStarted, TakeSnapshot, WriteConfig
    <3>2. CASE PipelineEnds(c) \/ PipelineFails(c) \/ EmitCompleted(c) \/ Write(c)
      BY <3>2 DEF PipelineEnds, PipelineFails, EmitCompleted, Write
    <3>3. CASE ReadBootOrder(c) \/ WriteBootOrder(c) \/ WriteBootNext(c) \/ FindBootNext(c)
               \/ RemoveBootNext(c) \/ ReadOnce(c) \/ ListNames(c) \/ ReadEntries(c)
      BY <3>3 DEF ReadBootOrder, WriteBootOrder, WriteBootNext, FindBootNext, RemoveBootNext,
         ReadOnce, ListNames, ReadEntries
    <3>4. CASE CopyVariable(c) \/ OpenBackupDirectory(c) \/ CreateBackupFile(c)
               \/ BackupFileExists(c) \/ WriteBackupFile(c) \/ EndBackup(c)
               \/ SignUki(c) \/ GenerateEnrollmentRequest(c)
      BY <3>4 DEF CopyVariable, OpenBackupDirectory, CreateBackupFile, BackupFileExists,
         WriteBackupFile, EndBackup, SignUki, GenerateEnrollmentRequest
    <3>5. QED
      BY <1>1, <3>1, <3>2, <3>3, <3>4 DEF Work
  <2>3. Passed(c)
    BY <1>1, <2>2 DEF GateInv
  <2>4. UNCHANGED <<bootVars, log>> \/ pc'[c] # pc[c]
    <3>0. \A p : pc' = [pc EXCEPT ![c] = p] => pc'[c] = p
      BY <1>1 DEF TypeInv, CallsTyped
    <3> USE <3>0 DEF Go, Finish, Works
    <3>1. CASE Admit(c) \/ Refuse(c) \/ EmitStarted(c) \/ TakeSnapshot(c) \/ WriteConfig(c)
      BY <3>1 DEF Admit, Refuse, EmitStarted, TakeSnapshot, WriteConfig
    <3>2. CASE PipelineEnds(c) \/ PipelineFails(c) \/ EmitCompleted(c) \/ Write(c)
      BY <3>2 DEF PipelineEnds, PipelineFails, EmitCompleted, Write
    <3>3. CASE ReadBootOrder(c) \/ WriteBootOrder(c) \/ WriteBootNext(c) \/ FindBootNext(c)
               \/ RemoveBootNext(c) \/ ReadOnce(c) \/ ListNames(c) \/ ReadEntries(c)
      BY <3>3 DEF ReadBootOrder, WriteBootOrder, WriteBootNext, FindBootNext, RemoveBootNext,
         ReadOnce, ListNames, ReadEntries
    <3>4. CASE CopyVariable(c) \/ OpenBackupDirectory(c) \/ CreateBackupFile(c)
               \/ BackupFileExists(c) \/ WriteBackupFile(c) \/ EndBackup(c)
               \/ SignUki(c) \/ GenerateEnrollmentRequest(c)
      BY <3>4 DEF CopyVariable, OpenBackupDirectory, CreateBackupFile, BackupFileExists,
         WriteBackupFile, EndBackup, SignUki, GenerateEnrollmentRequest
    <3>5. QED
      BY <1>1, <3>1, <3>2, <3>3, <3>4 DEF Work
  <2>5. QED
    BY <1>1, <2>1, <2>3, <2>4 DEF Acts
<1>2. ASSUME TypeInv, GateInv, Next, <<bootVars, log>>' # <<bootVars, log>>, outside' = outside
      PROVE  \E c \in Client : Acts(c) /\ Passed(c)
  <2>1. ~(Start \/ BecomeIdle \/ Exit \/ Kill)
    BY <1>2 DEF Start, BecomeIdle, Exit, Kill, DropCalls
  <2>2. ~(EditBootOrder \/ UpdateFirmware)
    BY <1>2 DEF EditBootOrder, UpdateFirmware, TypeInv, CountsTyped
  <2>3. \A c \in Client : ~(Call(c) \/ Begin(c) \/ Reply(c) \/ ResolveUid(c) \/ Authorize(c))
    BY <1>2 DEF Call, Begin, Reply, ResolveUid, Authorize
  <2>4. PICK c \in Client : Work(c)
    BY <1>2, <2>1, <2>2, <2>3 DEF Next
  <2>5. QED
    BY <1>1, <1>2, <2>4
<1>3. UNCHANGED vars => UNCHANGED <<bootVars, log>>
  BY DEF vars, bootVars
<1>4. TypeInv /\ GateInv /\ [Next]_vars =>
        [<<bootVars, log>>' # <<bootVars, log>> /\ outside' = outside =>
           \E c \in Client :
             /\ Acts(c)
             /\ MethodFor(c).action \in granted[c]
             /\ HostAdmits(MethodFor(c), host)]_vars
  BY <1>2, <1>3 DEF Passed
<1>5. QED
  BY <1>4, TypeInvariant, GateInvariant, PTL DEF Spec, OnlyAuthorizedWrites

-----------------------------------------------------------------------------
(* Enrollment                                                              *)

\* Each step belongs to the work of some methods. A call past sbsign left a signed
\* UKI, one that has succeeded an enrollment too.
EnrollInv ==
  /\ pending => signed
  /\ \A c \in Client :
       /\ pc[c] \in {"started", "snapped", "written", "done"} =>
            MethodFor(c).work \in {"grub", "restore"}
       /\ pc[c] = "compared" => MethodFor(c).work \in {"order", "next"}
       /\ pc[c] = "found" => MethodFor(c).work = "clear"
       /\ pc[c] = "listed" => MethodFor(c).work = "entries"
       /\ pc[c] \in {"opened", "creating"} => MethodFor(c).work = "backup"
       /\ pc[c] = "signed" => MethodFor(c).work = "sign" /\ signed
       /\ pc[c] = "finished" /\ reply[c] = "ok" /\ MethodFor(c).work = "sign" =>
            signed /\ pending

\* The demands EnrollInv makes of a call at step p with reply r.
EnrollOK(c, p, r) ==
  /\ p \in {"started", "snapped", "written", "done"} => MethodFor(c).work \in {"grub", "restore"}
  /\ p = "compared" => MethodFor(c).work \in {"order", "next"}
  /\ p = "found" => MethodFor(c).work = "clear"
  /\ p = "listed" => MethodFor(c).work = "entries"
  /\ p \in {"opened", "creating"} => MethodFor(c).work = "backup"
  /\ p = "signed" => MethodFor(c).work = "sign" /\ signed'
  /\ p = "finished" /\ r = "ok" /\ MethodFor(c).work = "sign" => signed' /\ pending'

\* A call moves on, and what was signed or requested stays so.
LEMMA EnrollKept ==
  ASSUME TypeInv, EnrollInv, NEW c \in Client, NEW p, EnrollOK(c, p, reply'[c]),
         pc' = [pc EXCEPT ![c] = p], request' = request,
         \A d \in Client \ {c} : reply'[d] = reply[d],
         signed => signed', pending => pending', pending' => signed'
  PROVE  EnrollInv'
<1>1. \A d \in Client : MethodFor(d)' = MethodFor(d)
  BY DEF MethodFor
<1>2. \A d \in Client : pc'[d] = IF d = c THEN p ELSE pc[d]
  BY DEF TypeInv, CallsTyped
<1>3. QED
  BY <1>1, <1>2 DEF EnrollInv, EnrollOK

\* Handlers at work keep EnrollInv.
LEMMA WorkEnroll ==
  ASSUME TypeInv, EnrollInv, NEW c \in Client, Work(c)
  PROVE  EnrollInv'
<1>1. request' = request
  BY WorkFrame
<1>2. /\ \A r : reply' = [reply EXCEPT ![c] = r] =>
           reply'[c] = r /\ \A d \in Client \ {c} : reply'[d] = reply[d]
      /\ pc = [pc EXCEPT ![c] = pc[c]]
  BY DEF TypeInv, CallsTyped
<1> DEFINE Moves(p) == pc' = [pc EXCEPT ![c] = p] /\ EnrollOK(c, p, reply'[c])
           Others == \A d \in Client \ {c} : reply'[d] = reply[d]
           Keeps == (signed => signed') /\ (pending => pending') /\ (pending' => signed')
<1>3. CASE Admit(c) \/ Refuse(c)
  <2>1. Refusal(MethodFor(c), Arg(c), Tokens) # "ok"
    BY DEF Refusal
  <2>2. Others /\ UNCHANGED <<signed, pending>>
    BY <1>2, <1>3 DEF Admit, Refuse, Finish, bootVars
  <2>3. \/ pc' = [pc EXCEPT ![c] = "admitted"]
        \/ pc' = [pc EXCEPT ![c] = "finished"] /\ reply'[c] # "ok"
    BY <1>2, <1>3, <2>1 DEF Admit, Refuse, Go, Finish
  <2>4. Keeps
    BY <2>2, Zenon DEF EnrollInv
  <2>5. \E p : pc' = [pc EXCEPT ![c] = p] /\ EnrollOK(c, p, reply'[c])
    BY <2>3 DEF EnrollOK
  <2>6. QED
    BY <1>1, <2>2, <2>4, <2>5, EnrollKept
<1>4. CASE EmitStarted(c) \/ TakeSnapshot(c) \/ WriteConfig(c) \/ PipelineEnds(c) \/ PipelineFails(c)
           \/ EmitCompleted(c) \/ Write(c)
  <2>1. Others /\ UNCHANGED <<signed, pending>>
    BY <1>2, <1>4 DEF EmitStarted, TakeSnapshot, WriteConfig, PipelineEnds, PipelineFails,
       EmitCompleted, Write, Go, Finish, bootVars
  <2>2. PICK p \in {"started", "snapped", "written", "done", "finished"} :
          pc' = [pc EXCEPT ![c] = p]
    BY <1>4 DEF EmitStarted, TakeSnapshot, WriteConfig, PipelineEnds, PipelineFails,
       EmitCompleted, Write, Go, Finish
  <2>3. MethodFor(c).work \in {"grub", "restore", "write"}
        /\ (p = "finished" \/ MethodFor(c).work \in {"grub", "restore"})
    <3> USE <1>2, <2>2 DEF Works, Go, Finish, EnrollInv, TypeInv, CallsTyped
    <3>1. CASE EmitStarted(c) \/ TakeSnapshot(c)
      BY <3>1 DEF EmitStarted, TakeSnapshot
    <3>2. CASE WriteConfig(c) \/ EmitCompleted(c)
      BY <3>2 DEF WriteConfig, EmitCompleted
    <3>3. CASE PipelineEnds(c) \/ PipelineFails(c)
      BY <3>3 DEF PipelineEnds, PipelineFails
    <3>4. CASE Write(c)
      BY <3>4 DEF Write
    <3>5. QED
      BY <1>4, <3>1, <3>2, <3>3, <3>4
  <2>4. EnrollOK(c, p, reply'[c])
    BY <2>2, <2>3 DEF EnrollOK
  <2>5. Keeps
    BY <2>1, Zenon DEF EnrollInv
  <2>6. QED
    BY <1>1, <2>1, <2>2, <2>4, <2>5, EnrollKept
<1>5. CASE ReadBootOrder(c) \/ WriteBootOrder(c) \/ WriteBootNext(c) \/ FindBootNext(c)
           \/ RemoveBootNext(c) \/ ReadOnce(c) \/ ListNames(c) \/ ReadEntries(c)
  <2>1. Others /\ UNCHANGED <<signed, pending>>
    BY <1>2, <1>5 DEF ReadBootOrder, WriteBootOrder, WriteBootNext, FindBootNext, RemoveBootNext,
       ReadOnce, ListNames, ReadEntries, Go, Finish, bootVars
  <2>2. PICK p \in {"compared", "found", "listed", "finished"} : pc' = [pc EXCEPT ![c] = p]
    BY <1>5 DEF ReadBootOrder, WriteBootOrder, WriteBootNext, FindBootNext, RemoveBootNext,
       ReadOnce, ListNames, ReadEntries, Go, Finish
  <2>3. /\ MethodFor(c).work # "sign"
        /\ p = "compared" => MethodFor(c).work \in {"order", "next"}
        /\ p = "found" => MethodFor(c).work = "clear"
        /\ p = "listed" => MethodFor(c).work = "entries"
    <3> USE <1>2, <2>2 DEF Works, Go, Finish, EnrollInv, TypeInv, CallsTyped
    <3>1. CASE ReadBootOrder(c) \/ WriteBootOrder(c) \/ WriteBootNext(c)
      BY <3>1 DEF ReadBootOrder, WriteBootOrder, WriteBootNext
    <3>2. CASE FindBootNext(c) \/ RemoveBootNext(c)
      BY <3>2 DEF FindBootNext, RemoveBootNext
    <3>3. CASE ReadOnce(c) \/ ListNames(c) \/ ReadEntries(c)
      BY <3>3 DEF ReadOnce, ListNames, ReadEntries
    <3>4. QED
      BY <1>5, <3>1, <3>2, <3>3
  <2>4. EnrollOK(c, p, reply'[c])
    BY <2>2, <2>3 DEF EnrollOK
  <2>5. Keeps
    BY <2>1, Zenon DEF EnrollInv
  <2>6. QED
    BY <1>1, <2>1, <2>2, <2>4, <2>5, EnrollKept
<1>6. CASE CopyVariable(c) \/ OpenBackupDirectory(c) \/ CreateBackupFile(c) \/ BackupFileExists(c)
           \/ WriteBackupFile(c) \/ EndBackup(c)
  <2>1. Others /\ UNCHANGED <<signed, pending>>
    BY <1>2, <1>6 DEF CopyVariable, OpenBackupDirectory, CreateBackupFile, BackupFileExists,
       WriteBackupFile, EndBackup, Go, Finish, bootVars
  <2>2. PICK p \in {"admitted", "opened", "creating", "finished"} : pc' = [pc EXCEPT ![c] = p]
    BY <1>2, <1>6 DEF CopyVariable, OpenBackupDirectory, CreateBackupFile, BackupFileExists,
       WriteBackupFile, EndBackup, Works, Go, Finish
  <2>3. MethodFor(c).work = "backup"
    <3> USE DEF Works, EnrollInv
    <3>1. CASE CopyVariable(c) \/ OpenBackupDirectory(c)
      BY <3>1 DEF CopyVariable, OpenBackupDirectory
    <3>2. CASE CreateBackupFile(c) \/ BackupFileExists(c) \/ WriteBackupFile(c) \/ EndBackup(c)
      BY <3>2 DEF CreateBackupFile, BackupFileExists, WriteBackupFile, EndBackup
    <3>3. QED
      BY <1>6, <3>1, <3>2
  <2>4. EnrollOK(c, p, reply'[c])
    BY <2>2, <2>3 DEF EnrollOK
  <2>5. Keeps
    BY <2>1, Zenon DEF EnrollInv
  <2>6. QED
    BY <1>1, <2>1, <2>2, <2>4, <2>5, EnrollKept
<1>7. CASE SignUki(c)
  <2>1. Others /\ UNCHANGED pending
    BY <1>2, <1>7 DEF SignUki, Go, Finish
  <2>2. signed' = TRUE \/ signed' = signed
    BY <1>7, Zenon DEF SignUki
  <2>3. Keeps
    BY <2>1, <2>2, Zenon DEF EnrollInv
  <2>4. \/ pc' = [pc EXCEPT ![c] = "signed"] /\ signed'
        \/ pc' = [pc EXCEPT ![c] = "finished"] /\ reply'[c] # "ok"
    BY <1>2, <1>7 DEF SignUki, Go, Finish
  <2>5. MethodFor(c).work = "sign"
    BY <1>7 DEF SignUki, Works
  <2>6. \E p : pc' = [pc EXCEPT ![c] = p] /\ EnrollOK(c, p, reply'[c])
    BY <2>4, <2>5 DEF EnrollOK
  <2>7. QED
    BY <1>1, <2>1, <2>3, <2>6, EnrollKept
<1>8. CASE GenerateEnrollmentRequest(c)
  <2>1. Others /\ Keeps /\ \E p : Moves(p)
    BY <1>2, <1>8 DEF GenerateEnrollmentRequest, Go, Finish, EnrollOK, EnrollInv
  <2>2. QED
    BY <1>1, <2>1, EnrollKept
<1>9. QED
  BY <1>3, <1>4, <1>5, <1>6, <1>7, <1>8 DEF Work

\* Steps before or after the work of a handler, and those of other programs.
LEMMA OtherEnroll ==
  ASSUME TypeInv, EnrollInv, [Next]_vars, ~\E c \in Client : Work(c)
  PROVE  EnrollInv'
<1>1. UNCHANGED <<signed, pending>>
  BY DEF Next, Start, BecomeIdle, Exit, Kill, DropCalls, Call, Begin, Reply, ResolveUid,
     Authorize, EditBootOrder, UpdateFirmware, bootVars, vars
<1>2. ASSUME NEW d \in Client
      PROVE  \/ pc'[d] = pc[d] /\ request'[d] = request[d] /\ reply'[d] = reply[d]
             \/ pc'[d] \in {"idle", "sent", "called", "resolved", "granted", "admitted"}
             \/ pc'[d] = "finished" /\ reply'[d] # "ok"
  <2>1. ASSUME NEW over \in SUBSET Client, Forget(over)
        PROVE  \/ pc'[d] = pc[d] /\ request'[d] = request[d] /\ reply'[d] = reply[d]
               \/ pc'[d] = "idle"
    BY <2>1 DEF Forget
  <2>2. CASE Start \/ BecomeIdle \/ Exit \/ Kill \/ \E c \in Client : Reply(c)
    BY <2>1, <2>2 DEF Start, BecomeIdle, Exit, Kill, DropCalls, Reply, callVars
  <2>3. ASSUME NEW c \in Client, Call(c) \/ Begin(c) \/ ResolveUid(c) \/ Authorize(c)
        PROVE  \/ pc'[d] = pc[d] /\ request'[d] = request[d] /\ reply'[d] = reply[d]
               \/ pc'[d] \in {"idle", "sent", "called", "resolved", "granted", "admitted"}
               \/ pc'[d] = "finished" /\ reply'[d] # "ok"
    BY <2>3 DEF Call, Begin, ResolveUid, Authorize, Go, Finish, TypeInv, CallsTyped
  <2>4. CASE EditBootOrder \/ UpdateFirmware \/ UNCHANGED vars
    BY <2>4 DEF EditBootOrder, UpdateFirmware, callVars, vars
  <2>5. QED
    BY <2>2, <2>3, <2>4 DEF Next
<1>3. \A d \in Client : request'[d] = request[d] => MethodFor(d)' = MethodFor(d)
  BY DEF MethodFor
<1>4. QED
  BY <1>1, <1>2, <1>3 DEF EnrollInv

\* An enrollment is requested only for a signed UKI, and success means both.
THEOREM EnrolledWasSigned == Spec => []EnrolledIsSigned
<1>1. Init => EnrollInv
  BY DEF Init, EnrollInv
<1>2. TypeInv /\ EnrollInv /\ [Next]_vars => EnrollInv'
  BY WorkEnroll, OtherEnroll
<1>3. EnrollInv => EnrolledIsSigned
  BY DEF EnrollInv, EnrolledIsSigned
<1>4. QED
  BY <1>1, <1>2, <1>3, TypeInvariant, PTL DEF Spec

-----------------------------------------------------------------------------
(* NVRAM backup                                                            *)

Place(c, copy) == <<TargetDir(c), copy.var>>

\* A file that a call has created holds a part until the call has written it, two
\* calls never have the same file open, and what was returned is whole.
BackupInv ==
  /\ \A c \in Client :
       /\ pc[c] = "idle" => copies[c] = {}
       /\ \A copy \in copies[c] :
            /\ copy.file = "created" => backup[Place(c, copy)] = "part"
            /\ copy.file = "written" => backup[Place(c, copy)] = copy.bytes
            /\ \A other \in copies[c] : other.var = copy.var => other = copy
            /\ \A d \in Client \ {c} : \A other \in copies[d] :
                 copy.file = "created" /\ other.file = "created" =>
                   Place(c, copy) # Place(d, other)
  /\ \A f \in kept :
       /\ f.dir \in Dir /\ f.var \in SecureBoot /\ f.bytes \in {"old", "new"}
       /\ backup[<<f.dir, f.var>>] = f.bytes

\* A call that holds copies is under way, at a place of the backup.
LEMMA PlaceType ==
  ASSUME TypeInv, BackupInv, NEW c \in Client, NEW copy \in copies[c]
  PROVE  /\ pc[c] # "idle"
         /\ copy \in Copy
         /\ Place(c, copy) \in Dir \X SecureBoot
<1>1. pc[c] # "idle"
  BY DEF BackupInv
<1>2. copy \in Copy
  BY DEF TypeInv, CallsTyped
<1>3. TargetDir(c) \in Dir
  BY <1>1, TargetDirType
<1>4. QED
  BY <1>1, <1>2, <1>3 DEF Place, Copy

\* Steps that write no backup file and return none; what calls hold, they keep or lose.
LEMMA BackupStill ==
  ASSUME TypeInv, BackupInv, UNCHANGED <<backup, kept>>,
         \A d \in Client :
           \/ copies'[d] = {}
           \/ /\ copies'[d] = copies[d] /\ request'[d] = request[d] /\ job'[d] = job[d]
              /\ pc'[d] # "idle"
  PROVE  BackupInv'
<1>1. \A d \in Client : \A copy \in copies'[d] :
        copy \in copies[d] /\ Place(d, copy)' = Place(d, copy)
  BY DEF Place, TargetDir, Arg
<1>2. QED
  BY <1>1 DEF BackupInv

\* A handler that has nothing to do with backups.
LEMMA OtherWorkBackup ==
  ASSUME TypeInv, BackupInv, NEW c \in Client, Work(c),
         ~(CopyVariable(c) \/ CreateBackupFile(c) \/ WriteBackupFile(c) \/ EndBackup(c))
  PROVE  BackupInv'
<1>1. UNCHANGED <<backup, kept, copies, request, job>>
  <2>1. CASE Admit(c) \/ Refuse(c) \/ EmitStarted(c) \/ TakeSnapshot(c) \/ WriteConfig(c)
             \/ PipelineEnds(c) \/ PipelineFails(c) \/ EmitCompleted(c) \/ Write(c)
    BY <2>1 DEF Admit, Refuse, EmitStarted, TakeSnapshot, WriteConfig, PipelineEnds,
       PipelineFails, EmitCompleted, Write, bootVars, history
  <2>2. CASE ReadBootOrder(c) \/ WriteBootOrder(c) \/ WriteBootNext(c) \/ FindBootNext(c)
             \/ RemoveBootNext(c) \/ ReadOnce(c) \/ ListNames(c) \/ ReadEntries(c)
    BY <2>2 DEF ReadBootOrder, WriteBootOrder, WriteBootNext, FindBootNext, RemoveBootNext,
       ReadOnce, ListNames, ReadEntries, bootVars, history
  <2>3. CASE OpenBackupDirectory(c) \/ BackupFileExists(c) \/ SignUki(c)
             \/ GenerateEnrollmentRequest(c)
    BY <2>3 DEF OpenBackupDirectory, BackupFileExists, SignUki, GenerateEnrollmentRequest,
       bootVars, history
  <2>4. QED
    BY <2>1, <2>2, <2>3 DEF Work
<1>2. PICK p \in Busy : pc' = [pc EXCEPT ![c] = p]
  BY WorkFrame
<1>3. \A d \in Client : pc'[d] = "idle" => pc[d] = "idle"
  BY <1>2 DEF Busy, Steps, TypeInv, CallsTyped
<1>4. QED
  BY <1>1, <1>3, BackupStill DEF BackupInv

\* A variable is read, once.
LEMMA CopyBackup ==
  ASSUME TypeInv, BackupInv, NEW c \in Client, CopyVariable(c)
  PROVE  BackupInv'
<1>1. PICK v \in SecureBoot :
        /\ \A copy \in copies[c] : copy.var # v
        /\ copies' = [copies EXCEPT ![c] =
             copies[c] \union {[var |-> v, bytes |-> firmware[v], file |-> "none"]}]
  BY DEF CopyVariable
<1> DEFINE new == [var |-> v, bytes |-> firmware[v], file |-> "none"]
<1>2. new.var = v /\ new.file = "none"
  OBVIOUS
<1>3. /\ UNCHANGED <<backup, kept, pc>> /\ pc[c] # "idle"
      /\ \A d \in Client : \A copy : Place(d, copy)' = Place(d, copy)
  BY DEF CopyVariable, Works, Place, TargetDir, Arg, bootVars, history
<1> HIDE DEF new
<1>4. \A d \in Client : copies'[d] = IF d = c THEN copies[d] \union {new} ELSE copies[d]
  BY <1>1 DEF TypeInv, CallsTyped, new
<1>5. QED
  BY <1>1, <1>2, <1>3, <1>4 DEF BackupInv

\* A call takes one of its files a step on: the others are elsewhere and stay.
LEMMA BackupFileStep ==
  ASSUME TypeInv, BackupInv, NEW c \in Client, NEW copy \in copies[c],
         NEW new, new.var = copy.var, NEW bytes,
         copies' = [copies EXCEPT ![c] = (copies[c] \ {copy}) \union {new}],
         backup' = [backup EXCEPT ![Place(c, copy)] = bytes],
         \/ /\ copy.file = "none" /\ backup[Place(c, copy)] = "none"
            /\ new.file = "created" /\ bytes = "part"
         \/ copy.file = "created" /\ new.file = "written" /\ bytes = new.bytes,
         UNCHANGED <<kept, request, job>>,
         \A d \in Client : pc'[d] = "idle" => pc[d] = "idle" /\ d # c
  PROVE  BackupInv'
<1>1. /\ pc[c] # "idle" /\ copy \in Copy
      /\ Place(c, copy) \in Dir \X SecureBoot
  BY PlaceType
<1>2. \A d \in Client : \A other : Place(d, other)' = Place(d, other)
  BY DEF Place, TargetDir, Arg
<1>3. \A q \in Dir \X SecureBoot : backup'[q] = IF q = Place(c, copy) THEN bytes ELSE backup[q]
  BY <1>1 DEF TypeInv, BootTyped
<1>4. \A d \in Client :
        copies'[d] = IF d = c THEN (copies[d] \ {copy}) \union {new} ELSE copies[d]
  BY DEF TypeInv, CallsTyped
<1>5. Place(c, new) = Place(c, copy)
  BY DEF Place
<1>6. backup[Place(c, copy)] \in {"none", "part"}
  BY DEF BackupInv
<1>7. ASSUME NEW d \in Client, NEW other \in copies[d],
             other.file \in {"created", "written"}, d # c \/ other # copy
      PROVE  /\ Place(d, other) # Place(c, copy)
             /\ backup'[Place(d, other)] = backup[Place(d, other)]
  <2>1. CASE other.file = "written"
    <3>1. backup[Place(d, other)] \in {"old", "new"}
      BY <2>1, PlaceType DEF BackupInv, Copy
    <3>2. QED
      BY <1>3, <1>6, <3>1, PlaceType
  <2>2. CASE other.file = "created" /\ d = c
    <3>1. other.var # copy.var
      BY <1>7, <2>2 DEF BackupInv
    <3>2. QED
      BY <1>3, <2>2, <3>1, PlaceType DEF Place
  <2>3. CASE other.file = "created" /\ d # c
    <3>1. Place(d, other) # Place(c, copy)
      BY <2>3 DEF BackupInv
    <3>2. QED
      BY <1>3, <3>1, PlaceType
  <2>4. QED
    BY <1>7, <2>1, <2>2, <2>3
<1>8. ASSUME NEW f \in kept
      PROVE  backup'[<<f.dir, f.var>>] = backup[<<f.dir, f.var>>]
  <2>1. /\ <<f.dir, f.var>> \in Dir \X SecureBoot
        /\ backup[<<f.dir, f.var>>] \in {"old", "new"}
    BY DEF BackupInv
  <2>2. QED
    BY <1>3, <1>6, <2>1
<1>9. ASSUME NEW d \in Client, NEW other \in copies'[d]
      PROVE  \/ d = c /\ other = new
             \/ other \in copies[d] /\ (d # c \/ other # copy)
  BY <1>4
<1>10. ASSUME NEW d \in Client
       PROVE  pc'[d] = "idle" => copies'[d] = {}
  BY <1>4 DEF BackupInv
<1>11. ASSUME NEW d \in Client, NEW other \in copies'[d]
       PROVE  /\ other.file = "created" => backup'[Place(d, other)] = "part"
              /\ other.file = "written" => backup'[Place(d, other)] = other.bytes
  <2>1. CASE d = c /\ other = new
    BY <1>1, <1>3, <1>5, <2>1
  <2>2. CASE other \in copies[d] /\ (d # c \/ other # copy)
    BY <1>7, <2>2 DEF BackupInv
  <2>3. QED
    BY <1>9, <2>1, <2>2
<1>12. ASSUME NEW d \in Client, NEW one \in copies'[d], NEW other \in copies'[d],
              other.var = one.var
       PROVE  other = one
  BY <1>9, <1>12 DEF BackupInv
<1>13. ASSUME NEW d \in Client, NEW one \in copies'[d], NEW e \in Client \ {d},
              NEW other \in copies'[e], one.file = "created", other.file = "created"
       PROVE  Place(d, one) # Place(e, other)
  <2>1. CASE d = c /\ one = new
    BY <1>5, <1>7, <1>9, <1>13, <2>1
  <2>2. CASE e = c /\ other = new
    BY <1>5, <1>7, <1>9, <1>13, <2>2
  <2>3. CASE one \in copies[d] /\ other \in copies[e]
    BY <1>13, <2>3 DEF BackupInv
  <2>4. QED
    BY <1>9, <2>1, <2>2, <2>3
<1>14. QED
  BY <1>2, <1>8, <1>10, <1>11, <1>12, <1>13 DEF BackupInv

\* A file that is not there is created.
LEMMA CreateBackup ==
  ASSUME TypeInv, BackupInv, NEW c \in Client, CreateBackupFile(c)
  PROVE  BackupInv'
<1>1. PICK copy \in copies[c] :
        /\ copy.file = "none"
        /\ backup[Place(c, copy)] = "none"
        /\ backup' = [backup EXCEPT ![Place(c, copy)] = "part"]
        /\ At(c, copy, "created")
  BY DEF CreateBackupFile, Place
<1> DEFINE new == [copy EXCEPT !.file = "created"]
<1>2. new.var = copy.var /\ new.file = "created"
  BY PlaceType DEF Copy
<1>3. copies' = [copies EXCEPT ![c] = (copies[c] \ {copy}) \union {new}]
  BY <1>1 DEF At
<1> HIDE DEF new
<1>4. /\ UNCHANGED <<kept, request, job>>
      /\ \A d \in Client : pc'[d] = "idle" => pc[d] = "idle" /\ d # c
  BY DEF CreateBackupFile, Go, history, TypeInv, CallsTyped
<1>5. QED
  BY <1>1, <1>2, <1>3, <1>4, BackupFileStep

\* A file is written by the call that created it, or stays a part.
LEMMA WriteBackup ==
  ASSUME TypeInv, BackupInv, NEW c \in Client, WriteBackupFile(c)
  PROVE  BackupInv'
<1>1. /\ UNCHANGED <<kept, request, job>>
      /\ \A d \in Client : pc'[d] = "idle" => pc[d] = "idle" /\ d # c
  BY DEF WriteBackupFile, Go, Finish, history, TypeInv, CallsTyped
<1>2. CASE UNCHANGED <<backup, copies>>
  BY <1>1, <1>2, BackupStill DEF BackupInv
<1>3. CASE \E copy \in copies[c] :
             /\ copy.file = "created"
             /\ backup' = [backup EXCEPT ![Place(c, copy)] = copy.bytes]
             /\ At(c, copy, "written")
  <2>1. PICK copy \in copies[c] :
          /\ copy.file = "created"
          /\ backup' = [backup EXCEPT ![Place(c, copy)] = copy.bytes]
          /\ At(c, copy, "written")
    BY <1>3
  <2> DEFINE new == [copy EXCEPT !.file = "written"]
  <2>2. new.var = copy.var /\ new.file = "written" /\ new.bytes = copy.bytes
    BY PlaceType DEF Copy
  <2>3. copies' = [copies EXCEPT ![c] = (copies[c] \ {copy}) \union {new}]
    BY <2>1 DEF At
  <2> HIDE DEF new
  <2>4. QED
    BY <1>1, <2>1, <2>2, <2>3, BackupFileStep
<1>4. QED
  BY <1>2, <1>3 DEF WriteBackupFile, Place

\* Only written files are returned.
LEMMA EndOfBackup ==
  ASSUME TypeInv, BackupInv, NEW c \in Client, EndBackup(c)
  PROVE  BackupInv'
<1>1. /\ \A copy \in copies[c] : copy.file = "written"
      /\ kept' = kept \union
           {[dir |-> TargetDir(c), var |-> copy.var, bytes |-> copy.bytes] : copy \in copies[c]}
      /\ UNCHANGED <<backup, copies, request, job>>
      /\ \A d \in Client : pc'[d] = "idle" => pc[d] = "idle"
  BY DEF EndBackup, Go, Finish, bootVars, TypeInv, CallsTyped
<1>2. \A copy \in copies[c] :
        /\ TargetDir(c) \in Dir /\ copy.var \in SecureBoot /\ copy.bytes \in {"old", "new"}
        /\ backup[<<TargetDir(c), copy.var>>] = copy.bytes
  BY <1>1, PlaceType, TargetDirType DEF BackupInv, Place, Copy
<1>3. \A f \in kept' :
        /\ f.dir \in Dir /\ f.var \in SecureBoot /\ f.bytes \in {"old", "new"}
        /\ backup'[<<f.dir, f.var>>] = f.bytes
  <2> SUFFICES ASSUME NEW f \in kept'
               PROVE  /\ f.dir \in Dir /\ f.var \in SecureBoot /\ f.bytes \in {"old", "new"}
                      /\ backup[<<f.dir, f.var>>] = f.bytes
    BY <1>1
  <2>1. CASE f \in kept
    BY <2>1 DEF BackupInv
  <2>2. CASE \E copy \in copies[c] :
               f = [dir |-> TargetDir(c), var |-> copy.var, bytes |-> copy.bytes]
    BY <1>2, <2>2
  <2>3. QED
    BY <1>1, <2>1, <2>2
<1>4. \A d \in Client : \A copy : Place(d, copy)' = Place(d, copy)
  BY <1>1 DEF Place, TargetDir, Arg
<1>5. QED
  BY <1>1, <1>3, <1>4 DEF BackupInv

\* The bus, the gate, the daemon's life and other programs.
LEMMA OtherBackup ==
  ASSUME TypeInv, BackupInv, [Next]_vars, ~\E c \in Client : Work(c)
  PROVE  BackupInv'
<1>1. UNCHANGED <<backup, kept>>
  BY DEF Next, Start, BecomeIdle, Exit, Kill, DropCalls, Call, Begin, Reply, ResolveUid,
     Authorize, EditBootOrder, UpdateFirmware, bootVars, history, vars
<1>2. ASSUME NEW d \in Client
      PROVE  \/ copies'[d] = {}
             \/ /\ copies'[d] = copies[d] /\ request'[d] = request[d] /\ job'[d] = job[d]
                /\ pc'[d] # "idle"
  <2>1. pc[d] = "idle" => copies[d] = {}
    BY DEF BackupInv
  <2>2. ASSUME NEW over \in SUBSET Client, Forget(over)
        PROVE  \/ copies'[d] = {}
               \/ /\ copies'[d] = copies[d] /\ request'[d] = request[d] /\ job'[d] = job[d]
                  /\ pc'[d] # "idle"
    BY <2>1, <2>2 DEF Forget
  <2>3. CASE Start \/ BecomeIdle \/ Exit \/ Kill \/ \E c \in Client : Reply(c)
    BY <2>1, <2>2, <2>3 DEF Start, BecomeIdle, Exit, Kill, DropCalls, Reply, callVars
  <2>4. ASSUME NEW c \in Client, Call(c) \/ Begin(c) \/ ResolveUid(c) \/ Authorize(c)
        PROVE  \/ copies'[d] = {}
               \/ /\ copies'[d] = copies[d] /\ request'[d] = request[d] /\ job'[d] = job[d]
                  /\ pc'[d] # "idle"
    BY <2>1, <2>4 DEF Call, Begin, ResolveUid, Authorize, Go, Finish, TypeInv, CallsTyped
  <2>5. CASE EditBootOrder \/ UpdateFirmware \/ UNCHANGED vars
    BY <2>1, <2>5 DEF EditBootOrder, UpdateFirmware, callVars, vars
  <2>6. QED
    BY <2>3, <2>4, <2>5 DEF Next
<1>3. QED
  BY <1>1, <1>2, BackupStill

\* The files a backup has returned stay as they were returned.
THEOREM BackupsStay == Spec => []BackupIsKept
<1>1. Init => BackupInv
  BY DEF Init, BackupInv
<1>2. TypeInv /\ BackupInv /\ [Next]_vars => BackupInv'
  BY OtherWorkBackup, CopyBackup, CreateBackup, WriteBackup, EndOfBackup, OtherBackup
<1>3. BackupInv => BackupIsKept
  BY DEF BackupInv, BackupIsKept
<1>4. QED
  BY <1>1, <1>2, <1>3, TypeInvariant, PTL DEF Spec

-----------------------------------------------------------------------------
(* Boot variables                                                          *)

Like(o, p) == Entries(o) = Entries(p) /\ Len(o) = Len(p)

\* While nobody else edits it, the order is the firmware's in another order, also as a
\* call has read it.
BootInv ==
  outside = 0 =>
    /\ \E o \in BootOrders : Like(order, o)
    /\ next \in Entries(order) \union {NoNext}
    /\ \A c \in Client : pc[c] = "compared" => Like(seen[c], order)

\* Steps that leave the variables alone, and bring no call to where it has read them.
LEMMA BootStill ==
  ASSUME BootInv, UNCHANGED <<order, next>>, outside' = outside,
         \A d \in Client : pc'[d] = "compared" => pc[d] = "compared" /\ seen'[d] = seen[d]
  PROVE  BootInv'
<1>1. Entries(order)' = Entries(order) /\ Len(order)' = Len(order)
  OBVIOUS
<1>2. \A d \in Client : pc'[d] = "compared" =>
        pc[d] = "compared" /\ Entries(seen'[d]) = Entries(seen[d]) /\ Len(seen'[d]) = Len(seen[d])
  OBVIOUS
<1>3. QED
  BY <1>1, <1>2 DEF BootInv, Like

\* Handlers at work keep the entries.
LEMMA WorkBoot ==
  ASSUME TypeInv, BootInv, NEW c \in Client, Work(c)
  PROVE  BootInv'
<1>1. outside' = outside
  BY WorkFrame
<1> USE DEF Go, Finish
<1>2. CASE WriteBootOrder(c)
  <2>1. CASE order' = order
    <3>1. \A d \in Client : pc'[d] = "compared" => pc[d] = "compared" /\ seen'[d] = seen[d]
      BY <1>2 DEF WriteBootOrder, TypeInv, CallsTyped
    <3>2. QED
      BY <1>1, <1>2, <2>1, <3>1, BootStill DEF WriteBootOrder
  <2>2. CASE pc[c] = "compared" /\ IsPermutation(Arg(c), seen[c]) /\ order' = Arg(c)
    <3>1. Like(order', seen[c])
      BY <2>2 DEF IsPermutation, Like
    <3>2. \A d \in Client : pc'[d] = "compared" => pc[d] = "compared"
      BY <1>2 DEF WriteBootOrder, TypeInv, CallsTyped
    <3>3. next' = next /\ seen' = seen
      BY <1>2 DEF WriteBootOrder
    <3>4. QED
      BY <1>1, <2>2, <3>1, <3>2, <3>3 DEF BootInv, Like
  <2>3. QED
    BY <1>2, <2>1, <2>2, StoredIsArgument DEF WriteBootOrder
<1>3. CASE WriteBootNext(c) \/ RemoveBootNext(c)
  <2>1. /\ order' = order /\ seen' = seen
        /\ \A d \in Client : pc'[d] = "compared" => pc[d] = "compared"
    BY <1>3 DEF WriteBootNext, RemoveBootNext, TypeInv, CallsTyped
  <2>2. \/ next' = next \/ next' = NoNext
        \/ pc[c] = "compared" /\ next' \in Entries(seen[c])
    BY <1>3, StoredIsArgument DEF WriteBootNext, RemoveBootNext
  <2>3. QED
    BY <1>1, <2>1, <2>2 DEF BootInv, Like
<1>4. CASE ReadBootOrder(c)
  <2>1. /\ UNCHANGED <<order, next>>
        /\ \A d \in Client :
             pc'[d] = "compared" => \/ pc[d] = "compared" /\ seen'[d] = seen[d]
                                    \/ seen'[d] = order
    BY <1>4 DEF ReadBootOrder, bootVars, TypeInv, CallsTyped
  <2>2. QED
    BY <1>1, <2>1 DEF BootInv, Like
<1>5. CASE ~(WriteBootOrder(c) \/ WriteBootNext(c) \/ RemoveBootNext(c) \/ ReadBootOrder(c))
  <2> USE DEF TypeInv, CallsTyped, bootVars, Works
  <2>1. CASE Admit(c) \/ Refuse(c)
    BY <1>1, <2>1, BootStill DEF Admit, Refuse
  <2>2. CASE EmitStarted(c) \/ TakeSnapshot(c) \/ WriteConfig(c)
    BY <1>1, <2>2, BootStill DEF EmitStarted, TakeSnapshot, WriteConfig
  <2>3. CASE PipelineEnds(c) \/ PipelineFails(c) \/ EmitCompleted(c) \/ Write(c)
    BY <1>1, <2>3, BootStill DEF PipelineEnds, PipelineFails, EmitCompleted, Write
  <2>4. CASE FindBootNext(c) \/ ReadOnce(c) \/ ReadEntries(c)
    BY <1>1, <2>4, BootStill DEF FindBootNext, ReadOnce, ReadEntries
  <2>5. CASE ListNames(c)
    BY <1>1, <2>5, BootStill DEF ListNames
  <2>6. CASE CopyVariable(c) \/ OpenBackupDirectory(c) \/ BackupFileExists(c) \/ EndBackup(c)
    BY <1>1, <2>6, BootStill DEF CopyVariable, OpenBackupDirectory, BackupFileExists, EndBackup
  <2>7. CASE CreateBackupFile(c) \/ WriteBackupFile(c)
    BY <1>1, <2>7, BootStill DEF CreateBackupFile, WriteBackupFile
  <2>8. CASE SignUki(c) \/ GenerateEnrollmentRequest(c)
    BY <1>1, <2>8, BootStill DEF SignUki, GenerateEnrollmentRequest
  <2>9. QED
    BY <1>5, <2>1, <2>2, <2>3, <2>4, <2>5, <2>6, <2>7, <2>8 DEF Work
<1>6. QED
  BY <1>2, <1>3, <1>4, <1>5

\* The bus, the gate, the daemon's life and other programs.
LEMMA OtherBoot ==
  ASSUME TypeInv, BootInv, [Next]_vars, ~\E c \in Client : Work(c)
  PROVE  BootInv'
<1>1. CASE EditBootOrder \/ UpdateFirmware
  <2>1. outside' # 0
    BY <1>1 DEF EditBootOrder, UpdateFirmware, TypeInv, CountsTyped
  <2>2. QED
    BY <2>1 DEF BootInv
<1>2. CASE ~(EditBootOrder \/ UpdateFirmware)
  <2>1. UNCHANGED <<order, next>> /\ outside' = outside
    BY <1>2 DEF Next, Start, BecomeIdle, Exit, Kill, DropCalls, Call, Begin, Reply, ResolveUid,
       Authorize, bootVars, history, vars
  <2>2. ASSUME NEW d \in Client
        PROVE  pc'[d] = "compared" => pc[d] = "compared" /\ seen'[d] = seen[d]
    <3>1. ASSUME NEW over \in SUBSET Client, Forget(over)
          PROVE  pc'[d] = "compared" => pc[d] = "compared" /\ seen'[d] = seen[d]
      BY <3>1 DEF Forget
    <3>2. CASE Start \/ BecomeIdle \/ Exit \/ Kill \/ \E c \in Client : Reply(c)
      BY <3>1, <3>2 DEF Start, BecomeIdle, Exit, Kill, DropCalls, Reply, callVars
    <3>3. ASSUME NEW c \in Client, Call(c) \/ Begin(c) \/ ResolveUid(c) \/ Authorize(c)
          PROVE  pc'[d] = "compared" => pc[d] = "compared" /\ seen'[d] = seen[d]
      BY <3>3 DEF Call, Begin, ResolveUid, Authorize, Go, Finish, TypeInv, CallsTyped
    <3>4. CASE UNCHANGED vars
      BY <3>4 DEF vars
    <3>5. QED
      BY <1>2, <3>2, <3>3, <3>4 DEF Next
  <2>3. QED
    BY <2>1, <2>2, BootStill
<1>3. QED
  BY <1>1, <1>2

\* Overlapping calls alone lose no boot entry and leave BootNext on one of them.
THEOREM EntriesStayReachable == Spec => []BootVariablesAgree
<1>1. Init => BootInv
  <2>1. Init => order \in BootOrders /\ next = NoNext /\ \A c \in Client : pc[c] = "idle"
    BY DEF Init
  <2>2. QED
    BY <2>1 DEF BootInv, Like
<1>2. TypeInv /\ BootInv /\ [Next]_vars => BootInv'
  BY WorkBoot, OtherBoot
<1>3. BootInv => BootVariablesAgree
  BY DEF BootInv, BootVariablesAgree, Like
<1>4. QED
  BY <1>1, <1>2, <1>3, TypeInvariant, PTL DEF Spec

-----------------------------------------------------------------------------
(* The evidence                                                            *)

AuditRow ==
  [job : 1..MaxCalls, operation : DOMAIN MethodOf, phase : DOMAIN PhaseRank, exit_code : {0, 1}]

Audited == {"started", "snapped", "written", "done", "finished"}

\* The phases call c has rows of, by where it is, if its job is j.
RowsOK(c, j) ==
  /\ pc[c] = "started" => Logged(j) = {"started"}
  /\ pc[c] = "snapped" => Logged(j) = {"started", "snapshot_taken"}
  /\ pc[c] = "written" =>
       /\ "started" \in Logged(j) /\ "completed" \notin Logged(j)
       /\ MethodFor(c).work = "grub" => "snapshot_taken" \in Logged(j)
  /\ pc[c] = "done" =>
       /\ "started" \in Logged(j) /\ "completed" \notin Logged(j)
       /\ MethodFor(c).work = "grub" /\ reply[c] = "ok" => "snapshot_taken" \in Logged(j)
  /\ pc[c] = "finished" => Logged(j) = {} \/ "completed" \in Logged(j)
  /\ pc[c] \notin Audited => Logged(j) = {}

\* Call c is in flight, with job j.
Has(c, j) == pc[c] # "idle" /\ job[c] = j

\* Calls in flight have jobs of their own, and each the rows of where it is.
EvidenceInv ==
  /\ log \in Seq(AuditRow)
  /\ \A j \in Jobs : j <= calls
  /\ \A c \in Client, j \in 1..MaxCalls : Has(c, j) =>
       /\ j <= calls
       /\ \A d \in Client \ {c} : ~Has(d, j)
       /\ RowsOK(c, j)
  /\ EvidenceIsComplete

\* Only RestoreSnapshot restores.
LEMMA RestoreWorks ==
  ASSUME NEW m \in DOMAIN MethodOf, MethodOf[m].work = "restore"
  PROVE  m = "RestoreSnapshot"
  BY DEF MethodOf, Method, Reader, SetGrubSettings, SetGrubValue, SetGrubDefault,
     RebuildGrubConfig, BackupNvram, SignAndEnrollUki, SetLoaderDefault, RenameLoaderEntry,
     AddKernelParam, RemoveKernelParam, RestoreSnapshot, SetBootOrder, SetBootNext,
     ClearBootNext, ListEfiBootEntries, ReadGrubConfig, ReadGrubSettings, GetEtag,
     GetActiveBackend, ListGrubEntries, ListLoaderEntries, ReadLoaderEntry, GetLoaderConfEtag,
     ReadKernelCmdline, ListSnapshots, GetBootOrder, GetBootNext

\* The elements of a sequence.
LEMMA SeqElements ==
  ASSUME NEW S, NEW s \in Seq(S), NEW i \in DOMAIN s
  PROVE  s[i] \in S
  BY LenProperties, ElementOfSeq

\* The jobs and the phases of the log's rows.
LEMMA RowsOfLog ==
  ASSUME log \in Seq(AuditRow)
  PROVE  /\ Jobs \subseteq 1..MaxCalls
         /\ \A j : Logged(j) \subseteq {"started", "snapshot_taken", "completed"}
<1>1. \A i \in DOMAIN log : log[i] \in AuditRow
  BY SeqElements
<1>2. \A row \in AuditRow : row.job \in 1..MaxCalls /\ row.phase \in DOMAIN PhaseRank
  BY DEF AuditRow
<1>3. DOMAIN PhaseRank = {"started", "snapshot_taken", "completed"}
  BY DEF PhaseRank
<1>4. \A i \in DOMAIN log :
        log[i].job \in 1..MaxCalls /\ log[i].phase \in {"started", "snapshot_taken", "completed"}
  BY <1>1, <1>2, <1>3
<1>5. Jobs \subseteq 1..MaxCalls
  BY <1>4 DEF Jobs
<1>6. QED
  BY <1>4, <1>5 DEF Logged

\* What a row adds to the log.
LEMMA RowAdded ==
  ASSUME log \in Seq(AuditRow), NEW row \in AuditRow, log' = Append(log, row)
  PROVE  /\ log' \in Seq(AuditRow)
         /\ DOMAIN log = 1..Len(log) /\ Len(log) \in Nat
         /\ DOMAIN log' = 1..(Len(log) + 1)
         /\ log'[Len(log) + 1] = row
         /\ \A i \in 1..Len(log) : log'[i] = log[i]
         /\ Jobs' = Jobs \union {row.job}
         /\ \A j : Logged(j)' = IF j = row.job THEN Logged(j) \union {row.phase} ELSE Logged(j)
<1>1. /\ log' \in Seq(AuditRow)
      /\ DOMAIN log = 1..Len(log) /\ Len(log) \in Nat
      /\ DOMAIN log' = 1..(Len(log) + 1)
      /\ log'[Len(log) + 1] = row
      /\ \A i \in 1..Len(log) : log'[i] = log[i]
  BY AppendProperties, LenProperties
<1>2. DOMAIN log' = DOMAIN log \union {Len(log) + 1}
  BY <1>1
<1>3. Jobs' = Jobs \union {row.job}
  BY <1>1, <1>2 DEF Jobs
<1>4. ASSUME NEW j
      PROVE  Logged(j)' = IF j = row.job THEN Logged(j) \union {row.phase} ELSE Logged(j)
  BY <1>1, <1>2 DEF Logged
<1>5. QED
  BY <1>1, <1>3, <1>4

\* A row after those of its job keeps the log in order.
LEMMA RowInOrder ==
  ASSUME log \in Seq(AuditRow), EvidenceIsOrdered, NEW row \in AuditRow, log' = Append(log, row),
         row.phase = "started" \/ "started" \in Logged(row.job),
         \A p \in Logged(row.job) : PhaseRank[p] < PhaseRank[row.phase],
         row.phase = "completed" /\ row.exit_code = 0 /\ row.operation # "RestoreSnapshot"
           => "snapshot_taken" \in Logged(row.job)
  PROVE  EvidenceIsOrdered'
<1> DEFINE n == Len(log) + 1
<1>1. /\ DOMAIN log = 1..Len(log) /\ Len(log) \in Nat
      /\ DOMAIN log' = 1..n /\ log'[n] = row
      /\ \A i \in 1..Len(log) : log'[i] = log[i]
  BY RowAdded
<1>2. \A p : p \in Logged(row.job) <=> \E k \in 1..Len(log) : log[k].job = row.job /\ log[k].phase = p
  BY <1>1 DEF Logged
<1> SUFFICES ASSUME NEW i \in 1..n
             PROVE  /\ \E k \in 1..i : log'[k].job = log'[i].job /\ log'[k].phase = "started"
                    /\ \A k \in 1..(i - 1) :
                         log'[k].job = log'[i].job =>
                           PhaseRank[log'[k].phase] < PhaseRank[log'[i].phase]
                    /\ /\ log'[i].phase = "completed" /\ log'[i].exit_code = 0
                       /\ log'[i].operation # "RestoreSnapshot"
                       => \E k \in 1..(i - 1) :
                            log'[k].job = log'[i].job /\ log'[k].phase = "snapshot_taken"
  BY <1>1 DEF EvidenceIsOrdered, PhaseRank
<1>3. CASE i = n
  <2>1. 1..(i - 1) = 1..Len(log) /\ 1..i = 1..Len(log) \union {n} /\ log'[i] = row
    BY <1>1, <1>3
  <2>2. \A k \in 1..Len(log) : log'[k] = log[k]
    BY <1>1
  <2>3. \E k \in 1..i : log'[k].job = row.job /\ log'[k].phase = "started"
    BY <1>2, <2>1, <2>2
  <2>4. \A k \in 1..Len(log) :
          log[k].job = row.job => PhaseRank[log[k].phase] < PhaseRank[row.phase]
    BY <1>2
  <2>5. row.phase = "completed" /\ row.exit_code = 0 /\ row.operation # "RestoreSnapshot"
           => \E k \in 1..Len(log) : log[k].job = row.job /\ log[k].phase = "snapshot_taken"
    BY <1>2
  <2>6. QED
    BY <2>1, <2>2, <2>3, <2>4, <2>5
<1>4. CASE i # n
  <2>1. i \in DOMAIN log /\ \A k \in 1..i : log'[k] = log[k]
    BY <1>1, <1>4
  <2>2. \A k \in 1..(i - 1) : log'[k] = log[k]
    BY <2>1
  <2>3. i \in 1..i
    BY <1>1, <2>1
  <2>4. QED
    BY <2>1, <2>2, <2>3 DEF EvidenceIsOrdered
<1>5. QED
  BY <1>3, <1>4

\* A row that was not left open is not left open by a step that keeps those at work at
\* work, or closes their rows, or kills them.
LEMMA ClosedKept ==
  ASSUME EvidenceInv, \A j \in Jobs : Logged(j) \subseteq Logged(j)',
         killed \subseteq killed',
         NEW j \in Jobs,
         \A c \in Client : InPoll(c) /\ Has(c, j) =>
           \/ j \in killed'
           \/ Has(c, j)' /\ (InPoll(c)' \/ "completed" \in Logged(j)')
  PROVE  \/ "completed" \in Logged(j)'
         \/ j \in killed'
         \/ \E c \in Client : job'[c] = j /\ InPoll(c)'
  BY DEF EvidenceInv, EvidenceIsComplete, EvidenceIsClosed, Has, InPoll

\* A step that writes no row, and after which each call is over, killed if it was at
\* work, or where its rows say.
LEMMA QuietEvidence ==
  ASSUME TypeInv, EvidenceInv, log' = log, calls' = calls, killed \subseteq killed',
         \A c \in Client, j \in 1..MaxCalls :
           Has(c, j) => \/ pc'[c] = "idle" /\ (InPoll(c) => j \in killed')
                        \/ job'[c] = j /\ RowsOK(c, j)',
         \A c \in Client : pc'[c] # "idle" => pc[c] # "idle" /\ job'[c] = job[c]
  PROVE  EvidenceInv'
<1>1. Jobs' = Jobs /\ (\A j : Logged(j)' = Logged(j)) /\ (EvidenceIsOrdered => EvidenceIsOrdered')
  BY DEF Jobs, Logged, EvidenceIsOrdered
<1>2. \A c \in Client : \A j : Has(c, j)' => Has(c, j) /\ pc'[c] # "idle"
  BY DEF Has
<1>3. ASSUME NEW c \in Client, NEW j \in 1..MaxCalls, Has(c, j)'
      PROVE  /\ j <= calls'
             /\ \A d \in Client \ {c} : ~Has(d, j)'
             /\ RowsOK(c, j)'
  BY <1>2, <1>3 DEF EvidenceInv
<1>4. ASSUME NEW j \in Jobs, NEW c \in Client, InPoll(c), Has(c, j)
      PROVE  \/ j \in killed'
             \/ Has(c, j)' /\ (InPoll(c)' \/ "completed" \in Logged(j)')
  <2>1. j \in 1..MaxCalls
    BY <1>4, RequestFacts DEF Has
  <2>2. CASE pc'[c] = "idle"
    BY <1>4, <2>1, <2>2 DEF RowsOK, Audited, Jobs, Logged
  <2>3. CASE pc'[c] # "idle"
    <3>1. Logged(j) # {}
      BY DEF Jobs, Logged
    <3>2. Has(c, j)' /\ RowsOK(c, j)'
      BY <1>4, <2>1, <2>3 DEF Has
    <3>3. QED
      BY <1>1, <2>3, <3>1, <3>2 DEF RowsOK, InPoll, Audited
  <2>4. QED
    BY <2>2, <2>3
<1>5. EvidenceIsClosed'
  BY <1>1, <1>4, ClosedKept DEF EvidenceIsClosed
<1>6. QED
  BY <1>1, <1>3, <1>5 DEF EvidenceInv, EvidenceIsComplete

\* A call writes a row.
LEMMA RowEvidence ==
  ASSUME TypeInv, EvidenceInv, NEW c \in Client, NEW p, NEW row \in AuditRow,
         Has(c, row.job), log' = Append(log, row), pc' = [pc EXCEPT ![c] = p],
         UNCHANGED <<request, job, reply, calls, killed>>,
         EvidenceIsOrdered', RowsOK(c, row.job)',
         p \notin {"idle", "sent", "called", "resolved"},
         p = "finished" => row.phase = "completed"
  PROVE  EvidenceInv'
<1>1. /\ log' \in Seq(AuditRow) /\ Jobs' = Jobs \union {row.job}
      /\ \A j : Logged(j)' = IF j = row.job THEN Logged(j) \union {row.phase} ELSE Logged(j)
  BY RowAdded DEF EvidenceInv
<1>2. /\ \A d \in Client : pc'[d] = IF d = c THEN p ELSE pc[d]
      /\ \A d \in Client : job'[d] = job[d] /\ MethodFor(d)' = MethodFor(d) /\ reply'[d] = reply[d]
  BY DEF TypeInv, CallsTyped, MethodFor
<1>3. \A d \in Client : \A j : Has(d, j)' <=> Has(d, j)
  BY <1>2 DEF Has
<1>4. row.job \in 1..MaxCalls
  BY DEF AuditRow
<1>5. ASSUME NEW d \in Client, NEW j \in 1..MaxCalls, Has(d, j)'
      PROVE  /\ j <= calls'
             /\ \A e \in Client \ {d} : ~Has(e, j)'
             /\ RowsOK(d, j)'
  <2>1. /\ Has(d, j) /\ j <= calls' /\ RowsOK(d, j)
        /\ \A e \in Client \ {d} : ~Has(e, j)'
    BY <1>3, <1>5 DEF EvidenceInv
  <2>2. CASE d = c
    BY <2>1, <2>2 DEF Has
  <2>3. CASE d # c
    <3>1. j # row.job
      BY <1>4, <2>1, <2>3 DEF EvidenceInv
    <3>2. Logged(j)' = Logged(j) /\ pc'[d] = pc[d]
      BY <1>1, <1>2, <2>3, <3>1
    <3>3. RowsOK(d, j)'
      BY <1>2, <2>1, <3>2 DEF RowsOK
    <3>4. QED
      BY <2>1, <3>3
  <2>4. QED
    BY <2>1, <2>2, <2>3
<1>6. \A j \in Jobs' : j <= calls'
  BY <1>1, <1>4 DEF EvidenceInv
<1>7. EvidenceIsClosed'
  <2>1. InPoll(c)' \/ "completed" \in Logged(row.job)'
    BY <1>1, <1>2 DEF InPoll
  <2>2. ASSUME NEW j \in Jobs, j # row.job
        PROVE  \/ "completed" \in Logged(j)'
               \/ j \in killed'
               \/ \E d \in Client : job'[d] = j /\ InPoll(d)'
    <3>1. \A k : Logged(k) \subseteq Logged(k)'
      BY <1>1
    <3>2. \A d \in Client : Has(d, j) => d # c
      BY <2>2 DEF Has
    <3>3. \A d \in Client : d # c /\ InPoll(d) => InPoll(d)'
      BY <1>2 DEF InPoll
    <3>4. QED
      BY <1>3, <3>1, <3>2, <3>3, ClosedKept
  <2>3. job'[c] = row.job
    BY <1>2 DEF Has
  <2>4. QED
    BY <1>1, <2>1, <2>2, <2>3 DEF EvidenceIsClosed
<1>8. QED
  BY <1>1, <1>5, <1>6, <1>7 DEF EvidenceInv, EvidenceIsComplete

\* The three steps that write a row.
LEMMA EmitEvidence ==
  ASSUME TypeInv, EnrollInv, EvidenceInv, NEW c \in Client,
         EmitStarted(c) \/ TakeSnapshot(c) \/ EmitCompleted(c)
  PROVE  EvidenceInv'
<1>1. pc[c] \in {"admitted", "started", "done"} /\ pc[c] # "idle"
  BY DEF EmitStarted, TakeSnapshot, EmitCompleted, Works
<1>2. PICK j \in 1..MaxCalls : Has(c, j)
  BY <1>1, RequestFacts DEF Has
<1>3. RowsOK(c, j) /\ EvidenceIsOrdered /\ log \in Seq(AuditRow)
  BY <1>2 DEF EvidenceInv, EvidenceIsComplete
<1>4. PICK m \in DOMAIN MethodOf : m = Request[request[c]].method
  BY <1>1, RequestFacts
<1>5. MethodFor(c).work = "restore" => m = "RestoreSnapshot"
  BY <1>4, RestoreWorks DEF MethodFor
<1>6. /\ UNCHANGED <<request, job, reply, calls, killed>> /\ job[c] = j
      /\ MethodFor(c)' = MethodFor(c) /\ pc \in [Client -> Steps]
  BY <1>2 DEF EmitStarted, TakeSnapshot, EmitCompleted, history, Has, MethodFor, TypeInv, CallsTyped
<1>7. ASSUME NEW phase \in DOMAIN PhaseRank, NEW exit \in {0, 1}, NEW p \in Steps,
             log' = Append(log, Row(c, phase, exit)), pc' = [pc EXCEPT ![c] = p],
             p \notin {"idle", "sent", "called", "resolved"},
             p = "finished" => phase = "completed",
             phase = "started" \/ "started" \in Logged(j),
             \A q \in Logged(j) : PhaseRank[q] < PhaseRank[phase],
             phase = "completed" /\ exit = 0 /\ m # "RestoreSnapshot" => "snapshot_taken" \in Logged(j),
             Logged(j)' = Logged(j) \union {phase} => RowsOK(c, j)'
      PROVE  EvidenceInv'
  <2>1. PICK row \in AuditRow : row = Row(c, phase, exit)
    BY <1>4, <1>6, <1>7 DEF Row, AuditRow
  <2>2. row.job = j /\ row.phase = phase /\ row.exit_code = exit /\ row.operation = m
    BY <1>4, <1>6, <2>1 DEF Row
  <2>3. EvidenceIsOrdered' /\ Logged(j)' = Logged(j) \union {phase}
    BY <1>3, <1>7, <2>1, <2>2, RowInOrder, RowAdded
  <2>4. QED
    BY <1>1, <1>2, <1>6, <1>7, <2>1, <2>2, <2>3, RowEvidence
<1>8. CASE EmitStarted(c)
  <2>1. Logged(j) = {} /\ log' = Append(log, Row(c, "started", 0)) /\ pc' = [pc EXCEPT ![c] = "started"]
    BY <1>3, <1>8 DEF EmitStarted, Go, RowsOK, Audited, Works
  <2>2. pc'[c] = "started"
    BY <1>6, <2>1
  <2>3. Logged(j)' = Logged(j) \union {"started"} => RowsOK(c, j)'
    BY <2>1, <2>2 DEF RowsOK, Audited
  <2>4. QED
    BY <1>7, <2>1, <2>3 DEF PhaseRank, Steps
<1>9. CASE TakeSnapshot(c)
  <2>1. /\ Logged(j) = {"started"} /\ log' = Append(log, Row(c, "snapshot_taken", 0))
        /\ pc' = [pc EXCEPT ![c] = "snapped"]
    BY <1>3, <1>9 DEF TakeSnapshot, Go, RowsOK
  <2>2. pc'[c] = "snapped"
    BY <1>6, <2>1
  <2>3. Logged(j)' = Logged(j) \union {"snapshot_taken"} => RowsOK(c, j)'
    BY <2>1, <2>2 DEF RowsOK, Audited
  <2>4. PhaseRank["started"] < PhaseRank["snapshot_taken"]
    BY DEF PhaseRank
  <2>5. QED
    BY <1>7, <2>1, <2>3, <2>4 DEF PhaseRank, Steps
<1>10. CASE EmitCompleted(c)
  <2> DEFINE exit == IF reply[c] = "ok" THEN 0 ELSE 1
  <2>1. /\ "started" \in Logged(j) /\ "completed" \notin Logged(j)
        /\ MethodFor(c).work = "grub" /\ reply[c] = "ok" => "snapshot_taken" \in Logged(j)
        /\ log' = Append(log, Row(c, "completed", exit)) /\ pc' = [pc EXCEPT ![c] = "finished"]
    BY <1>3, <1>10 DEF EmitCompleted, Go, RowsOK
  <2>2. pc'[c] = "finished"
    BY <1>6, <2>1
  <2>3. Logged(j)' = Logged(j) \union {"completed"} => RowsOK(c, j)'
    BY <2>1, <2>2 DEF RowsOK, Audited
  <2>4. \A q \in Logged(j) : PhaseRank[q] < PhaseRank["completed"]
    <3>1. Logged(j) \subseteq {"started", "snapshot_taken", "completed"}
      BY <1>3, RowsOfLog
    <3>2. QED
      BY <2>1, <3>1 DEF PhaseRank
  <2>5. MethodFor(c).work \in {"grub", "restore"}
    BY <1>10 DEF EmitCompleted, EnrollInv
  <2>6. exit = 0 /\ m # "RestoreSnapshot" => "snapshot_taken" \in Logged(j)
    BY <1>5, <2>1, <2>5
  <2>7. QED
    BY <1>7, <2>1, <2>3, <2>4, <2>6 DEF PhaseRank, Steps
<1>11. QED
  BY <1>8, <1>9, <1>10

\* The other steps of a handler at work write no row.
LEMMA WorkEvidence ==
  ASSUME TypeInv, EnrollInv, EvidenceInv, NEW c \in Client, Work(c)
  PROVE  EvidenceInv'
<1>1. CASE EmitStarted(c) \/ TakeSnapshot(c) \/ EmitCompleted(c)
  BY <1>1, EmitEvidence
<1>2. CASE ~(EmitStarted(c) \/ TakeSnapshot(c) \/ EmitCompleted(c))
  <2>1. log' = log
    BY <1>2 DEF Work, Admit, Refuse, WriteConfig, PipelineEnds, PipelineFails, Write,
       ReadBootOrder, WriteBootOrder, WriteBootNext, FindBootNext, RemoveBootNext, ReadOnce,
       ListNames, ReadEntries, CopyVariable, OpenBackupDirectory, CreateBackupFile,
       BackupFileExists, WriteBackupFile, EndBackup, SignUki, GenerateEnrollmentRequest
  <2>2. PICK p \in Busy : pc' = [pc EXCEPT ![c] = p]
    BY WorkFrame
  <2>3. /\ UNCHANGED <<request, job, calls, killed>> /\ InPoll(c) /\ pc \in [Client -> Steps]
        /\ p # "idle"
    BY WorkFrame DEF TypeInv, CallsTyped, Busy
  <2>4. \A d \in Client \ {c} : reply'[d] = reply[d]
    <3> USE DEF Go, Finish, TypeInv, CallsTyped
    <3>1. CASE Admit(c) \/ Refuse(c) \/ WriteConfig(c) \/ PipelineEnds(c) \/ PipelineFails(c) \/ Write(c)
      BY <3>1 DEF Admit, Refuse, WriteConfig, PipelineEnds, PipelineFails, Write
    <3>2. CASE ReadBootOrder(c) \/ WriteBootOrder(c) \/ WriteBootNext(c) \/ FindBootNext(c)
               \/ RemoveBootNext(c) \/ ReadOnce(c) \/ ListNames(c) \/ ReadEntries(c)
      BY <3>2 DEF ReadBootOrder, WriteBootOrder, WriteBootNext, FindBootNext, RemoveBootNext,
         ReadOnce, ListNames, ReadEntries
    <3>3. CASE CopyVariable(c) \/ OpenBackupDirectory(c) \/ CreateBackupFile(c) \/ BackupFileExists(c)
               \/ WriteBackupFile(c) \/ EndBackup(c) \/ SignUki(c) \/ GenerateEnrollmentRequest(c)
      BY <3>3 DEF CopyVariable, OpenBackupDirectory, CreateBackupFile, BackupFileExists,
         WriteBackupFile, EndBackup, SignUki, GenerateEnrollmentRequest
    <3>4. QED
      BY <1>2, <3>1, <3>2, <3>3 DEF Work
  <2>5. \/ pc[c] \notin Audited /\ (pc'[c] \notin Audited \/ pc'[c] = "finished")
        \/ WriteConfig(c) \/ PipelineEnds(c) \/ PipelineFails(c)
    <3> USE <2>2, <2>3 DEF Works, Go, Finish, Audited
    <3>1. CASE Admit(c) \/ Refuse(c) \/ Write(c) \/ ReadOnce(c) \/ ListNames(c) \/ ReadEntries(c)
      BY <3>1 DEF Admit, Refuse, Write, ReadOnce, ListNames, ReadEntries
    <3>2. CASE ReadBootOrder(c) \/ WriteBootOrder(c) \/ WriteBootNext(c) \/ FindBootNext(c)
               \/ RemoveBootNext(c)
      BY <3>2 DEF ReadBootOrder, WriteBootOrder, WriteBootNext, FindBootNext, RemoveBootNext
    <3>3. CASE CopyVariable(c) \/ OpenBackupDirectory(c) \/ CreateBackupFile(c) \/ BackupFileExists(c)
               \/ WriteBackupFile(c) \/ EndBackup(c)
      BY <3>3 DEF CopyVariable, OpenBackupDirectory, CreateBackupFile, BackupFileExists,
         WriteBackupFile, EndBackup
    <3>4. CASE SignUki(c) \/ GenerateEnrollmentRequest(c)
      BY <3>4 DEF SignUki, GenerateEnrollmentRequest
    <3>5. QED
      BY <1>2, <3>1, <3>2, <3>3, <3>4 DEF Work
  <2>6. ASSUME NEW d \in Client, NEW j \in 1..MaxCalls, Has(d, j)
        PROVE  job'[d] = j /\ RowsOK(d, j)'
    <3>1. RowsOK(d, j) /\ job'[d] = j /\ Logged(j)' = Logged(j) /\ MethodFor(d)' = MethodFor(d)
      BY <2>1, <2>3, <2>6 DEF EvidenceInv, Has, Logged, MethodFor
    <3>2. CASE d # c
      <4>1. pc'[d] = pc[d] /\ reply'[d] = reply[d]
        BY <2>2, <2>3, <2>4, <3>2
      <4>2. QED
        BY <3>1, <4>1 DEF RowsOK
    <3>3. CASE d = c /\ pc[c] \notin Audited /\ (pc'[c] \notin Audited \/ pc'[c] = "finished")
      <4>1. Logged(j) = {}
        BY <3>1, <3>3 DEF RowsOK
      <4>2. QED
        BY <3>1, <3>3, <4>1 DEF RowsOK, Audited
    <3>4. CASE d = c /\ (WriteConfig(c) \/ PipelineEnds(c) \/ PipelineFails(c))
      <4>1. /\ WriteConfig(c) => /\ pc'[c] = "written"
                                 /\ pc[c] = "snapped" \/ (pc[c] = "started" /\ MethodFor(c).work = "restore")
            /\ PipelineEnds(c) => pc[c] = "written" /\ pc'[c] = "done"
            /\ PipelineFails(c) => /\ pc[c] \in {"started", "snapped", "written"} /\ pc'[c] = "done"
                                   /\ reply'[c] = "Failed"
        BY <2>3 DEF WriteConfig, PipelineEnds, PipelineFails, Go, TypeInv, CallsTyped
      <4>2. QED
        BY <3>1, <3>4, <4>1 DEF RowsOK, Audited
    <3>5. QED
      BY <2>5, <3>2, <3>3, <3>4
  <2>7. \A d \in Client : pc'[d] # "idle" => pc[d] # "idle" /\ job'[d] = job[d]
    BY <2>2, <2>3 DEF InPoll
  <2>8. QED
    BY <2>1, <2>3, <2>6, <2>7, QuietEvidence
<1>3. QED
  BY <1>1, <1>2

\* A call that is sent has a job without rows.
LEMMA CallEvidence ==
  ASSUME TypeInv, EvidenceInv, NEW c \in Client, Call(c)
  PROVE  EvidenceInv'
<1>1. /\ calls \in 0..MaxCalls /\ calls' = calls + 1 /\ calls' \in 1..MaxCalls /\ log' = log
      /\ killed' = killed /\ MaxCalls \in Nat /\ pc[c] = "idle"
  BY InterfaceAssumption DEF Call, TypeInv, CountsTyped
<1>2. /\ Jobs' = Jobs /\ (\A j : Logged(j)' = Logged(j))
      /\ EvidenceIsOrdered => EvidenceIsOrdered'
  BY <1>1 DEF Jobs, Logged, EvidenceIsOrdered
<1>3. ASSUME NEW d \in Client
      PROVE  /\ d # c => pc'[d] = pc[d] /\ job'[d] = job[d] /\ reply'[d] = reply[d]
                         /\ MethodFor(d)' = MethodFor(d)
             /\ d = c => pc'[d] = "sent" /\ job'[d] = calls'
  BY DEF Call, Go, TypeInv, CallsTyped, MethodFor
<1>4. \A j \in Jobs : j \in 1..MaxCalls /\ j <= calls
  BY RowsOfLog DEF EvidenceInv
<1>5. Logged(calls') = {}
  BY <1>1, <1>4 DEF Logged, Jobs
<1>6. \A d \in Client : \A j : Has(d, j)' <=> IF d = c THEN j = calls' ELSE Has(d, j)
  BY <1>3 DEF Has
<1>7. ASSUME NEW d \in Client, NEW j \in 1..MaxCalls, Has(d, j)'
      PROVE  /\ j <= calls'
             /\ \A e \in Client \ {d} : ~Has(e, j)'
             /\ RowsOK(d, j)'
  <2>1. CASE d = c
    <3>1. j = calls' /\ \A e \in Client \ {d} : ~Has(e, j)
      BY <1>1, <1>6, <1>7, <2>1 DEF EvidenceInv
    <3>2. Logged(j)' = {} /\ pc'[d] = "sent"
      BY <1>2, <1>3, <1>5, <2>1, <3>1
    <3>3. QED
      BY <1>1, <1>6, <2>1, <3>1, <3>2 DEF RowsOK, Audited
  <2>2. CASE d # c
    <3>1. /\ Has(d, j) /\ j <= calls /\ RowsOK(d, j)
          /\ \A e \in Client \ {d} : ~Has(e, j)
      BY <1>6, <1>7, <2>2 DEF EvidenceInv
    <3>2. RowsOK(d, j)'
      BY <1>2, <1>3, <2>2, <3>1 DEF RowsOK
    <3>3. j # calls'
      BY <1>1, <3>1
    <3>4. QED
      BY <1>1, <1>6, <3>1, <3>2, <3>3
  <2>3. QED
    BY <2>1, <2>2
<1>8. EvidenceIsClosed'
  <2>1. ASSUME NEW d \in Client, NEW j, InPoll(d), Has(d, j)
        PROVE  Has(d, j)' /\ InPoll(d)'
    BY <1>1, <1>3, <1>6, <2>1 DEF InPoll
  <2>2. QED
    BY <1>1, <1>2, <2>1, ClosedKept DEF EvidenceIsClosed
<1>9. \A j \in Jobs' : j <= calls'
  BY <1>1, <1>2, <1>4
<1>10. QED
  BY <1>1, <1>2, <1>7, <1>8, <1>9 DEF EvidenceInv, EvidenceIsComplete

\* The daemon's life, the gate and other programs: what is dropped at work was killed.
LEMMA OtherEvidence ==
  ASSUME TypeInv, EvidenceInv, [Next]_vars, ~\E c \in Client : Work(c) \/ Call(c)
  PROVE  EvidenceInv'
<1>1. log' = log /\ calls' = calls /\ killed \subseteq killed'
  BY DEF Next, Start, BecomeIdle, Exit, Kill, DropCalls, Begin, Reply, ResolveUid,
     Authorize, EditBootOrder, UpdateFirmware, vars, history
<1>2. ASSUME NEW d \in Client
      PROVE  \/ pc'[d] = pc[d] /\ request'[d] = request[d] /\ reply'[d] = reply[d] /\ job'[d] = job[d]
             \/ pc'[d] = "idle" /\ (InPoll(d) => job[d] \in killed')
             \/ /\ pc[d] \in {"sent", "called", "resolved"} /\ job'[d] = job[d]
                /\ pc'[d] \in {"called", "resolved", "granted", "admitted", "finished"}
  <2>1. ASSUME NEW over \in SUBSET Client, Forget(over), \A c \in over : InPoll(c) => job[c] \in killed'
        PROVE  \/ pc'[d] = pc[d] /\ request'[d] = request[d] /\ reply'[d] = reply[d] /\ job'[d] = job[d]
               \/ pc'[d] = "idle" /\ (InPoll(d) => job[d] \in killed')
    BY <2>1 DEF Forget
  <2>2. CASE Start
    <3>1. CASE Forget(Client) /\ UNCHANGED daemon
      <4>1. \A c \in Client : ~InPoll(c)
        BY <2>2 DEF Start, InPoll, TypeInv, CallsTyped
      <4>2. QED
        BY <2>1, <3>1, <4>1
    <3>2. CASE UNCHANGED callVars
      BY <3>2 DEF callVars
    <3>3. QED
      BY <2>2, <3>1, <3>2 DEF Start
  <2>3. CASE BecomeIdle
    BY <2>3 DEF BecomeIdle, callVars
  <2>4. CASE Exit
    BY <2>1, <2>4 DEF Exit, DropCalls
  <2>5. CASE Kill
    BY <2>1, <2>5 DEF Kill, DropCalls
  <2>6. ASSUME NEW c \in Client, Reply(c)
        PROVE  \/ pc'[d] = pc[d] /\ request'[d] = request[d] /\ reply'[d] = reply[d] /\ job'[d] = job[d]
               \/ pc'[d] = "idle" /\ (InPoll(d) => job[d] \in killed')
    BY <2>1, <2>6 DEF Reply, InPoll
  <2>7. ASSUME NEW c \in Client, Begin(c) \/ ResolveUid(c) \/ Authorize(c)
        PROVE  \/ pc'[d] = pc[d] /\ request'[d] = request[d] /\ reply'[d] = reply[d] /\ job'[d] = job[d]
               \/ /\ pc[d] \in {"sent", "called", "resolved"} /\ job'[d] = job[d]
                  /\ pc'[d] \in {"called", "resolved", "granted", "admitted", "finished"}
    BY <2>7 DEF Begin, ResolveUid, Authorize, Go, Finish, TypeInv, CallsTyped
  <2>8. CASE EditBootOrder \/ UpdateFirmware \/ UNCHANGED vars
    BY <2>8 DEF EditBootOrder, UpdateFirmware, callVars, vars
  <2>9. QED
    BY <2>2, <2>3, <2>4, <2>5, <2>6, <2>7, <2>8 DEF Next
<1>3. ASSUME NEW d \in Client, NEW j \in 1..MaxCalls, Has(d, j)
      PROVE  \/ pc'[d] = "idle" /\ (InPoll(d) => j \in killed')
             \/ job'[d] = j /\ RowsOK(d, j)'
  <2>1. RowsOK(d, j) /\ job[d] = j /\ Logged(j)' = Logged(j)
    BY <1>1, <1>3 DEF EvidenceInv, Has, Logged
  <2>2. CASE pc'[d] = pc[d] /\ request'[d] = request[d] /\ reply'[d] = reply[d] /\ job'[d] = job[d]
    <3>1. MethodFor(d)' = MethodFor(d)
      BY <2>2 DEF MethodFor
    <3>2. QED
      BY <2>1, <2>2, <3>1 DEF RowsOK
  <2>3. CASE pc'[d] = "idle" /\ (InPoll(d) => job[d] \in killed')
    BY <2>1, <2>3
  <2>4. CASE /\ pc[d] \in {"sent", "called", "resolved"} /\ job'[d] = job[d]
             /\ pc'[d] \in {"called", "resolved", "granted", "admitted", "finished"}
    <3>1. Logged(j) = {}
      BY <2>1, <2>4 DEF RowsOK, Audited
    <3>2. QED
      BY <2>1, <2>4, <3>1 DEF RowsOK, Audited
  <2>5. QED
    BY <1>2, <2>2, <2>3, <2>4
<1>4. \A d \in Client : pc'[d] # "idle" => pc[d] # "idle" /\ job'[d] = job[d]
  BY <1>2
<1>5. QED
  BY <1>1, <1>3, <1>4, QuietEvidence

\* However calls overlap, fail and end, their rows are in order, no success is written
\* for what was not covered by a snapshot, and rows are left open only by a kill.
THEOREM EvidenceWasComplete == Spec => []EvidenceIsComplete
<1>1. Init => EvidenceInv
  <2> SUFFICES ASSUME Init
               PROVE  EvidenceInv
    OBVIOUS
  <2>1. log = <<>> /\ \A c \in Client : pc[c] = "idle"
    BY DEF Init
  <2>2. log \in Seq(AuditRow) /\ DOMAIN log = {}
    BY <2>1
  <2>3. QED
    BY <2>1, <2>2 DEF EvidenceInv, Jobs, Has, EvidenceIsComplete, EvidenceIsOrdered, EvidenceIsClosed
<1>2. Init => EnrollInv
  BY DEF Init, EnrollInv
<1>3. TypeInv /\ EnrollInv /\ [Next]_vars => EnrollInv'
  BY WorkEnroll, OtherEnroll
<1>4. TypeInv /\ EnrollInv /\ EvidenceInv /\ [Next]_vars => EvidenceInv'
  BY WorkEvidence, CallEvidence, OtherEvidence
<1>5. EvidenceInv => EvidenceIsComplete
  BY DEF EvidenceInv
<1>6. QED
  BY <1>1, <1>2, <1>3, <1>4, <1>5, TypeInvariant, PTL DEF Spec
=============================================================================
