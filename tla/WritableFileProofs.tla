------------------------- MODULE WritableFileProofs -------------------------
(***************************************************************************)
(* Proofs about the handle of a writable file: WritableFile and Lifecycle, *)
(* for every set of processes and every bound, and Buffer, the slice that  *)
(* h.data is, for every set of readers, bytes and bound.                   *)
(*                                                                         *)
(* SavedUnlessOverlapped is not inductive: a Flush that is about to clear  *)
(* h.dirty must be known to have delivered enough.  IInv adds what each    *)
(* Flush holds while it waits: unless a Write has changed h.data meanwhile *)
(* its payload, and once applied the API's content, shows every Write that *)
(* has ended or is about to set h.dirty.                                   *)
(*                                                                         *)
(* A step of Lifecycle is a step of WritableFile or leaves the handle      *)
(* alone, so IInv holds there too; what it says of a Flush that returns 0  *)
(* is what the close tells its caller.                                     *)
(*                                                                         *)
(* For Buffer, BufferInv is the two invariants of its run with the types   *)
(* of the array, the replies and what has been shown.                      *)
(***************************************************************************)
EXTENDS Lifecycle, Buffer, SequenceTheorems, TLAPS

\* The Flush of p has been answered by the API.
Applied(p) == pc[p] \in {"applied", "clearing"}

\* What the Flushes under way hold covers every Write that has ended,
PayloadsCover ==
  \A p \in Procs : Saving(p) =>
    /\ written # 0
    /\ payload[p] # 0
    /\ overlapped \/ payload[p] >= written
    /\ Applied(p) => remote # 0 /\ (overlapped \/ remote >= written)

\* and every Write that has changed h.data but not yet set h.dirty.
PayloadsCoverWriter ==
  \A p, w \in Procs : Saving(p) =>
    /\ pc[w] = "writing" => overlapped
    /\ pc[w] = "marking" =>
         \/ overlapped
         \/ payload[p] = data /\ (Applied(p) => remote = data)

DirtyMeansWritten ==
  /\ dirty => written # 0
  /\ \A p \in Procs : pc[p] = "snapshot" => written # 0
  /\ \A p \in Procs : pc[p] = "marking" => data # 0

IInv ==
  /\ TypeOK
  /\ SavedUnlessOverlapped
  /\ OnlyWritersSave
  /\ PayloadsCover
  /\ PayloadsCoverWriter
  /\ DirtyMeansWritten

-----------------------------------------------------------------------------
\* Parity flips with every half change.
LEMMA HalfChanges ==
  /\ ~Torn(0)
  /\ \A n \in Nat : Torn(n + 1) <=> ~Torn(n)
  /\ \A n \in Nat : Torn(n + 2) <=> Torn(n)
BY DEF Torn

\* IInv holds when the file has been opened.
LEMMA InitIInv == Init => IInv
<1> SUFFICES ASSUME Init PROVE IInv
  OBVIOUS
<1>1. TypeOK
  <2>1. \A p \in Procs : pc[p] = "idle" /\ writer # p
    BY NoProcAssumption DEF Init
  <2>2. ~Torn(data)
    BY HalfChanges DEF Init
  <2>3. Torn(data) <=> \E p \in Procs : pc[p] = "writing"
    BY <2>1, <2>2
  <2>4. \A p \in Procs : pc[p] \in {"writing", "marking"} <=> writer = p
    BY <2>1
  <2>5. pc \in [Procs -> {"idle", "writing", "marking", "snapshot",
                         "calling", "applied", "clearing"}]
    BY DEF Init
  <2>6. payload \in [Procs -> 0..data]
    BY DEF Init
  <2>7. /\ data \in Nat /\ remote \in 0..data /\ written \in 0..data
        /\ writer \in Procs \cup {NoProc}
    BY DEF Init
  <2>8. dirty \in BOOLEAN /\ mtimeSet \in BOOLEAN /\ overlapped \in BOOLEAN
    BY DEF Init
  <2> QED
    BY <2>3, <2>4, <2>5, <2>6, <2>7, <2>8 DEF TypeOK
<1> QED
  BY <1>1 DEF Init, IInv, SavedUnlessOverlapped, OnlyWritersSave, PayloadsCover,
     PayloadsCoverWriter, DirtyMeansWritten, Saving, Applied

\* Every step of every process preserves the type invariant.
LEMMA NextTypeOK == TypeOK /\ [Next]_vars => TypeOK'
<1> SUFFICES ASSUME TypeOK, [Next]_vars PROVE TypeOK'
  OBVIOUS
<1> USE NoProcAssumption, HalfChanges DEF TypeOK, Goto, handleVars, auxVars
<1>1. ASSUME NEW p \in Procs, WriteBegins(p) PROVE TypeOK'
  <2>1. \A q \in Procs : pc[q] \notin {"writing", "marking"}
    BY <1>1 DEF WriteBegins
  <2>2. Torn(data') /\ pc'[p] = "writing"
    BY <1>1, <2>1 DEF WriteBegins, EnterWrite
  <2>3. \A q \in Procs : pc'[q] \in {"writing", "marking"} <=> writer' = q
    BY <1>1, <2>1 DEF WriteBegins, EnterWrite
  <2> QED
    BY <1>1, <2>2, <2>3 DEF WriteBegins, EnterWrite
<1>2. ASSUME NEW p \in Procs, WriteCopied(p) PROVE TypeOK'
  <2>1. ~Torn(data') /\ \A q \in Procs : pc'[q] # "writing"
    BY <1>2 DEF WriteCopied
  <2> QED
    BY <1>2, <2>1 DEF WriteCopied
<1>3. ASSUME NEW p \in Procs, WriteMarks(p) PROVE TypeOK'
  BY <1>3 DEF WriteMarks, WriteEnds
<1>4. ASSUME NEW p \in Procs, Setattr(p) PROVE TypeOK'
  BY <1>4 DEF Setattr, SetattrBy
<1>5. ASSUME NEW p \in Procs, FlushClean(p) PROVE TypeOK'
  BY <1>5 DEF FlushClean, vars
<1>6. ASSUME NEW p \in Procs, FlushDirty(p) PROVE TypeOK'
  BY <1>6 DEF FlushDirty, FlushAny
<1>7. ASSUME NEW p \in Procs, Snapshot(p) PROVE TypeOK'
  BY <1>7 DEF Snapshot, SnapshotAny
<1>8. ASSUME NEW p \in Procs, ApiApplies(p) PROVE TypeOK'
  BY <1>8 DEF ApiApplies
<1>9. ASSUME NEW p \in Procs, WriteFnOK(p) PROVE TypeOK'
  BY <1>9 DEF WriteFnOK
<1>10. ASSUME NEW p \in Procs, WriteFnErr(p) PROVE TypeOK'
  BY <1>10 DEF WriteFnErr, Fail
<1>11. ASSUME NEW p \in Procs, FlushClears(p) PROVE TypeOK'
  <2>1. \A q \in Procs : /\ pc'[q] \in {"writing", "marking"} <=> writer' = q
                         /\ pc'[q] = "writing" <=> pc[q] = "writing"
    BY <1>11 DEF FlushClears
  <2>2. /\ pc' \in [Procs -> {"idle", "writing", "marking", "snapshot",
                             "calling", "applied", "clearing"}]
        /\ payload' \in [Procs -> 0..data']
    BY <1>11 DEF FlushClears
  <2>3. Torn(data') <=> \E q \in Procs : pc'[q] = "writing"
    BY <1>11, <2>1 DEF FlushClears
  <2> QED
    BY <1>11, <2>1, <2>2, <2>3 DEF FlushClears
<1>12. CASE UNCHANGED vars
  BY <1>12 DEF vars
<1> QED
  BY <1>1, <1>2, <1>3, <1>4, <1>5, <1>6, <1>7, <1>8, <1>9, <1>10, <1>11, <1>12
     DEF Next

\* Every step of every process preserves the rest of IInv.
LEMMA NextIInv == IInv /\ [Next]_vars => IInv'
<1> SUFFICES ASSUME IInv, [Next]_vars, TypeOK' PROVE IInv'
  BY NextTypeOK DEF IInv
<1> DEFINE Rest == /\ SavedUnlessOverlapped
                   /\ OnlyWritersSave
                   /\ PayloadsCover
                   /\ PayloadsCoverWriter
                   /\ DirtyMeansWritten
<1> SUFFICES Rest'
  BY DEF IInv
<1> USE NoProcAssumption
    DEF IInv, TypeOK, SavedUnlessOverlapped, OnlyWritersSave, PayloadsCover,
        PayloadsCoverWriter, DirtyMeansWritten, Saving, Applied, Goto,
        handleVars, auxVars
<1>1. ASSUME NEW p \in Procs, WriteBegins(p) PROVE Rest'
  BY <1>1 DEF WriteBegins, EnterWrite
<1>2. ASSUME NEW p \in Procs, WriteCopied(p) PROVE Rest'
  BY <1>2 DEF WriteCopied
<1>3. ASSUME NEW p \in Procs, WriteMarks(p) PROVE Rest'
  BY <1>3 DEF WriteMarks, WriteEnds
<1>4. ASSUME NEW p \in Procs, Setattr(p) PROVE Rest'
  BY <1>4 DEF Setattr, SetattrBy
<1>5. ASSUME NEW p \in Procs, FlushClean(p) PROVE Rest'
  BY <1>5 DEF FlushClean, vars
<1>6. ASSUME NEW p \in Procs, FlushDirty(p) PROVE Rest'
  BY <1>6 DEF FlushDirty, FlushAny
<1>7. ASSUME NEW p \in Procs, Snapshot(p) PROVE Rest'
  <2>1. /\ payload'[p] = data /\ pc'[p] = "calling"
        /\ \A q \in Procs \ {p} : payload'[q] = payload[q] /\ pc'[q] = pc[q]
        /\ UNCHANGED <<handleVars, remote, writer, written>>
        /\ overlapped' = (overlapped \/ Torn(data))
    BY <1>7 DEF Snapshot, SnapshotAny
  <2>2. data # 0 /\ data >= written /\ written # 0
    BY <1>7 DEF Snapshot, SnapshotAny
  <2>3. \A w \in Procs : pc'[w] = "writing" => overlapped'
    BY <2>1
  <2>4. PayloadsCover'
    BY <2>1, <2>2
  <2>5. PayloadsCoverWriter'
    BY <2>1, <2>3
  <2> QED
    BY <1>7, <2>1, <2>4, <2>5
<1>8. ASSUME NEW p \in Procs, ApiApplies(p) PROVE Rest'
  BY <1>8 DEF ApiApplies
<1>9. ASSUME NEW p \in Procs, WriteFnOK(p) PROVE Rest'
  BY <1>9 DEF WriteFnOK
<1>10. ASSUME NEW p \in Procs, WriteFnErr(p) PROVE Rest'
  BY <1>10 DEF WriteFnErr, Fail
<1>11. ASSUME NEW p \in Procs, FlushClears(p) PROVE Rest'
  BY <1>11 DEF FlushClears
<1>12. CASE UNCHANGED vars
  BY <1>12 DEF vars
<1> QED
  BY <1>1, <1>2, <1>3, <1>4, <1>5, <1>6, <1>7, <1>8, <1>9, <1>10, <1>11, <1>12
     DEF Next

LEMMA SpecIInv == Spec => []IInv
BY InitIInv, NextIInv, PTL DEF Spec

-----------------------------------------------------------------------------
\* The type invariant, with the exactness of the kernel's inode lock.
THEOREM TypeCorrect == Spec => []TypeOK
<1>1. IInv => TypeOK
  BY DEF IInv
<1> QED
  BY <1>1, SpecIInv, PTL

\* Whatever number of processes share the descriptor and however their calls
\* fail, Write and Flush of helpers.go lose a Write only if it changes h.data
\* while a Flush is under way.
THEOREM LostOnlyOnOverlap == Spec => []SavedUnlessOverlapped
<1>1. IInv => SavedUnlessOverlapped
  BY DEF IInv
<1> QED
  BY <1>1, SpecIInv, PTL

\* Closing a file that nobody wrote to never calls WriteFn.
THEOREM ClosingIsNotWriting == Spec => []OnlyWritersSave
<1>1. IInv => OnlyWritersSave
  BY DEF IInv
<1> QED
  BY <1>1, SpecIInv, PTL

\* For a descriptor that one process holds, as with a shell redirection,
\* the comment on writableFile is true: a Write is saved by the close.
THEOREM OneProcessSaves ==
  ASSUME NEW self, Procs = {self}
  PROVE  Spec => []WritesSavedOnClose
<1>1. Init => ~overlapped
  BY DEF Init
<1>2. IInv /\ ~overlapped /\ [Next]_vars => ~overlapped'
  <2> SUFFICES ASSUME IInv, ~overlapped, [Next]_vars PROVE ~overlapped'
    OBVIOUS
  <2> USE DEF Goto, handleVars, auxVars
  <2>1. ASSUME WriteBegins(self) PROVE ~overlapped'
    BY <2>1 DEF WriteBegins, EnterWrite, Saving
  <2>2. ASSUME Snapshot(self) PROVE ~overlapped'
    BY <2>2 DEF Snapshot, SnapshotAny, IInv, TypeOK
  <2>3. ASSUME ~WriteBegins(self), ~Snapshot(self) PROVE overlapped' = overlapped
    BY <2>3 DEF Next, vars, WriteCopied, WriteMarks, WriteEnds, Setattr, SetattrBy,
       FlushClean, FlushDirty, FlushAny, ApiApplies, WriteFnOK,
       WriteFnErr, Fail, FlushClears
  <2> QED
    BY <2>1, <2>2, <2>3
<1>3. IInv /\ ~overlapped => WritesSavedOnClose
  BY DEF IInv, SavedUnlessOverlapped, WritesSavedOnClose
<1> QED
  BY <1>1, <1>2, <1>3, SpecIInv, PTL DEF Spec

-----------------------------------------------------------------------------
(* The life of the process *)

\* A close that has returned 0 has left no Write behind.
ClosedSaved == closed = "ok" => overlapped \/ remote >= written

\* Signals, unmounts and exits of main.go add nothing to what happens to the
\* handle: while the process is up its steps are the handle's, afterwards only
\* a call that was sent before may still be applied.
LEMMA LifecycleSteps == [LifecycleNext]_allVars => [Next]_vars
<1> SUFFICES ASSUME [LifecycleNext]_allVars PROVE [Next]_vars
  OBVIOUS
<1>1. CASE Release \/ Signal \/ Umount
  BY <1>1 DEF Release, Signal, Umount
<1>2. CASE Unmount
  BY <1>2 DEF Unmount, UnmountReturns
<1>3. CASE Exit \/ WaitReturns \/ Kill
  BY <1>3 DEF Exit, WaitReturns, Kill, Stop
<1>4. ASSUME NEW p \in Procs,
             BeginWrite(p) \/ Truncate(p) \/ BeginFlush(p)
      PROVE  Next
  BY <1>4 DEF BeginWrite, Truncate, BeginFlush, Next
<1>5. ASSUME NEW p \in Procs, CloseTells(p) PROVE Next
  BY <1>5 DEF CloseTells, Next
<1>6. ASSUME NEW p \in Procs, ServeWrite(p) \/ ServeFlush(p) PROVE Next
  BY <1>5, <1>6 DEF ServeWrite, ServeFlush, Next
<1>7. ASSUME NEW p \in Procs, Abort(p) PROVE UNCHANGED vars
  BY <1>7 DEF Abort
<1>8. ASSUME NEW p \in Procs, ApiAppliesLate(p) PROVE Next
  BY <1>8 DEF ApiAppliesLate, Next
<1>9. CASE UNCHANGED allVars
  BY <1>9 DEF allVars
<1> QED
  BY <1>1, <1>2, <1>3, <1>4, <1>5, <1>6, <1>7, <1>8, <1>9 DEF LifecycleNext

\* A process that may be signalled, killed or unmounted at any moment handles
\* its file as one that runs for ever does.
THEOREM LifecycleImplementsFile == LifecycleSpec => Spec
<1>1. LifecycleInit => Init
  BY DEF LifecycleInit
<1> QED
  BY <1>1, LifecycleSteps, PTL DEF LifecycleSpec, Spec

LEMMA LifecycleSpecIInv == LifecycleSpec => []IInv
BY LifecycleImplementsFile, SpecIInv, PTL

\* A Flush that returns 0 leaves the API with what PayloadsCover says, a clean
\* handle that has nothing to save with what SavedUnlessOverlapped says.
LEMMA NextClosedSaved ==
  IInv /\ ClosedSaved /\ [LifecycleNext]_allVars => ClosedSaved'
<1> SUFFICES ASSUME IInv, ClosedSaved, [LifecycleNext]_allVars
             PROVE  ClosedSaved'
  OBVIOUS
<1>a. /\ remote \in Nat /\ written \in Nat /\ overlapped \in BOOLEAN
      /\ payload \in [Procs -> Nat]
  BY DEF IInv, TypeOK
<1>1. CASE Release \/ Signal \/ Umount
  BY <1>1 DEF Release, Signal, Umount, vars, auxVars, ClosedSaved
<1>2. CASE Unmount
  BY <1>2 DEF Unmount, UnmountReturns, vars, auxVars, ClosedSaved
<1>3. CASE Exit \/ WaitReturns \/ Kill
  BY <1>3 DEF Exit, WaitReturns, Kill, Stop, vars, auxVars, ClosedSaved
<1>4. ASSUME NEW p \in Procs, BeginWrite(p) \/ Truncate(p) PROVE closed' = "no"
  BY <1>4 DEF BeginWrite, Truncate
<1>5. ASSUME NEW p \in Procs, BeginFlush(p) PROVE ClosedSaved'
  BY <1>5 DEF BeginFlush, FlushDirty, FlushAny, auxVars, ClosedSaved
<1>6. ASSUME NEW p \in Procs, CloseTells(p) PROVE ClosedSaved'
  <2>1. CASE FlushClean(p)
    BY <2>1 DEF FlushClean, vars, auxVars, IInv, SavedUnlessOverlapped, ClosedSaved
  <2>2. CASE FlushClears(p)
    <3>1. overlapped \/ remote >= written
      BY <2>2 DEF FlushClears, IInv, PayloadsCover, Saving, Applied
    <3> QED
      BY <2>2, <3>1 DEF FlushClears, auxVars, ClosedSaved
  <2>3. CASE WriteFnErr(p) /\ closed' = "error"
    BY <2>3 DEF ClosedSaved
  <2> QED
    BY <1>6, <2>1, <2>2, <2>3 DEF CloseTells
<1>7. ASSUME NEW p \in Procs, ApiApplies(p), UNCHANGED closed PROVE ClosedSaved'
  <2>1. overlapped \/ payload[p] >= written
    BY <1>7 DEF ApiApplies, IInv, PayloadsCover, Saving
  <2> QED
    BY <1>7, <2>1 DEF ApiApplies, auxVars, ClosedSaved
<1>8. ASSUME NEW p \in Procs, ServeWrite(p) PROVE ClosedSaved'
  BY <1>8 DEF ServeWrite, WriteCopied, WriteMarks, WriteEnds, auxVars, ClosedSaved
<1>9. ASSUME NEW p \in Procs, ServeFlush(p) PROVE ClosedSaved'
  <2>1. CASE Snapshot(p) /\ UNCHANGED closed
    BY <1>a, <2>1 DEF Snapshot, SnapshotAny, ClosedSaved
  <2>2. CASE WriteFnOK(p) /\ UNCHANGED closed
    BY <2>2 DEF WriteFnOK, auxVars, ClosedSaved
  <2> QED
    BY <1>6, <1>7, <1>9, <2>1, <2>2 DEF ServeFlush
<1>10. ASSUME NEW p \in Procs, Abort(p) PROVE closed' = "error"
  BY <1>10 DEF Abort
<1>11. ASSUME NEW p \in Procs, ApiAppliesLate(p) PROVE ClosedSaved'
  BY <1>7, <1>11 DEF ApiAppliesLate, lifeVars
<1>12. CASE UNCHANGED allVars
  BY <1>12 DEF allVars, lifeVars, vars, auxVars, ClosedSaved
<1>13. ASSUME closed' = "no" \/ closed' = "error" PROVE ClosedSaved'
  BY <1>13 DEF ClosedSaved
<1> QED
  BY <1>1, <1>2, <1>3, <1>4, <1>5, <1>6, <1>8, <1>9, <1>10, <1>11, <1>12, <1>13
     DEF LifecycleNext

\* The values of the life of the process, and what its end leaves behind.
LEMMA NextLifecycleTypeOK ==
  LifecycleTypeOK /\ [LifecycleNext]_allVars => LifecycleTypeOK'
<1> SUFFICES ASSUME LifecycleTypeOK, [LifecycleNext]_allVars
             PROVE  LifecycleTypeOK'
  OBVIOUS
<1> USE DEF LifecycleTypeOK, Returned
<1>1. CASE Release
  BY <1>1 DEF Release, vars, mainVars
<1>2. CASE Signal \/ Umount
  BY <1>2 DEF Signal, Umount, vars
<1>3. CASE Unmount
  BY <1>3 DEF Unmount, UnmountReturns, vars
<1>4. CASE Exit \/ WaitReturns \/ Kill
  BY <1>4 DEF Exit, WaitReturns, Kill, Stop, vars
<1>5. ASSUME NEW p \in Procs,
             \/ BeginWrite(p) \/ Truncate(p) \/ BeginFlush(p)
             \/ CloseTells(p) \/ ServeWrite(p) \/ ServeFlush(p)
      PROVE  /\ open /\ open' /\ UNCHANGED <<mainVars, aborted>>
             /\ closed' \in {"no", "ok", "error"}
  BY <1>5 DEF BeginWrite, Truncate, BeginFlush, CloseTells, ServeWrite, ServeFlush, Served
<1>6. ASSUME NEW p \in Procs, Abort(p) PROVE LifecycleTypeOK'
  BY <1>6 DEF Abort, vars, mainVars
<1>7. ASSUME NEW p \in Procs, ApiAppliesLate(p) PROVE LifecycleTypeOK'
  BY <1>7 DEF ApiAppliesLate, ApiApplies, lifeVars, mainVars, Goto
<1>8. CASE UNCHANGED allVars
  BY <1>8 DEF allVars, lifeVars, vars, mainVars
<1>9. ASSUME NEW p \in Procs,
             \/ BeginWrite(p) \/ Truncate(p) \/ BeginFlush(p)
             \/ CloseTells(p) \/ ServeWrite(p) \/ ServeFlush(p)
      PROVE  LifecycleTypeOK'
  BY <1>5, <1>9 DEF mainVars
<1> QED
  BY <1>1, <1>2, <1>3, <1>4, <1>6, <1>7, <1>8, <1>9 DEF LifecycleNext

THEOREM LifecycleTypeCorrect == LifecycleSpec => []LifecycleTypeOK
<1>1. LifecycleInit => LifecycleTypeOK
  BY DEF LifecycleInit, LifecycleTypeOK
<1> QED
  BY <1>1, NextLifecycleTypeOK, PTL DEF LifecycleSpec

\* Whatever moment Ctrl-C, umount or the death of the process takes, and
\* whatever call is applied after it, a Write is lost only if it overlapped a
\* Flush or its close has returned an error.
THEOREM NoWriteIsLostSilently == LifecycleSpec => []NoSilentLoss
<1>1. LifecycleInit => ClosedSaved
  BY DEF LifecycleInit, ClosedSaved
<1>2. LifecycleSpec => []ClosedSaved
  BY <1>1, NextClosedSaved, LifecycleSpecIInv, PTL DEF LifecycleSpec
<1>3. LifecycleTypeOK /\ ClosedSaved => NoSilentLoss
  BY DEF LifecycleTypeOK, ClosedSaved, NoSilentLoss
<1> QED
  BY <1>2, <1>3, LifecycleTypeCorrect, PTL

-----------------------------------------------------------------------------
(* Buffer: h.data as a slice *)

\* A reply lies inside its array, the current one or an older one.
ReplyInv ==
  /\ reply \in [Readers -> [from : Nat, to : Nat, older : Seq(Byte)]]
  /\ \A r \in Readers : Len(reply[r].older) <= MaxCap

BufferInv ==
  /\ array \in Seq(Byte)
  /\ shown \in [Readers -> [1..MaxCap -> SUBSET Byte]]
  /\ ReplyInv
  /\ BufferTypeOK
  /\ RepliesWereInFile

\* A list of length c is a sequence, and so is a new array.
LEMMA FunctionIsSeq ==
  ASSUME NEW S, NEW c \in Nat, NEW f \in [1..c -> S]
  PROVE  f \in Seq(S) /\ Len(f) = c
<1>1. f \in Seq(S)
  BY SeqDef
<1>2. 1..Len(f) = 1..c /\ Len(f) \in Nat
  BY <1>1, LenProperties
<1> QED
  BY <1>1, <1>2

LEMMA AllocatedIs ==
  ASSUME NEW bytes \in Seq(Byte), NEW c \in Nat
  PROVE  /\ Allocated(bytes, c) \in Seq(Byte) /\ Len(Allocated(bytes, c)) = c
         /\ \A i \in 1..c : i <= Len(bytes) => Allocated(bytes, c)[i] = bytes[i]
<1>1. \A i \in 1..c : i <= Len(bytes) => bytes[i] \in Byte
  BY ElementOfSeq
<1>2. Allocated(bytes, c) \in [1..c -> Byte]
  BY <1>1, ByteAssumption DEF Allocated
<1> QED
  BY <1>2, FunctionIsSeq DEF Allocated

LEMMA OverIs ==
  ASSUME BufferInv, NEW off \in Nat, NEW bytes \in Seq(Byte), off + Len(bytes) <= Cap
  PROVE  /\ Over(off, bytes) \in Seq(Byte) /\ Len(Over(off, bytes)) = Cap
         /\ \A i \in 1..Cap : Over(off, bytes)[i] =
              IF i \in (off + 1)..(off + Len(bytes)) THEN bytes[i - off] ELSE array[i]
<1>1. /\ Cap \in Nat /\ Len(bytes) \in Nat /\ DOMAIN bytes = 1..Len(bytes)
      /\ \A i \in 1..Cap : array[i] \in Byte
      /\ \A i \in 1..Len(bytes) : bytes[i] \in Byte
  BY LenProperties, ElementOfSeq DEF BufferInv, Cap
<1>2. \A i \in 1..Cap : i - off \in DOMAIN bytes <=> i \in (off + 1)..(off + Len(bytes))
  BY <1>1
<1>3. Over(off, bytes) \in [1..Cap -> Byte]
  BY <1>1 DEF Over
<1>4. Over(off, bytes) \in Seq(Byte) /\ Len(Over(off, bytes)) = Cap
  BY <1>1, <1>3, FunctionIsSeq
<1> QED
  BY <1>2, <1>4 DEF Over

\* The content is the first size bytes of the array.
LEMMA ContentIs ==
  ASSUME NEW a \in Seq(Byte), NEW m \in 0..Len(a)
  PROVE  /\ SubSeq(a, 1, m) \in Seq(Byte) /\ Len(SubSeq(a, 1, m)) = m
         /\ \A i \in 1..m : SubSeq(a, 1, m)[i] = a[i]
<1>1. \A i \in 1..m : a[i] \in Byte
  BY ElementOfSeq, LenProperties
<1>2. m \in Int
  OBVIOUS
<1> QED
  BY <1>1, <1>2, SubSeqProperties

LEMMA InitBufferInv == BufferInit => BufferInv
<1> SUFFICES ASSUME BufferInit PROVE BufferInv
  OBVIOUS
<1>1. PICK n \in 0..MaxCap, c \in 0..MaxCap :
        n <= c /\ size = n /\ \E bytes \in [1..n -> Byte] : array = Allocated(bytes, c)
  BY DEF BufferInit
<1>2. PICK bytes \in [1..n -> Byte] : array = Allocated(bytes, c)
  BY <1>1
<1>3. n \in Nat /\ c \in Nat /\ c <= MaxCap
  BY MaxCapAssumption
<1>4. bytes \in Seq(Byte)
  BY <1>3, FunctionIsSeq
<1>5. array \in Seq(Byte) /\ Len(array) = c
  BY <1>2, <1>3, <1>4, AllocatedIs
<1>6. reply = [r \in Readers |-> NoReply] /\ shown = [r \in Readers |-> NothingShown]
  BY DEF BufferInit
<1>7. ReplyInv
  BY <1>6, EmptySeq, MaxCapAssumption DEF ReplyInv, NoReply
<1>8. \A r \in Readers : ~Pending(r) /\ reply[r].from = 1 /\ reply[r].to = 0
  BY <1>6 DEF Pending, NoReply
<1>9. RepliesWereInFile
  BY <1>8 DEF RepliesWereInFile
<1>10. BufferTypeOK
  <2>1. \A i \in DOMAIN array : array[i] \in Byte
    BY <1>5, LenProperties, ElementOfSeq
  <2> QED
    BY <1>1, <1>3, <1>5, <1>8, <2>1 DEF BufferTypeOK, Cap
<1>11. shown \in [Readers -> [1..MaxCap -> SUBSET Byte]]
  BY <1>6 DEF NothingShown
<1> QED
  BY <1>5, <1>7, <1>9, <1>10, <1>11 DEF BufferInv

\* What a reader has been shown stays shown, and the content is shown to it.
LEMMA ShowIs ==
  ASSUME BufferInv, Show, array' \in Seq(Byte), size' \in 0..Len(array'), Len(array') <= MaxCap
  PROVE  /\ shown' \in [Readers -> [1..MaxCap -> SUBSET Byte]]
         /\ \A r \in Readers : \A i \in 1..MaxCap :
              /\ shown[r][i] \subseteq shown'[r][i]
              /\ i \in reply[r].from..reply[r].to /\ i <= size' => array'[i] \in shown'[r][i]
<1>1. ASSUME NEW i \in 1..MaxCap, i <= size' PROVE array'[i] \in Byte
  <2>1. i \in 1..Len(array')
    BY <1>1, LenProperties
  <2> QED
    BY <2>1, ElementOfSeq
<1>2. shown \in [Readers -> [1..MaxCap -> SUBSET Byte]]
  BY DEF BufferInv
<1>3. \A r \in Readers : \A i \in 1..MaxCap : shown'[r][i] =
        IF i \in reply[r].from..reply[r].to /\ i <= size'
        THEN shown[r][i] \cup {array'[i]} ELSE shown[r][i]
  BY DEF Show
<1>4. shown' \in [Readers -> [1..MaxCap -> SUBSET Byte]]
  <2> DEFINE seen(r) == [i \in 1..MaxCap |->
       IF i \in reply[r].from..reply[r].to /\ i <= size'
       THEN shown[r][i] \cup {array'[i]} ELSE shown[r][i]]
  <2>1. ASSUME NEW r \in Readers PROVE seen(r) \in [1..MaxCap -> SUBSET Byte]
    <3>1. \A i \in 1..MaxCap : shown[r][i] \in SUBSET Byte
      BY <1>2
    <3>2. \A i \in 1..MaxCap :
            (IF i \in reply[r].from..reply[r].to /\ i <= size'
             THEN shown[r][i] \cup {array'[i]} ELSE shown[r][i]) \in SUBSET Byte
      BY <1>1, <3>1
    <3> QED
      BY <3>2
  <2>2. shown' = [r \in Readers |-> seen(r)]
    BY DEF Show
  <2> HIDE DEF seen
  <2> QED
    BY <2>1, <2>2
<1> QED
  BY <1>3, <1>4

\* The handlers that do not make a new array write to positions they show.
LEMMA InPlaceBufferInv ==
  ASSUME BufferInv, Show, UNCHANGED reply, array' \in Seq(Byte), Len(array') = Len(array),
         size' \in 0..Len(array),
         \A i \in 1..Len(array) : array'[i] = array[i] \/ i <= size'
  PROVE  BufferInv'
<1> USE MaxCapAssumption
<1>1. Len(array) \in Nat /\ Len(array) <= MaxCap
  BY LenProperties DEF BufferInv, BufferTypeOK, Cap
<1>2. /\ shown' \in [Readers -> [1..MaxCap -> SUBSET Byte]]
      /\ \A r \in Readers : \A i \in 1..MaxCap :
           /\ shown[r][i] \subseteq shown'[r][i]
           /\ i \in reply[r].from..reply[r].to /\ i <= size' => array'[i] \in shown'[r][i]
  BY <1>1, ShowIs
<1>3. ReplyInv'
  BY DEF BufferInv, ReplyInv
<1>4. \A r \in Readers : Pending(r)' = Pending(r) /\ (reply[r].older # <<>> => Backing(r)' = Backing(r))
  BY DEF Pending, Backing
<1>5. ASSUME NEW r \in Readers PROVE Len(Backing(r)') = Len(Backing(r))
  BY DEF Backing
<1>6. BufferTypeOK'
  <2>1. \A i \in DOMAIN array' : array'[i] \in Byte
    BY LenProperties, ElementOfSeq
  <2>2. ASSUME NEW r \in Readers, Pending(r)'
        PROVE  1 <= reply'[r].from /\ reply'[r].from <= reply'[r].to /\ reply'[r].to <= Len(Backing(r)')
    BY <1>4, <1>5, <2>2 DEF BufferInv, BufferTypeOK
  <2> QED
    BY <1>1, <2>1, <2>2 DEF BufferTypeOK, Cap
<1>7. RepliesWereInFile'
  <2> SUFFICES ASSUME NEW r \in Readers, NEW i \in reply[r].from..reply[r].to
               PROVE  Backing(r)'[i] \in shown'[r][i]
    BY DEF RepliesWereInFile
  <2>1. Backing(r)[i] \in shown[r][i]
    BY DEF BufferInv, RepliesWereInFile
  <2>2. i \in 1..Len(Backing(r)) /\ i \in 1..MaxCap
    <3>1. Pending(r)
      BY DEF Pending, NoReply
    <3>2. 1 <= reply[r].from /\ reply[r].to <= Len(Backing(r))
      BY <3>1 DEF BufferInv, BufferTypeOK
    <3>3. Len(Backing(r)) \in Nat /\ Len(Backing(r)) <= MaxCap
      BY <1>1, LenProperties DEF BufferInv, ReplyInv, Backing
    <3>4. reply[r].from \in Nat /\ reply[r].to \in Nat
      BY DEF BufferInv, ReplyInv
    <3> QED
      BY <3>2, <3>3, <3>4
  <2>3. CASE reply[r].older # <<>>
    BY <1>2, <1>4, <2>1, <2>2, <2>3
  <2>4. CASE reply[r].older = <<>>
    <3>1. Backing(r) = array /\ Backing(r)' = array'
      BY <2>4 DEF Backing
    <3> QED
      BY <1>2, <2>1, <2>2, <3>1
  <2> QED
    BY <2>3, <2>4
<1> QED
  BY <1>2, <1>3, <1>6, <1>7 DEF BufferInv

\* append beyond the capacity: the replies keep the old array.
LEMMA GrowsBufferInv ==
  ASSUME BufferInv, Show, NEW off \in Nat, NEW bytes \in Seq(Byte), bytes # <<>>,
         off + Len(bytes) <= MaxCap, WriteGrows(off, bytes)
  PROVE  BufferInv'
<1> USE MaxCapAssumption
<1> DEFINE kept == SubSeq(array, 1, off)
           end  == off + Len(bytes)
<1>1. Len(array) \in Nat /\ Len(array) <= MaxCap /\ array \in Seq(Byte) /\ off \in 0..Len(array)
  BY LenProperties DEF BufferInv, BufferTypeOK, Cap, WriteGrows
<1>2. kept \in Seq(Byte) /\ Len(kept) = off
  BY <1>1, ContentIs
<1>3. kept \o bytes \in Seq(Byte) /\ Len(kept \o bytes) = end /\ end \in Nat
  BY <1>2, ConcatProperties, LenProperties
<1>4. PICK c \in end..MaxCap : array' = Allocated(kept \o bytes, c)
  BY DEF WriteGrows
<1>5. array' \in Seq(Byte) /\ Len(array') = c /\ c \in Nat /\ c <= MaxCap
  <2> HIDE DEF kept, end
  <2>1. c \in Nat /\ c <= MaxCap
    BY <1>3
  <2> QED
    BY <1>3, <1>4, <2>1, AllocatedIs
<1>6. size' \in 0..Len(array')
  BY <1>3, <1>5 DEF WriteGrows
<1>7. /\ shown' \in [Readers -> [1..MaxCap -> SUBSET Byte]]
      /\ \A r \in Readers : \A i \in 1..MaxCap : shown[r][i] \subseteq shown'[r][i]
  BY <1>5, <1>6, ShowIs
<1>8. ASSUME NEW r \in Readers
      PROVE  /\ reply'[r] \in [from : Nat, to : Nat, older : Seq(Byte)]
             /\ Len(reply'[r].older) <= MaxCap
             /\ reply'[r].from = reply[r].from /\ reply'[r].to = reply[r].to
             /\ Pending(r) => reply'[r].older = Backing(r)
  <2>1. CASE Pending(r) /\ reply[r].older = <<>>
    <3>1. reply'[r] = [from |-> reply[r].from, to |-> reply[r].to, older |-> array]
      BY <2>1 DEF WriteGrows, BufferInv, ReplyInv
    <3> QED
      BY <1>1, <2>1, <3>1 DEF BufferInv, ReplyInv, Backing
  <2>2. CASE ~ (Pending(r) /\ reply[r].older = <<>>)
    <3>1. reply'[r] = reply[r]
      BY <2>2 DEF WriteGrows
    <3> QED
      BY <2>2, <3>1 DEF BufferInv, ReplyInv, Backing
  <2> QED
    BY <2>1, <2>2
<1>9. ReplyInv'
  <2>1. reply' = [r \in Readers |-> reply'[r]]
    BY DEF WriteGrows
  <2> QED
    BY <1>8, <2>1 DEF ReplyInv
<1>10. ASSUME NEW r \in Readers, Pending(r)
       PROVE  Backing(r)' = Backing(r)
  <2>1. Len(Backing(r)) >= 1 /\ reply'[r].older = Backing(r)
    BY <1>8, <1>10, <1>1, LenProperties DEF BufferInv, BufferTypeOK, ReplyInv
  <2>2. Backing(r) # <<>>
    BY <2>1, EmptySeq
  <2> QED
    BY <2>1, <2>2 DEF Backing
<1>11. ASSUME NEW r \in Readers, Pending(r)' PROVE Pending(r)
  <2>1. CASE ~Pending(r)
    <3>1. reply'[r] = reply[r]
      BY <2>1 DEF WriteGrows
    <3> QED
      BY <1>11, <3>1 DEF Pending
  <2> QED
    BY <2>1
<1>12. BufferTypeOK'
  <2>1. \A i \in DOMAIN array' : array'[i] \in Byte
    BY <1>5, LenProperties, ElementOfSeq
  <2>2. ASSUME NEW r \in Readers, Pending(r)'
        PROVE  1 <= reply'[r].from /\ reply'[r].from <= reply'[r].to /\ reply'[r].to <= Len(Backing(r)')
    BY <1>8, <1>10, <1>11, <2>2 DEF BufferInv, BufferTypeOK
  <2> QED
    BY <1>5, <1>6, <2>1, <2>2 DEF BufferTypeOK, Cap
<1>13. RepliesWereInFile'
  <2> SUFFICES ASSUME NEW r \in Readers, NEW i \in reply'[r].from..reply'[r].to
               PROVE  Backing(r)'[i] \in shown'[r][i]
    BY DEF RepliesWereInFile
  <2>1. i \in reply[r].from..reply[r].to
    BY <1>8
  <2>2. Pending(r)
    BY <2>1 DEF Pending, NoReply
  <2>3. Backing(r)[i] \in shown[r][i]
    BY <2>1 DEF BufferInv, RepliesWereInFile
  <2>4. i \in 1..MaxCap
    <3>1. 1 <= reply[r].from /\ reply[r].to <= Len(Backing(r))
      BY <2>2 DEF BufferInv, BufferTypeOK
    <3>2. Len(Backing(r)) \in Nat /\ Len(Backing(r)) <= MaxCap
      BY <1>1, LenProperties DEF BufferInv, ReplyInv, Backing
    <3>3. reply[r].from \in Nat /\ reply[r].to \in Nat
      BY DEF BufferInv, ReplyInv
    <3> QED
      BY <2>1, <3>1, <3>2, <3>3
  <2> QED
    BY <1>7, <1>10, <2>2, <2>3, <2>4
<1> QED
  BY <1>5, <1>7, <1>9, <1>12, <1>13 DEF BufferInv

LEMMA NextBufferInv == BufferInv /\ [BufferNext]_bufferVars => BufferInv'
<1> SUFFICES ASSUME BufferInv, [BufferNext]_bufferVars PROVE BufferInv'
  OBVIOUS
<1> USE MaxCapAssumption
<1>1. Len(array) \in Nat /\ Len(array) <= MaxCap /\ array \in Seq(Byte) /\ Cap = Len(array)
      /\ size \in 0..Len(array)
  BY LenProperties DEF BufferInv, BufferTypeOK, Cap
<1>2. ASSUME NEW off \in 0..MaxCap, NEW n \in 1..(MaxCap - off), NEW bytes \in [1..n -> Byte],
             Write(off, bytes)
      PROVE  BufferInv'
  <2>1. bytes \in Seq(Byte) /\ Len(bytes) = n /\ n \in Nat
    BY FunctionIsSeq
  <2>2. CASE WriteInside(off, bytes) \/ WriteAppends(off, bytes)
    <3>1. /\ array' = Over(off, bytes) /\ UNCHANGED reply /\ Show
          /\ off + n <= Len(array) /\ off + n <= size'
          /\ size' \in 0..Len(array)
      BY <1>1, <1>2, <2>1, <2>2 DEF WriteInside, WriteAppends, Write
    <3>2. /\ array' \in Seq(Byte) /\ Len(array') = Len(array)
          /\ \A i \in 1..Len(array) : array'[i] =
               IF i \in (off + 1)..(off + n) THEN bytes[i - off] ELSE array[i]
      <4>1. off \in Nat /\ off + Len(bytes) <= Cap
        BY <1>1, <2>1, <3>1
      <4>2. /\ Over(off, bytes) \in Seq(Byte) /\ Len(Over(off, bytes)) = Cap
            /\ \A i \in 1..Cap : Over(off, bytes)[i] =
                 IF i \in (off + 1)..(off + Len(bytes)) THEN bytes[i - off] ELSE array[i]
        BY <2>1, <4>1, OverIs
      <4> QED
        BY <1>1, <2>1, <3>1, <4>2
    <3>3. \A i \in 1..Len(array) : array'[i] = array[i] \/ i <= size'
      BY <1>1, <2>1, <3>1, <3>2
    <3> QED
      BY <3>1, <3>2, <3>3, InPlaceBufferInv
  <2>3. CASE WriteGrows(off, bytes)
    <3>1. bytes # <<>>
      BY <2>1, EmptySeq
    <3>2. off \in Nat /\ off + Len(bytes) <= MaxCap /\ Show
      BY <1>2, <2>1 DEF Write
    <3> QED
      BY <2>1, <2>3, <3>1, <3>2, GrowsBufferInv
  <2> QED
    BY <1>2, <2>2, <2>3 DEF Write, WriteAt
<1>3. ASSUME NEW off \in 0..MaxCap, SetattrSize(off) PROVE BufferInv'
  <2>1. array' = array /\ size' \in 0..Len(array) /\ UNCHANGED reply /\ Show
    BY <1>1, <1>3 DEF SetattrSize, Kept
  <2> QED
    BY <1>1, <2>1, InPlaceBufferInv
<1>4. ASSUME NEW r \in Readers, Replied(r) PROVE BufferInv'
  <2>1. reply' = [reply EXCEPT ![r] = NoReply] /\ UNCHANGED <<array, size>>
        /\ shown' = [shown EXCEPT ![r] = NothingShown]
    BY <1>4 DEF Replied
  <2>2. ReplyInv'
    <3>1. NoReply \in [from : Nat, to : Nat, older : Seq(Byte)] /\ Len(NoReply.older) <= MaxCap
      BY EmptySeq DEF NoReply
    <3> HIDE DEF NoReply
    <3> QED
      BY <2>1, <3>1 DEF BufferInv, ReplyInv
  <2>3. shown' \in [Readers -> [1..MaxCap -> SUBSET Byte]]
    BY <2>1 DEF BufferInv, NothingShown
  <2>4. \A q \in Readers : q # r => reply'[q] = reply[q] /\ shown'[q] = shown[q]
    BY <2>1
  <2>5. reply'[r] = NoReply
    BY <2>1 DEF BufferInv, ReplyInv
  <2>6. BufferTypeOK'
    BY <2>1, <2>4, <2>5 DEF BufferInv, BufferTypeOK, Pending, Backing, Cap
  <2>7. RepliesWereInFile'
    BY <2>1, <2>4, <2>5 DEF BufferInv, RepliesWereInFile, Backing, NoReply
  <2> QED
    BY <2>1, <2>2, <2>3, <2>6, <2>7 DEF BufferInv
<1>5. ASSUME NEW r \in Readers, NEW off \in 0..(MaxCap - 1), NEW n \in 1..MaxCap, Read(r, off, n)
      PROVE  BufferInv'
  <2> DEFINE new == [from |-> off + 1, to |-> End(off, n), older |-> <<>>]
  <2>1. reply' = [reply EXCEPT ![r] = new] /\ UNCHANGED <<array, size>> /\ off < size
    BY <1>5 DEF Read
  <2>2. /\ off + 1 \in Nat /\ End(off, n) \in Nat /\ off + 1 <= End(off, n)
        /\ End(off, n) <= size /\ 1 <= off + 1
    BY <1>1, <2>1 DEF End
  <2>3. new \in [from : Nat, to : Nat, older : Seq(Byte)] /\ Len(new.older) = 0
    BY <2>2, EmptySeq
  <2>4. new.from = off + 1 /\ new.to = End(off, n) /\ new.older = <<>>
    OBVIOUS
  <2> HIDE DEF new
  <2>5. reply'[r] = new /\ \A q \in Readers : q # r => reply'[q] = reply[q]
    BY <2>1 DEF BufferInv, ReplyInv
  <2>6. ReplyInv'
    BY <2>1, <2>3 DEF BufferInv, ReplyInv
  <2> DEFINE seen == [i \in 1..MaxCap |->
       IF i \in reply'[r].from..reply'[r].to /\ i <= size THEN {array[i]} ELSE {}]
  <2>7. shown' = [shown EXCEPT ![r] = seen]
    BY <1>5 DEF Read
  <2>8. \A i \in 1..Len(array) : array[i] \in Byte
    BY <1>1, ElementOfSeq
  <2>9. seen \in [1..MaxCap -> SUBSET Byte]
    BY <1>1, <2>8
  <2>10. \A i \in (off + 1)..End(off, n) : array[i] \in seen[i]
    BY <1>1, <2>2, <2>4, <2>5
  <2> HIDE DEF seen
  <2>11. /\ shown' \in [Readers -> [1..MaxCap -> SUBSET Byte]]
         /\ shown'[r] = seen /\ \A q \in Readers : q # r => shown'[q] = shown[q]
    BY <2>7, <2>9 DEF BufferInv
  <2>12. BufferTypeOK'
    <3>1. ASSUME NEW q \in Readers, Pending(q)'
          PROVE  1 <= reply'[q].from /\ reply'[q].from <= reply'[q].to /\ reply'[q].to <= Len(Backing(q)')
      <4>1. CASE q = r
        <5>1. Backing(r)' = array
          BY <2>1, <2>4, <2>5 DEF Backing
        <5> QED
          BY <1>1, <2>2, <2>4, <2>5, <4>1, <5>1
      <4>2. CASE q # r
        BY <2>1, <2>5, <3>1, <4>2 DEF BufferInv, BufferTypeOK, Pending, Backing
      <4> QED
        BY <4>1, <4>2
    <3> QED
      BY <2>1, <3>1 DEF BufferInv, BufferTypeOK, Cap
  <2>13. RepliesWereInFile'
    <3>1. ASSUME NEW q \in Readers, NEW i \in reply'[q].from..reply'[q].to
          PROVE  Backing(q)'[i] \in shown'[q][i]
      <4>1. CASE q = r
        <5>1. Backing(r)' = array /\ i \in (off + 1)..End(off, n)
          BY <2>1, <2>4, <2>5, <4>1 DEF Backing
        <5> QED
          BY <2>10, <2>11, <4>1, <5>1
      <4>2. CASE q # r
        BY <2>1, <2>5, <2>11, <3>1, <4>2 DEF BufferInv, RepliesWereInFile, Backing
      <4> QED
        BY <4>1, <4>2
    <3> QED
      BY <3>1 DEF RepliesWereInFile
  <2> QED
    BY <2>1, <2>6, <2>11, <2>12, <2>13 DEF BufferInv
<1>6. CASE UNCHANGED <<array, size, reply, shown>>
  BY <1>6 DEF BufferInv, BufferTypeOK, ReplyInv, RepliesWereInFile, Pending, Backing, Cap
<1> QED
  BY <1>2, <1>3, <1>4, <1>5, <1>6 DEF BufferNext, WritePanics, bufferVars

LEMMA SpecBufferInv == BufferSpec => []BufferInv
BY InitBufferInv, NextBufferInv, PTL DEF BufferSpec

\* The content lies inside the array, and every reply inside its own, whatever
\* the handlers have done and however large the file.
THEOREM BufferTypeCorrect == BufferSpec => []BufferTypeOK
<1>1. BufferInv => BufferTypeOK
  BY DEF BufferInv
<1> QED
  BY <1>1, SpecBufferInv, PTL

\* Each byte of a reply that go-fuse copies late was in the file at its offset
\* since the Read began.
THEOREM RepliesAlwaysInFile == BufferSpec => []RepliesWereInFile
<1>1. BufferInv => RepliesWereInFile
  BY DEF BufferInv
<1> QED
  BY <1>1, SpecBufferInv, PTL

-----------------------------------------------------------------------------
(* Content *)

\* A Write puts its bytes and keeps the others, in each of its three forms.
LEMMA WritePuts ==
  ASSUME BufferInv, BufferInv', NEW off \in 0..MaxCap, NEW n \in 1..(MaxCap - off),
         NEW bytes \in [1..n -> Byte], Write(off, bytes)
  PROVE  Put(off, bytes)
<1> USE MaxCapAssumption
<1>1. /\ Len(array) \in Nat /\ array \in Seq(Byte) /\ Cap = Len(array) /\ size \in 0..Len(array)
      /\ Len(array') \in Nat /\ array' \in Seq(Byte) /\ size' \in 0..Len(array')
  BY LenProperties DEF BufferInv, BufferTypeOK, Cap
<1>2. bytes \in Seq(Byte) /\ Len(bytes) = n /\ n \in Nat /\ DOMAIN bytes = 1..n
  BY FunctionIsSeq
<1>3. /\ size' = IF off + n > size THEN off + n ELSE size
      /\ \A i \in 1..n : array'[off + i] = bytes[i]
      /\ \A i \in 1..size \ (off + 1)..(off + n) : array'[i] = array[i]
  <2>1. CASE WriteInside(off, bytes) \/ WriteAppends(off, bytes)
    <3>1. /\ array' = Over(off, bytes) /\ off + n <= Len(array)
          /\ size' = IF off + n > size THEN off + n ELSE size
      BY <1>1, <1>2, <2>1 DEF WriteInside, WriteAppends
    <3>2. \A i \in 1..Len(array) : array'[i] =
            IF i \in (off + 1)..(off + n) THEN bytes[i - off] ELSE array[i]
      <4>1. off \in Nat /\ off + Len(bytes) <= Cap
        BY <1>1, <1>2, <3>1
      <4>2. \A i \in 1..Cap : Over(off, bytes)[i] =
              IF i \in (off + 1)..(off + Len(bytes)) THEN bytes[i - off] ELSE array[i]
        BY <1>2, <4>1, OverIs
      <4> QED
        BY <1>1, <1>2, <3>1, <4>2
    <3>3. ASSUME NEW i \in 1..n PROVE array'[off + i] = bytes[i]
      <4>1. off + i \in 1..Len(array) /\ off + i \in (off + 1)..(off + n) /\ (off + i) - off = i
        BY <1>1, <1>2, <3>1
      <4> QED
        BY <3>2, <4>1
    <3> QED
      BY <1>1, <3>1, <3>2, <3>3
  <2>2. CASE WriteGrows(off, bytes)
    <3> DEFINE kept == SubSeq(array, 1, off)
    <3>1. off \in 0..Len(array) /\ size' = off + n /\ off + n > size
      BY <1>1, <1>2, <2>2 DEF WriteGrows
    <3>2. kept \in Seq(Byte) /\ Len(kept) = off /\ \A i \in 1..off : kept[i] = array[i]
      BY <1>1, <3>1, ContentIs
    <3>3. PICK c \in (off + n)..MaxCap : array' = Allocated(kept \o bytes, c)
      BY <1>2, <2>2 DEF WriteGrows
    <3> HIDE DEF kept
    <3>4. /\ kept \o bytes \in Seq(Byte) /\ Len(kept \o bytes) = off + n
          /\ \A i \in 1..(off + n) : (kept \o bytes)[i] = IF i <= off THEN kept[i] ELSE bytes[i - off]
      BY <1>2, <3>2, ConcatProperties
    <3>5. c \in Nat /\ off + n <= c
      BY <1>2
    <3>6. \A i \in 1..(off + n) : array'[i] = IF i <= off THEN array[i] ELSE bytes[i - off]
      <4>1. \A i \in 1..c : i <= off + n => array'[i] = (kept \o bytes)[i]
        BY <3>3, <3>4, <3>5, AllocatedIs
      <4>2. ASSUME NEW i \in 1..(off + n)
            PROVE  array'[i] = IF i <= off THEN array[i] ELSE bytes[i - off]
        <5>1. i \in 1..c /\ i <= off + n /\ (i <= off => i \in 1..off)
          BY <1>2, <3>5
        <5> QED
          BY <3>2, <3>4, <4>1, <5>1
      <4> QED
        BY <4>2
    <3>7. ASSUME NEW i \in 1..n PROVE array'[off + i] = bytes[i]
      <4>1. off + i \in 1..(off + n) /\ ~ (off + i <= off) /\ (off + i) - off = i
        BY <1>2
      <4> QED
        BY <3>6, <4>1
    <3>8. ASSUME NEW i \in 1..size \ (off + 1)..(off + n) PROVE array'[i] = array[i]
      <4>1. i \in 1..(off + n) /\ i <= off
        BY <1>1, <1>2, <3>1
      <4> QED
        BY <3>6, <4>1
    <3> QED
      BY <3>1, <3>7, <3>8
  <2> QED
    BY <2>1, <2>2 DEF Write, WriteAt
<1>4. /\ \A i \in 1..size : Content[i] = array[i]
      /\ \A i \in 1..size' : Content'[i] = array'[i]
  BY <1>1, ContentIs DEF Content
<1>5. ASSUME NEW i \in 1..n PROVE Content'[off + i] = bytes[i]
  <2>1. off + i \in 1..size'
    BY <1>1, <1>2, <1>3
  <2> QED
    BY <1>3, <1>4, <2>1
<1>6. ASSUME NEW i \in 1..size \ (off + 1)..(off + n) PROVE Content'[i] = Content[i]
  <2>1. i \in 1..size'
    BY <1>1, <1>2, <1>3
  <2> QED
    BY <1>3, <1>4, <2>1
<1> QED
  BY <1>2, <1>3, <1>5, <1>6 DEF Put

\* A truncation keeps the bytes before the new end.
LEMMA SetattrCuts ==
  ASSUME BufferInv, NEW n \in 0..MaxCap, SetattrSize(n)
  PROVE  Cut(n)
<1>1. array \in Seq(Byte) /\ Len(array) \in Nat /\ size \in 0..Len(array)
  BY LenProperties DEF BufferInv, BufferTypeOK, Cap
<1>2. n < size /\ array' = array /\ size' = n /\ n \in 0..size /\ n \in 0..Len(array)
  BY <1>1, MaxCapAssumption DEF SetattrSize, Kept
<1>3. /\ Content \in Seq(Byte) /\ Len(Content) = size
      /\ \A i \in 1..size : Content[i] = array[i]
  BY <1>1, ContentIs DEF Content
<1>4. /\ SubSeq(Content, 1, n) \in Seq(Byte) /\ Len(SubSeq(Content, 1, n)) = n
      /\ \A i \in 1..n : SubSeq(Content, 1, n)[i] = Content[i]
  BY <1>2, <1>3, ContentIs
<1>5. /\ SubSeq(array, 1, n) \in Seq(Byte) /\ Len(SubSeq(array, 1, n)) = n
      /\ \A i \in 1..n : SubSeq(array, 1, n)[i] = array[i]
  BY <1>1, <1>2, ContentIs
<1>6. SubSeq(array, 1, n) = SubSeq(Content, 1, n)
  <2>1. \A i \in 1..n : SubSeq(array, 1, n)[i] = SubSeq(Content, 1, n)[i]
    BY <1>2, <1>3, <1>4, <1>5
  <2> QED
    BY <1>4, <1>5, <2>1, SeqEqual
<1> QED
  BY <1>2, <1>6 DEF Cut, Content

\* Only a Read or its reply begins or ends one that is on its way.
LEMMA ReadsKeepContent ==
  ASSUME BufferInv, BufferNext, NEW r \in Readers, Pending(r) # Pending(r)'
  PROVE  Content' = Content
<1>1. ASSUME NEW off \in 0..MaxCap, NEW n \in 1..(MaxCap - off), NEW bytes \in [1..n -> Byte],
             Write(off, bytes)
      PROVE  Pending(r)' = Pending(r)
  <2>1. CASE UNCHANGED reply
    BY <2>1 DEF Pending
  <2>2. CASE WriteGrows(off, bytes)
    <3>1. CASE Pending(r)
      <4>1. reply[r].from <= reply[r].to /\ reply[r] \in [from : Nat, to : Nat, older : Seq(Byte)]
        BY <3>1 DEF BufferInv, ReplyInv, BufferTypeOK
      <4>2. reply'[r].from = reply[r].from /\ reply'[r].to = reply[r].to
        BY <2>2, <4>1 DEF WriteGrows
      <4>3. Pending(r)'
        BY <4>1, <4>2 DEF Pending, NoReply
      <4> QED
        BY <3>1, <4>3
    <3>2. CASE ~Pending(r)
      BY <2>2, <3>2 DEF WriteGrows, Pending
    <3> QED
      BY <3>1, <3>2
  <2> QED
    BY <1>1, <2>1, <2>2 DEF Write, WriteAt, WriteInside, WriteAppends
<1>2. ASSUME NEW off \in 0..MaxCap, WritePanics(off) \/ SetattrSize(off)
      PROVE  Pending(r)' = Pending(r)
  BY <1>2 DEF WritePanics, SetattrSize, Pending
<1>3. UNCHANGED <<array, size>>
  BY <1>1, <1>2 DEF BufferNext, Replied, Read
<1> QED
  BY <1>3 DEF Content

\* h.data is a file's content, however it is resliced, appended to and moved.
THEOREM ContentAlwaysOfAFile == BufferSpec => ContentIsOfAFile
<1> DEFINE OfAFile ==
      /\ \A off \in 0..MaxCap : \A n \in 1..(MaxCap - off) :
           \A bytes \in [1..n -> Byte] : Write(off, bytes) => Put(off, bytes)
      /\ \A n \in 0..MaxCap : SetattrSize(n) => Cut(n)
      /\ \A r \in Readers : Pending(r) # Pending(r)' => Content' = Content
<1>1. BufferInv /\ BufferInv' /\ [BufferNext]_bufferVars => [OfAFile]_bufferVars
  BY WritePuts, SetattrCuts, ReadsKeepContent
<1> QED
  BY <1>1, SpecBufferInv, PTL DEF BufferSpec, ContentIsOfAFile
=============================================================================
