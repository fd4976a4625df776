------------------------------- MODULE Buffer -------------------------------
(***************************************************************************)
(* h.data of writableFileHandle, as the slice that it is: a backing array  *)
(* whose first size bytes are the content.                                 *)
(*                                                                         *)
(* Write and Setattr reslice and append; what a truncation cuts off stays  *)
(* in the array.  Read replies with a slice of the array, which go-fuse    *)
(* copies to the kernel after the handler has returned: the kernel runs    *)
(* Read beside Write, so the array may have changed by then, or a larger   *)
(* one have taken its place.                                               *)
(*                                                                         *)
(* Each handler reads and writes the fields of h.data in one step here;    *)
(* WritableFile is about steps in between.  Offsets count from 0, and the  *)
(* byte at offset i is array[i + 1].                                       *)
(***************************************************************************)
EXTENDS Integers, Sequences

CONSTANTS Readers,     \* reads whose reply is on its way
          Byte,        \* what a byte may be, Zero included
          Zero,        \* the byte that fresh memory has
          MaxCap       \* bound on the capacity of an array

ASSUME ByteAssumption == Zero \in Byte
ASSUME MaxCapAssumption == MaxCap \in Nat

VARIABLES array,       \* the backing array, up to its capacity
          size,        \* len(h.data)
          reply,       \* per read: the slice it replies with
          shown,       \* auxiliary: per read, what each byte of the file has been since
          panicked     \* the program has panicked

bufferVars == <<array, size, reply, shown, panicked>>

Content == SubSeq(array, 1, size)
Cap == Len(array)

\* A slice from..to of the array of h.data, or of an older one.
NoReply == [from |-> 1, to |-> 0, older |-> <<>>]
Pending(r) == reply[r] # NoReply
Backing(r) == IF reply[r].older = <<>> THEN array ELSE reply[r].older

NothingShown == [i \in 1..MaxCap |-> {}]

\* An array of capacity c that starts with bytes; the rest is fresh.
Allocated(bytes, c) == [i \in 1..c |-> IF i <= Len(bytes) THEN bytes[i] ELSE Zero]

\* Open: []byte(f.contentFn()).
BufferInit ==
  /\ \E n \in 0..MaxCap, c \in 0..MaxCap :
       n <= c /\ size = n /\ \E bytes \in [1..n -> Byte] : array = Allocated(bytes, c)
  /\ reply = [r \in Readers |-> NoReply]
  /\ shown = [r \in Readers |-> NothingShown]
  /\ panicked = FALSE

\* What each reader has been shown by the file, this step included.
Show ==
  shown' = [r \in Readers |->
    [i \in 1..MaxCap |->
       IF i \in reply[r].from..reply[r].to /\ i <= size'
       THEN shown[r][i] \cup {array'[i]} ELSE shown[r][i]]]

-----------------------------------------------------------------------------
(* Handlers *)

\* The array with bytes at offset off.
Over(off, bytes) ==
  [i \in 1..Cap |-> IF i - off \in DOMAIN bytes THEN bytes[i - off] ELSE array[i]]

\* copy(h.data[off:], data)
WriteInside(off, bytes) ==
  /\ off + Len(bytes) <= size
  /\ array' = Over(off, bytes)
  /\ UNCHANGED <<size, reply>>

\* append(h.data[:off], data...) within the capacity: the bytes between the
\* old end and off are what the array holds there.
WriteAppends(off, bytes) ==
  /\ off + Len(bytes) > size
  /\ off + Len(bytes) <= Cap
  /\ array' = Over(off, bytes)
  /\ size' = off + Len(bytes)
  /\ UNCHANGED reply

\* append beyond the capacity: a larger array takes the place of this one,
\* which stays with the replies on their way.
WriteGrows(off, bytes) ==
  /\ off <= Cap
  /\ off + Len(bytes) > Cap
  /\ \E c \in (off + Len(bytes))..MaxCap :
       array' = Allocated(SubSeq(array, 1, off) \o bytes, c)
  /\ size' = off + Len(bytes)
  /\ reply' = [r \in Readers |->
       IF Pending(r) /\ reply[r].older = <<>> THEN [reply[r] EXCEPT !.older = array] ELSE reply[r]]

WriteWithoutCut(off, bytes) ==
  IF off + Len(bytes) <= size
  THEN WriteInside(off, bytes)
  ELSE WriteAppends(size, bytes) \/ WriteGrows(size, bytes)
WriteAt(off, bytes) ==
  WriteInside(off, bytes) \/ WriteAppends(off, bytes) \/ WriteGrows(off, bytes)

Write(off, bytes) ==
  /\ ~panicked
  /\ WriteAt(off, bytes)
  /\ Show
  /\ UNCHANGED panicked

\* h.data[:off] with off beyond the capacity: slice bounds out of range.
WritePanics(off) ==
  /\ ~panicked
  /\ off > Cap
  /\ panicked' = TRUE
  /\ UNCHANGED <<array, size, reply, shown>>

\* Setattr: a size that is not smaller changes nothing.
CutOff(n) == [i \in 1..Cap |-> IF i > n THEN Zero ELSE array[i]]
Kept(n) == array

SetattrSize(n) ==
  /\ ~panicked
  /\ n < size
  /\ array' = Kept(n)
  /\ size' = n
  /\ Show
  /\ UNCHANGED <<reply, panicked>>

\* end := min(int(off)+len(dest), len(h.data))
EndAsked(off, n) == off + n
End(off, n) == IF off + n < size THEN off + n ELSE size

\* Read: the slice off..end; an offset at or beyond the end reads nothing.
Read(r, off, n) ==
  /\ ~panicked
  /\ ~Pending(r)
  /\ off < size
  /\ reply' = [reply EXCEPT ![r] =
       [from |-> off + 1, to |-> End(off, n), older |-> <<>>]]
  /\ shown' = [shown EXCEPT ![r] = [i \in 1..MaxCap |->
       IF i \in reply'[r].from..reply'[r].to /\ i <= size THEN {array[i]} ELSE {}]]
  /\ UNCHANGED <<array, size, panicked>>

\* go-fuse has copied the reply to the kernel.
Replied(r) ==
  /\ ~panicked
  /\ Pending(r)
  /\ reply' = [reply EXCEPT ![r] = NoReply]
  /\ shown' = [shown EXCEPT ![r] = NothingShown]
  /\ UNCHANGED <<array, size, panicked>>

BufferNext ==
  \/ \E off \in 0..MaxCap : \E n \in 1..(MaxCap - off) :
       \E bytes \in [1..n -> Byte] : Write(off, bytes)
  \/ \E off \in 0..MaxCap : WritePanics(off) \/ SetattrSize(off)
  \/ \E r \in Readers :
       Replied(r) \/ \E off \in 0..(MaxCap - 1), n \in 1..MaxCap : Read(r, off, n)

BufferSpec == BufferInit /\ [][BufferNext]_bufferVars

-----------------------------------------------------------------------------
(* Properties *)

\* The values the variables range over; the content and every reply lie inside
\* their arrays.
BufferTypeOK ==
  /\ Cap <= MaxCap /\ \A i \in DOMAIN array : array[i] \in Byte
  /\ size \in 0..Cap
  /\ \A r \in Readers : Pending(r) =>
       1 <= reply[r].from /\ reply[r].from <= reply[r].to /\ reply[r].to <= Len(Backing(r))

\* However h.data is resliced, appended to and moved, its content is that of a
\* file: a Write puts its bytes at its offset and changes no others, except
\* those of a gap that it leaves behind the old end; a truncation keeps the
\* bytes before the new end; and reading changes nothing.
Put(off, bytes) ==
  /\ size' = IF off + Len(bytes) > size THEN off + Len(bytes) ELSE size
  /\ \A i \in DOMAIN bytes : Content'[off + i] = bytes[i]
  /\ \A i \in 1..size \ (off + 1)..(off + Len(bytes)) : Content'[i] = Content[i]

Cut(n) == Content' = SubSeq(Content, 1, n)

ContentIsOfAFile ==
  [][/\ \A off \in 0..MaxCap : \A n \in 1..(MaxCap - off) :
          \A bytes \in [1..n -> Byte] : Write(off, bytes) => Put(off, bytes)
     /\ \A n \in 0..MaxCap : SetattrSize(n) => Cut(n)
     /\ \A r \in Readers : Pending(r) # Pending(r)' => Content' = Content]_bufferVars

\* A reply that is copied after the handler has returned may mix the bytes of
\* several moments, but each of them was in the file at its offset at some
\* moment since the Read began.
RepliesWereInFile ==
  \A r \in Readers : \A i \in reply[r].from..reply[r].to : Backing(r)[i] \in shown[r][i]

\* "writes accumulate in the handle": no Write ends the program.
NeverPanics == ~panicked
=============================================================================
