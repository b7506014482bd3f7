------------------------------- MODULE YaDisk -------------------------------
(***************************************************************************)
(* The transport over a shared folder (core/transport/yadisk/yadisk.go):   *)
(* a conn whose writes become numbered files that the other side polls for,*)
(* reads in order and deletes.  One direction is modelled; the other is    *)
(* the same with the folders exchanged.                                    *)
(*                                                                         *)
(* The storage service is external: a file appears whole; a request may    *)
(* fail, and one that timed out at the sender may still take effect later. *)
(* The sessions begin with empty folders and numbers at zero.              *)
(***************************************************************************)
EXTENDS Naturals, Sequences, SequencesExt

CONSTANTS
  MaxBytes,   \* bytes written over the session
  MaxChunk,   \* maxChunkSize
  QueueLen,   \* length of dataOut and dataIn
  MaxLate     \* requests that fail or take effect late

NoChunk == <<>>

VARIABLES
  written,            \* bytes the writer's Write has queued
  dataOut, writeSeq, putting,   \* sender: queue, next number, chunk in hand
  putSeq,             \* number of the chunk in hand
  disk, late,         \* files, PUTs that timed out and may still land
  deletes,            \* DELETEs on their way
  readSeq, taken, dataIn, buf,  \* receiver
  got,                \* bytes Read has returned
  stopped,            \* stopCh of the sender and of the receiver
  gone,               \* loops that have returned
  faults

ydVars == <<written, dataOut, writeSeq, putting, putSeq, disk, late, deletes,
            readSeq, taken, dataIn, buf, got, stopped, gone, faults>>

Init ==
  /\ written = 0 /\ dataOut = <<>> /\ writeSeq = 0 /\ putting = NoChunk /\ putSeq = 0
  /\ disk = {} /\ late = {} /\ deletes = {}
  /\ readSeq = 0 /\ taken = NoChunk /\ dataIn = <<>> /\ buf = <<>> /\ got = <<>>
  /\ stopped = {} /\ gone = {} /\ faults = 0

Bytes(n) == [i \in 1..n |-> written + i]

\* One chunk of a Write; after Stop the select may still take the queue.
Write(n) ==
  /\ written + n <= MaxBytes /\ Len(dataOut) < QueueLen
  /\ dataOut' = Append(dataOut, Bytes(n)) /\ written' = written + n
  /\ UNCHANGED <<writeSeq, putting, putSeq, disk, late, deletes, readSeq, taken, dataIn, buf, got, stopped, gone, faults>>

\* runSendLoop takes a chunk and its number.
TakeChunk ==
  /\ "sender" \notin gone /\ putting = NoChunk /\ dataOut # <<>>
  /\ putting' = Head(dataOut) /\ dataOut' = Tail(dataOut)
  /\ putSeq' = writeSeq /\ writeSeq' = writeSeq + 1
  /\ UNCHANGED <<written, disk, late, deletes, readSeq, taken, dataIn, buf, got, stopped, gone, faults>>

File(n, data) == [seq |-> n, data |-> data]
Without(n) == {f \in disk : f.seq # n}

\* PUT replaces the file of that name.
putFile ==
  /\ putting # NoChunk
  /\ disk' = Without(putSeq) \cup {File(putSeq, putting)} /\ putting' = NoChunk
  /\ UNCHANGED <<written, dataOut, writeSeq, putSeq, late, deletes, readSeq, taken, dataIn, buf, got, stopped, gone, faults>>

\* Mutant of PutFails: each try takes a new number.
PutFails_NewNumber ==
  /\ putting # NoChunk /\ faults < MaxLate /\ faults' = faults + 1
  /\ late' \in {late, late \cup {File(putSeq, putting)}}
  /\ putSeq' = writeSeq /\ writeSeq' = writeSeq + 1
  /\ UNCHANGED <<written, dataOut, putting, disk, deletes, readSeq, taken, dataIn, buf, got, stopped, gone>>

\* The PUT fails or times out: the same file is put again, unless stopped.
PutFails ==
  /\ putting # NoChunk /\ faults < MaxLate /\ faults' = faults + 1
  /\ late' \in {late, late \cup {File(putSeq, putting)}}
  /\ \/ UNCHANGED <<putting, gone>>
     \/ "sender" \in stopped /\ putting' = NoChunk /\ gone' = gone \cup {"sender"}
  /\ UNCHANGED <<written, dataOut, writeSeq, putSeq, disk, deletes, readSeq, taken, dataIn, buf, got, stopped>>

LateLands(f) ==
  /\ f \in late /\ late' = late \ {f}
  /\ disk' = Without(f.seq) \cup {f}
  /\ UNCHANGED <<written, dataOut, writeSeq, putting, putSeq, deletes, readSeq, taken, dataIn, buf, got, stopped, gone, faults>>

\* A poll that finds the file; one that does not, or fails, changes nothing.
getFile ==
  /\ "receiver" \notin gone /\ taken = NoChunk
  /\ \E f \in disk : f.seq = readSeq /\ taken' = f.data
  /\ readSeq' = readSeq + 1 /\ deletes' = deletes \cup {readSeq}
  /\ UNCHANGED <<written, dataOut, writeSeq, putting, putSeq, disk, late, dataIn, buf, got, stopped, gone, faults>>

\* The delete runs on its own and may fail.
deleteFile(n) ==
  /\ n \in deletes /\ deletes' = deletes \ {n}
  /\ \/ disk' = Without(n) /\ UNCHANGED faults
     \/ faults < MaxLate /\ faults' = faults + 1 /\ UNCHANGED disk
  /\ UNCHANGED <<written, dataOut, writeSeq, putting, putSeq, late, readSeq, taken, dataIn, buf, got, stopped, gone>>

Deliver ==
  /\ taken # NoChunk
  /\ \/ Len(dataIn) < QueueLen /\ dataIn' = Append(dataIn, taken) /\ UNCHANGED gone
     \/ "receiver" \in stopped /\ gone' = gone \cup {"receiver"} /\ UNCHANGED dataIn
  /\ taken' = NoChunk
  /\ UNCHANGED <<written, dataOut, writeSeq, putting, putSeq, disk, late, deletes, readSeq, buf, got, stopped, faults>>

\* sendLoop and recvLoop return once they see the stop.
LoopReturns(side) ==
  /\ side \in stopped \ gone
  /\ IF side = "sender" THEN putting = NoChunk ELSE taken = NoChunk
  /\ gone' = gone \cup {side}
  /\ UNCHANGED <<written, dataOut, writeSeq, putting, putSeq, disk, late, deletes, readSeq, taken, dataIn, buf, got, stopped, faults>>

\* Read with room for n bytes: first what an earlier chunk left.
Read(n) ==
  /\ \/ /\ buf # <<>>
        /\ LET k == IF n < Len(buf) THEN n ELSE Len(buf) IN
           got' = got \o SubSeq(buf, 1, k) /\ buf' = SubSeq(buf, k + 1, Len(buf))
        /\ UNCHANGED dataIn
     \/ /\ buf = <<>> /\ dataIn # <<>>
        /\ LET d == Head(dataIn)  k == IF n < Len(d) THEN n ELSE Len(d) IN
           got' = got \o SubSeq(d, 1, k) /\ buf' = SubSeq(d, k + 1, Len(d))
        /\ dataIn' = Tail(dataIn)
  /\ UNCHANGED <<written, dataOut, writeSeq, putting, putSeq, disk, late, deletes, readSeq, taken, stopped, gone, faults>>

\* Close is Stop: what is still queued is not sent.
Stop(side) ==
  /\ side \notin stopped /\ stopped' = stopped \cup {side}
  /\ UNCHANGED <<written, dataOut, writeSeq, putting, putSeq, disk, late, deletes, readSeq, taken, dataIn, buf, got, gone, faults>>

Next ==
  \/ \E n \in 1..MaxChunk : Write(n) \/ Read(n)
  \/ TakeChunk \/ putFile \/ PutFails \/ getFile \/ Deliver
  \/ \E f \in late : LateLands(f)
  \/ \E n \in deletes : deleteFile(n)
  \/ \E side \in {"sender", "receiver"} : Stop(side) \/ LoopReturns(side)

Spec == Init /\ [][Next]_ydVars

-----------------------------------------------------------------------------
(* Properties.                                                             *)

InFlight == FoldLeft(LAMBDA a, c : a \o c, <<>>, <<got, buf>> \o dataIn \o <<taken>>)

\* Bytes come out in the order they went in, none twice and none left out,
\* whatever requests fail, land late or repeat (runSendLoop, runRecvLoop,
\* diskConn.Read); and while both loops run, every byte written is
\* read, on its way, on the disk under a number still to be read, or in the
\* sender's hands.
DiskInOrder ==
  /\ \A i \in DOMAIN got : got[i] = i
  /\ "receiver" \notin gone => \A i \in DOMAIN InFlight : InFlight[i] = i
  /\ gone = {} =>
       \A b \in 1..written :
         \/ b <= Len(InFlight)
         \/ \E f \in disk : f.seq >= readSeq /\ \E i \in DOMAIN f.data : f.data[i] = b
         \/ \E i \in DOMAIN putting : putting[i] = b
         \/ \E c \in DOMAIN dataOut : \E i \in DOMAIN dataOut[c] : dataOut[c][i] = b
=============================================================================
