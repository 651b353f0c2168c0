--------------------------- MODULE RawFileWriter ---------------------------
(***************************************************************************)
(* RawFileWriter as the writer thread of Daq uses it: the part files of a  *)
(* run on disk, the std::ofstream in front of the current one, the search  *)
(* for a free name and the rotation at the size limit.  The directory may  *)
(* hold files of earlier runs with the same number, the process may die    *)
(* and the disk may fill up.                                               *)
(*                                                                         *)
(* A byte is the number of the block it belongs to, a header byte is 0.    *)
(* A file name is <<cycle, n>>: n = 0 is the plain name of makePath(),     *)
(* n > 0 the one with the suffix "_n".                                     *)
(***************************************************************************)
EXTENDS Naturals, SequencesExt

CONSTANTS maxFileBytes,  \* cfg_.maxFileBytes, 0 = never split
          HeaderBytes,   \* size of the header, 0 if cfg_.writeHeader is off
          LastSuffix,    \* the largest suffix uniquePath() tries, 99999 in the code
          Sizes,         \* sizes of the blocks that are written
          BufferSize,    \* what the stream can hold back
          Earlier,       \* names that files of earlier runs may have
          MaxBlocks,     \* bound: blocks written
          MaxFaults      \* bound: times the disk fills up or a file cannot be created

ASSUME WriterAssumption ==
    /\ {maxFileBytes, HeaderBytes, LastSuffix, BufferSize, MaxBlocks, MaxFaults} \subseteq Nat
    /\ Sizes \subseteq Nat \ {0}
    /\ Earlier \subseteq Nat \X Nat

VARIABLES
    disk,       \* content of every file, by name
    stream,     \* file_: [name, held (the stream buffer), good (its state)]
    cycle,      \* cycle_
    fileBytes,  \* fileBytes_
    at,         \* the caller: "new", "writing", "failed" (a call did), "closed"; "dead": the process is
    dirty,      \* writerLoop(): a block was written since the last flush()
    full,       \* the disk is full
    faults,     \* faults so far
    blocks,     \* blocks written so far
    accepted,   \* history: payload for which write() returned true (totalBytes_ is its length)
    parts,      \* history: the names of this run's files, in the order they were opened
    flushed,    \* history: bytes of the run at the last flush() that worked, before any error
    errors      \* history: the run met errors that were "reported" by open() or write(), or
                \* "unheard" ones of flush() or of closing a file, which nobody looks at

vars == <<disk, stream, cycle, fileBytes, at, dirty, full, faults, blocks, accepted, parts,
          flushed, errors>>

None == <<>>

Bytes(b, len) == [i \in 1 .. len |-> b]

Header == Bytes(0, HeaderBytes)

(* Any of the names may be taken, by a file with a block of another run. *)
Init == /\ \E names \in SUBSET Earlier : disk = [f \in names |-> Append(Header, MaxBlocks + 1)]
        /\ stream = [name |-> None, held |-> <<>>, good |-> TRUE]
        /\ cycle = 0
        /\ fileBytes = 0
        /\ at = "new"
        /\ dirty = FALSE
        /\ full = FALSE
        /\ faults = 0
        /\ blocks = 0
        /\ accepted = <<>>
        /\ parts = <<>>
        /\ flushed = 0
        /\ errors = {}

-----------------------------------------------------------------------------
(* std::ofstream.  An operation maps a stream s and the content of its file *)
(* to the set of its outcomes [file, held, good].                           *)

(* The first k of the bytes data go to the file.  On a full disk only some  *)
(* of them do and the stream is bad; it may then keep or drop what it held. *)
Hand(file, held, data, k) ==
    IF k > 0 /\ full
    THEN {[file |-> file \o SubSeq(data, 1, j), held |-> h, good |-> FALSE] :
              j \in 0 .. k - 1, h \in {held, <<>>}}
    ELSE {[file |-> file \o SubSeq(data, 1, k), held |-> SubSeq(data, k + 1, Len(data)),
           good |-> TRUE]}

(* write(): nothing on a bad stream, else hold back what fits. *)
Put(file, s, data) ==
    LET all == s.held \o data
    IN  IF s.good
        THEN UNION {Hand(file, s.held, all, k) :
                        k \in {i \in 0 .. Len(all) : Len(all) - i <= BufferSize}}
        ELSE {[file |-> file, held |-> s.held, good |-> FALSE]}

(* Mutant: flush() does nothing. *)
FlushedNot(file, s) == {[file |-> file, held |-> s.held, good |-> s.good]}

(* flush(); a bad stream stays bad, whether or not it tries again. *)
Flushed(file, s) ==
    LET tried == Hand(file, s.held, s.held, Len(s.held))
    IN  IF s.good THEN tried
        ELSE {[o EXCEPT !.good = FALSE] :
                  o \in tried \cup {[file |-> file, held |-> s.held, good |-> FALSE]}}

(* Mutant: what the stream held is dropped. *)
ClosedRough(file, s) == {[file |-> file, held |-> <<>>, good |-> TRUE]}

(* close(): hand over what is held, then forget the file. *)
Closed(file, s) == {[o EXCEPT !.held = <<>>, !.good = o.good /\ s.good] :
                        o \in Hand(file, s.held, s.held, Len(s.held))}

-----------------------------------------------------------------------------
(* uniquePath() and openCycle() *)

Taken(c) == \A n \in 0 .. LastSuffix : <<c, n>> \in DOMAIN disk

(* Mutant: the search ends one candidate early. *)
uniquePathShort(c) ==
    IF \A n \in 0 .. LastSuffix - 1 : <<c, n>> \in DOMAIN disk THEN <<c, 0>>
    ELSE <<c, CHOOSE n \in 0 .. LastSuffix - 1 : /\ <<c, n>> \notin DOMAIN disk
                                                 /\ \A m \in 0 .. n - 1 : <<c, m>> \in DOMAIN disk>>

(* The first name that is free; the plain one if all of them are taken. *)
uniquePath(c) ==
    IF Taken(c) THEN <<c, 0>>
    ELSE <<c, CHOOSE n \in 0 .. LastSuffix : /\ <<c, n>> \notin DOMAIN disk
                                             /\ \A m \in 0 .. n - 1 : <<c, m>> \in DOMAIN disk>>

(* The directory, or the file, cannot be created. *)
CannotCreate == faults < MaxFaults /\ faults' = faults + 1

NewStream == [held |-> <<>>, good |-> TRUE]

(* openCycle() opened the part file of cycle c, and the first write to it    *)
(* had the outcome o; rest is the disk without that file.                    *)
OpenPart(c, rest, o) ==
    LET name == uniquePath(c)
    IN  /\ disk' = [f \in DOMAIN rest \cup {name} |-> IF f = name THEN o.file ELSE rest[f]]
        /\ stream' = [name |-> name, held |-> o.held, good |-> o.good]
        /\ parts' = Append(parts, name)

-----------------------------------------------------------------------------
(* The operations *)

(* open() in Daq::prepare().  If the header cannot be written the writer is  *)
(* destroyed again, and the next call closes its file.                       *)
Open == /\ at = "new"
        /\ \/ /\ CannotCreate
              /\ at' = "closed"
              /\ errors' = {"reported"}
              /\ UNCHANGED <<disk, stream, parts, fileBytes>>
           \/ /\ \E o \in Put(<<>>, NewStream, Header) :
                     /\ OpenPart(0, disk, o)
                     /\ at' = IF o.good THEN "writing" ELSE "failed"
                     /\ errors' = IF o.good THEN {} ELSE {"reported"}
              /\ fileBytes' = HeaderBytes
              /\ UNCHANGED faults
        /\ UNCHANGED <<cycle, dirty, full, blocks, accepted, flushed>>

(* Mutant: the part is left when it is over the limit, not before. *)
MustRotateLate(len) == maxFileBytes # 0 /\ fileBytes > maxFileBytes

(* This block would push a part that is not empty past the limit. *)
MustRotate(len) == maxFileBytes # 0 /\ fileBytes + len > maxFileBytes /\ fileBytes > 0

(* What write() does once file_.write() has had the outcome o; the part had *)
(* before bytes, the run the errors known.                                   *)
Account(o, b, len, before, known) ==
    /\ errors' = IF o.good THEN known ELSE known \cup {"reported"}
    /\ at' = IF o.good THEN "writing" ELSE "failed"
    /\ fileBytes' = IF o.good THEN before + len ELSE before
    /\ accepted' = IF o.good THEN accepted \o Bytes(b, len) ELSE accepted

(* write() into the current part. *)
WriteHere(b, len) ==
    /\ ~MustRotate(len)
    /\ \E o \in Put(disk[stream.name], stream, Bytes(b, len)) :
           /\ disk' = [disk EXCEPT ![stream.name] = o.file]
           /\ stream' = [stream EXCEPT !.held = o.held, !.good = o.good]
           /\ Account(o, b, len, fileBytes, errors)
    /\ UNCHANGED <<cycle, faults, parts>>

(* write() that rotates first.  The state the old part's stream is left in   *)
(* is cleared before the next part is opened.                                *)
WriteRotating(b, len) ==
    /\ MustRotate(len)
    /\ cycle' = cycle + 1
    /\ \/ /\ CannotCreate                  \* the directory: the old part stays open
          /\ at' = "failed"
          /\ errors' = errors \cup {"reported"}
          /\ UNCHANGED <<disk, stream, parts, fileBytes, accepted>>
       \/ \E c \in Closed(disk[stream.name], stream) :
              LET rest == [disk EXCEPT ![stream.name] = c.file]
                  known == IF c.good THEN errors ELSE errors \cup {"unheard"}
              IN  \/ /\ CannotCreate       \* the file
                     /\ disk' = rest
                     /\ stream' = [name |-> None, held |-> <<>>, good |-> FALSE]
                     /\ at' = "failed"
                     /\ errors' = known \cup {"reported"}
                     /\ UNCHANGED <<parts, fileBytes, accepted>>
                  \/ /\ \E o \in Put(<<>>, NewStream, Bytes(b, len)) :
                            OpenPart(cycle + 1, rest, o) /\ Account(o, b, len, 0, known)
                     /\ UNCHANGED faults

(* writerLoop() writes one block; an empty one would return at once. *)
Write == /\ at = "writing"
         /\ blocks < MaxBlocks
         /\ blocks' = blocks + 1
         /\ dirty' = TRUE
         /\ \E len \in Sizes : WriteHere(blocks + 1, len) \/ WriteRotating(blocks + 1, len)
         /\ UNCHANGED <<full, flushed>>

(* flush() by writerLoop(), which ignores its result. *)
Flush == /\ at = "writing"
         /\ dirty
         /\ dirty' = FALSE
         /\ \E o \in Flushed(disk[stream.name], stream) :
                /\ disk' = [disk EXCEPT ![stream.name] = o.file]
                /\ stream' = [stream EXCEPT !.held = o.held, !.good = o.good]
                /\ flushed' = IF o.good /\ errors = {} THEN HeaderBytes + Len(accepted) ELSE flushed
                /\ errors' = IF o.good THEN errors ELSE errors \cup {"unheard"}
         /\ UNCHANGED <<cycle, fileBytes, at, full, faults, blocks, accepted, parts>>

(* close() by teardownWriter(), or by the destructor: flush, then close. *)
Close == /\ at \in {"writing", "failed"}
         /\ at' = "closed"
         /\ IF stream.name = None THEN UNCHANGED <<disk, errors>>
            ELSE \E first \in Flushed(disk[stream.name], stream) :
                     \E o \in Closed(first.file, first) :
                         /\ disk' = [disk EXCEPT ![stream.name] = o.file]
                         /\ errors' = IF o.good THEN errors ELSE errors \cup {"unheard"}
         /\ stream' = [name |-> None, held |-> <<>>, good |-> TRUE]
         /\ UNCHANGED <<cycle, fileBytes, dirty, full, faults, blocks, accepted, parts, flushed>>

-----------------------------------------------------------------------------
(* Outside the program *)

(* The process dies with what the stream held. *)
Die == /\ at \in {"writing", "failed"}
       /\ at' = "dead"
       /\ stream' = [name |-> None, held |-> <<>>, good |-> TRUE]
       /\ UNCHANGED <<disk, cycle, fileBytes, dirty, full, faults, blocks, accepted, parts,
                      flushed, errors>>

DiskFull == /\ ~full
            /\ faults < MaxFaults
            /\ full' = TRUE
            /\ faults' = faults + 1
            /\ UNCHANGED <<disk, stream, cycle, fileBytes, at, dirty, blocks, accepted, parts,
                           flushed, errors>>

DiskFreed == /\ full
             /\ full' = FALSE
             /\ UNCHANGED <<disk, stream, cycle, fileBytes, at, dirty, faults, blocks, accepted,
                            parts, flushed, errors>>

-----------------------------------------------------------------------------
Next == Open \/ Write \/ Flush \/ Close \/ Die \/ DiskFull \/ DiskFreed

Spec == Init /\ [][Next]_vars

-----------------------------------------------------------------------------
(* Properties *)

(* The run as it is on disk. *)
OnDisk == FlattenSeq([i \in 1 .. Len(parts) |-> disk[parts[i]]])

(* The run as its writer was given it. *)
Given == IF parts = <<>> THEN <<>> ELSE Header \o accepted

(* "Never overwrites an existing file" (README.md:38): whatever the run     *)
(* does, a file on disk only grows.  The one exception is the fallback of   *)
(* uniquePath() when every candidate name of the cycle is taken.            *)
NeverOverwrites ==
    [][\A f \in DOMAIN disk : \/ f \in DOMAIN disk' /\ IsPrefix(disk[f], disk'[f])
                              \/ f[2] = 0 /\ Taken(f[1])]_vars

(* As long as the run met no error, reported or unheard, the part files in  *)
(* the order they were opened, followed by what the stream holds, are the   *)
(* header and every accepted block, once and in order: nothing is lost,     *)
(* repeated or swapped at a rotation, and the header is in the first part   *)
(* only.  A run that died is a beginning of that.                           *)
PartsHoldTheRun ==
    errors = {} => IF at = "dead" THEN IsPrefix(OnDisk, Given)
                   ELSE OnDisk \o stream.held = Given

(* flush() "protects the data from the process dying" (RawFileWriter.hpp:53):*)
(* what was given to the writer before a flush() that worked is on disk from *)
(* then on - through rotations, the death of the process, a disk that fills  *)
(* up and failed calls - if nothing had been lost before that flush().       *)
FlushedSurvives == flushed <= Len(OnDisk) /\ IsPrefix(SubSeq(Given, 1, flushed), OnDisk)

(* No part is larger than the limit unless it is one block, or the header,   *)
(* that is larger by itself; and no block is split between two parts.        *)
PartsRespectLimit ==
    LET file(i) == IF i = Len(parts) THEN disk[parts[i]] \o stream.held ELSE disk[parts[i]]
    IN  (maxFileBytes # 0 /\ errors = {}) =>
            \A i \in 1 .. Len(parts) :
                /\ Len(file(i)) <= maxFileBytes \/ \A k \in 1 .. Len(file(i)) : file(i)[k] = file(i)[1]
                /\ (i < Len(parts) /\ at = "writing") => Last(file(i)) # Head(file(i + 1))
=============================================================================
