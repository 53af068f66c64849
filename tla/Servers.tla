-------------------------------- MODULE Servers --------------------------------
(***************************************************************************)
(* The untrusted page servers behind MemServerBackend: an array in memory, *)
(* a file, and a mapped file.  data is the server's bytes, a function on   *)
(* 0 .. sizeOfT * N - 1.  The two disk servers first merge the chunks of a *)
(* batch that follow one another on the disk.  The file server asserts for *)
(* every range it reads that it is not longer than a page; a read that     *)
(* fails an assertion is Aborted, as in a build without NDEBUG.            *)
(*                                                                         *)
(* The vectors without a server: StdVector, and VirtualVector, whose       *)
(* element i is wherever a function virtualize puts it.  Memory is a       *)
(* function on places; a reader or a writer is a record of its iterator    *)
(* and its end, whether a function virtualize is called for its elements,  *)
(* whether eof() compares for equality, and whether size() is what is left *)
(* or all.  The interface is that of the external vectors, the counter of  *)
(* which is ignored.                                                       *)
(***************************************************************************)
EXTENDS Integers, SequencesExt

CONSTANT ServerPage   \* the bytes of a page of the server: 4096

ASSUME ServersAssumption == ServerPage \in Nat \ {0}

\* MemServerBackend asks for whole pages that cover its size.
PagesFor(size) == (size - 1) \div ServerPage + 1

\* Whether the system calls open, fallocate and mmap succeed.
Outcomes == [open : BOOLEAN, alloc : BOOLEAN, map : BOOLEAN]

\* fallocate fails on the descriptor of a failed open.  The descriptor is kept in a
\* local variable that hides the global one.
InitMmapServer(s, sizeOfT, N, out) ==
  LET opened == IF out.open THEN s.openFds \cup {s.nextFd} ELSE s.openFds
  IN IF ~out.open \/ ~out.alloc THEN [s EXCEPT !.N = N]
     ELSE IF ~out.map THEN [s EXCEPT !.N = N, !.mapped = -1]
     ELSE [s EXCEPT !.N = N, !.openFds = opened, !.mapped = N * sizeOfT]

\* N is the number of pages, and fd the global that was never assigned.
DeleteMmapServer(s) ==
  [s EXCEPT !.mapped = IF @ < 0 THEN @ ELSE @ - s.N, !.openFds = @ \ {s.fd}]

--------------------------------------------------------------------------------
ServerKinds == {"memory", "file", "mapped"}

Aborted == <<-1>>   \* no byte is negative

ocall_Read(data, pos, length, kind) ==
  IF kind = "file" /\ length > ServerPage THEN Aborted ELSE [i \in 1 .. length |-> data[pos + i - 1]]

ocall_Write(data, pos, page) ==
  [b \in DOMAIN data |-> IF b \in pos .. pos + Len(page) - 1 THEN page[b - pos + 1] ELSE data[b]]

\* Mutant of compressChunks: the range that is open at the end is not added.
compressLosesLast(chunks) ==
  LET Merge(s, c) == IF c.offset # s.end
                     THEN [done |-> Append(s.done, [offset |-> s.offset, size |-> s.end - s.offset]),
                           offset |-> c.offset, end |-> c.offset + c.size]
                     ELSE [s EXCEPT !.end = c.offset + c.size]
      first == [done |-> <<>>, offset |-> chunks[1].offset, end |-> chunks[1].offset + chunks[1].size]
  IN IF chunks = <<>> THEN <<>> ELSE FoldLeft(Merge, first, Tail(chunks)).done

\* end is endOffset, offset and done are offsets[j] and what is before it.
compressChunks(chunks) ==
  LET Merge(s, c) == IF c.offset # s.end
                     THEN [done |-> Append(s.done, [offset |-> s.offset, size |-> s.end - s.offset]),
                           offset |-> c.offset, end |-> c.offset + c.size]
                     ELSE [s EXCEPT !.end = c.offset + c.size]
      first == [done |-> <<>>, offset |-> chunks[1].offset, end |-> chunks[1].offset + chunks[1].size]
      s == FoldLeft(Merge, first, Tail(chunks))
  IN IF chunks = <<>> THEN <<>> ELSE Append(s.done, [offset |-> s.offset, size |-> s.end - s.offset])

\* The bytes of the chunks one after the other, unless one of the reads aborts.
ReadChunks(data, chunks, kind) ==
  LET Bytes(c) == ocall_Read(data, c.offset, c.size, kind)
  IN IF \E i \in DOMAIN chunks : Bytes(chunks[i]) = Aborted THEN Aborted
     ELSE FoldLeft(LAMBDA tmp, c : tmp \o Bytes(c), <<>>, chunks)

\* tmp is consumed from pos.
WriteChunks(data, chunks, tmp) ==
  FoldLeft(LAMBDA s, c : [data |-> ocall_Write(s.data, c.offset,
                                               SubSeq(tmp, s.pos + 1, s.pos + c.size)),
                          pos |-> s.pos + c.size],
           [data |-> data, pos |-> 0], chunks).data

Ranges(chunks, kind) == IF kind = "memory" THEN chunks ELSE compressChunks(chunks)

ocall_Read_Batch(data, chunks, kind) == ReadChunks(data, Ranges(chunks, kind), kind)

ocall_Write_Batch(data, chunks, tmp, kind) == WriteChunks(data, Ranges(chunks, kind), tmp)

--------------------------------------------------------------------------------
(* Vectors in memory *)

\* StdVector's Reader, PrefetchReader and Writer
StdCursor(begin, end) ==
  [it |-> begin, end |-> end, virtual |-> FALSE, eofEqual |-> FALSE, sizeLeft |-> TRUE]

\* The Reader and the Writer of a VirtualVector
VectorCursor(begin, end) ==
  [it |-> begin, end |-> end, virtual |-> TRUE, eofEqual |-> TRUE, sizeLeft |-> TRUE]

\* VirtualReader and VirtualWriter, which count the calls of a function from 0
FunctionCursor(size) ==
  [it |-> 0, end |-> size, virtual |-> TRUE, eofEqual |-> FALSE, sizeLeft |-> FALSE]

eof(c) == IF c.eofEqual THEN c.it = c.end ELSE c.it >= c.end

sizeOf(c) == IF c.sizeLeft THEN c.end - c.it ELSE c.end

\* The place *it refers to.
placeOf(c, virtualize) == IF c.virtual THEN virtualize[c.it] ELSE c.it

\* CopyIn: reads until the end of the reader.
CopyFrom(memory, virtualize, cursor) ==
  LET Read[i \in cursor.it .. cursor.end] ==
        LET c == [cursor EXCEPT !.it = i]
        IN IF eof(c) THEN <<>> ELSE <<memory[placeOf(c, virtualize)]>> \o Read[i + 1]
  IN Read[cursor.it]

\* CopyOut: writes until the end of the writer, which has the length of the source.
CopyTo(memory, virtualize, cursor, from) ==
  LET Write[i \in 0 .. Len(from)] ==
        LET c == [cursor EXCEPT !.it = @ + i - 1]
        IN IF i = 0 THEN memory
           ELSE IF eof(c) THEN Write[i - 1]
           ELSE [Write[i - 1] EXCEPT ![placeOf(c, virtualize)] = from[i]]
  IN Write[Len(from)]
================================================================================
