----------------------------- MODULE FileReader -----------------------------
(***************************************************************************)
(* util::FileReader_c and util::MappedReader_c (util/reader.h and          *)
(* reader.cpp), which every part of the library reads its files with.  A   *)
(* file reader keeps one window of the file in a buffer of BufSize bytes;  *)
(* a read may lie inside it, cross its end, or be longer than it.  A       *)
(* mapped reader has the whole file as its window.                         *)
(***************************************************************************)
EXTENDS Integers, Sequences, FiniteSetsExt

CONSTANTS
    Byte,               \* the bytes
    Files,              \* the files, sequences of bytes
    BufSize,            \* m_tSize of a file reader
    MaxLen,             \* the longest read
    Lost                \* what a failed read leaves in its destination

ASSUME ReaderAssumption ==
    /\ \A f \in Files : f \in Seq(Byte)
    /\ BufSize \in Nat \ {0}
    /\ MaxLen \in Nat \ {0}

VARIABLES
    file,               \* the bytes of the file
    mapped,             \* it is a MappedReader_c
    filePos, buf, ptr,  \* m_iFilePos, m_pBuf up to m_tUsed, m_tPtr
    err,                \* m_bError
    pc,                 \* where a Read of a file reader stands
    as,                 \* it reads "bytes", or a "value" that is 0 after an error
    dst, need,          \* what it has copied, and how much is left to copy
    got,                \* what the last call gave
    disturbed           \* pread failed or gave less than the file has, in this call

window == <<filePos, buf, ptr>>
call == <<pc, as, dst, need>>
vars == <<file, mapped, window, err, call, got, disturbed>>

used == Len(buf)

GetPos == filePos + ptr

Init ==
    /\ file \in Files
    /\ mapped \in BOOLEAN
    /\ buf = IF mapped THEN file ELSE << >>
    /\ filePos = 0 /\ ptr = 0
    /\ err = FALSE
    /\ pc = "idle" /\ as = "bytes" /\ dst = << >> /\ need = 0
    /\ got = << >>
    /\ disturbed = FALSE

-----------------------------------------------------------------------------
\* A call ends.
Return(bytes) ==
    /\ pc' = "idle"
    /\ got' = IF as' = "value" /\ err' THEN Lost ELSE bytes
    /\ dst' = << >> /\ need' = 0

\* The bytes the window has from the current position on.
Ahead(n) == SubSeq(buf, ptr + 1, Min({used, ptr + n}))

\* ReadFromBuffer ( n ), which the accessors try before they read, and what
\* Read_uint8 and the Read of a mapped reader do when the window has enough.
ReadFromBuffer ==
    /\ pc = "idle"
    /\ \E n \in 0..MaxLen :
          /\ ptr + n <= used
          /\ ptr' = ptr + n
          /\ got' = Ahead(n)
    /\ disturbed' = FALSE
    /\ UNCHANGED <<file, mapped, filePos, buf, err, call>>

\* What pread may return at a place of the file: an error, nothing, or some of
\* the bytes that are there.
Pread(at) ==
    LET there == SubSeq(file, at + 1, Min({Len(file), at + BufSize}))
    IN  {[bytes |-> SubSeq(there, 1, n), fault |-> n < Len(there)] : n \in 0..Len(there)}
        \cup {[bytes |-> << >>, fault |-> TRUE]}

\* Mutant: CopyTail leaves the position where it was.
DoRefillAtPtr(n) ==
    \E read \in Pread(filePos + ptr) :
        /\ filePos' = filePos + ptr
        /\ buf' = read.bytes
        /\ ptr' = IF read.bytes = << >> THEN 0 ELSE n
        /\ err' = (err \/ read.bytes = << >>)
        /\ disturbed' = (read.fault \/ (pc # "idle" /\ disturbed))

\* DoRefill of a file reader, when all of the window was read or copied: the
\* next one starts where it ended, and n of its bytes are read at once.
DoRefill(n) ==
    \E read \in Pread(filePos + used) :
        /\ filePos' = filePos + used
        /\ buf' = read.bytes
        /\ ptr' = IF read.bytes = << >> THEN 0 ELSE n
        /\ err' = (err \/ read.bytes = << >>)
        /\ disturbed' = (read.fault \/ (pc # "idle" /\ disturbed))

\* Read_uint8 at the end of the window.
Read_uint8 ==
    /\ pc = "idle"
    /\ ptr >= used
    /\ IF mapped
       THEN /\ err' = TRUE
            /\ got' = Lost
            /\ disturbed' = FALSE
            /\ UNCHANGED window
       ELSE /\ DoRefill(1)
            /\ got' = IF buf' = << >> THEN Lost ELSE SubSeq(buf', 1, 1)
    /\ UNCHANGED <<file, mapped, call>>

\* Read of a mapped reader, alone or from ReadValue.
ReadMapped ==
    /\ mapped
    /\ \E n \in 0..MaxLen, kind \in {"bytes", "value"} :
          /\ as' = kind
          /\ err' = (err \/ ptr + n > used)
          /\ ptr' = IF ptr + n > used THEN ptr ELSE ptr + n
          /\ Return(IF ptr + n > used THEN Lost ELSE Ahead(n))
    /\ disturbed' = FALSE
    /\ UNCHANGED <<file, mapped, filePos, buf>>

\* Read of a file reader begins.
Read ==
    /\ pc = "idle"
    /\ ~ mapped
    /\ \E n \in 0..MaxLen, kind \in {"bytes", "value"} :
          /\ as' = kind
          /\ need' = n
    /\ pc' = "long"
    /\ disturbed' = FALSE
    /\ UNCHANGED <<file, mapped, window, err, dst, got>>

\* CopyTail, then DoRefill, and on to next if that succeeds.
CopyAndRefill(next) ==
    LET tail == SubSeq(buf, ptr + 1, used)
    IN  /\ DoRefill(0)
        /\ UNCHANGED as
        /\ IF buf' = << >>
           THEN Return(Lost)
           ELSE /\ dst' = dst \o tail
                /\ need' = need - Len(tail)
                /\ pc' = next
                /\ UNCHANGED got

\* One turn of the loop of Read, while more is wanted than the buffer holds.
ReadLong ==
    /\ pc = "long"
    /\ need > BufSize
    /\ CopyAndRefill("long")
    /\ UNCHANGED <<file, mapped>>

\* The rest crosses the end of the window.
ReadAcross ==
    /\ pc = "long"
    /\ need <= BufSize
    /\ ptr + need > used
    /\ CopyAndRefill("last")
    /\ UNCHANGED <<file, mapped>>

\* The rest is in the window.
ReadEnds ==
    /\ \/ pc = "long" /\ need <= BufSize
       \/ pc = "last"
    /\ ptr + need <= used
    /\ ptr' = ptr + need
    /\ UNCHANGED <<file, mapped, filePos, buf, err, as, disturbed>>
    /\ Return(dst \o Ahead(need))

\* The rest is not there, after a refill: "unexpected EOF", though the refill
\* may only have been short.
ReadFails ==
    /\ pc = "last"
    /\ ptr + need > used
    /\ ptr' = used
    /\ err' = TRUE
    /\ UNCHANGED <<file, mapped, filePos, buf, as, disturbed>>
    /\ Return(Lost)

\* Mutant: the window is forgotten only as far as its position goes.
SeekKeepsBuffer ==
    /\ pc = "idle"
    /\ \E p \in 0..(Len(file) + 1) :
          IF mapped
          THEN /\ p <= used
               /\ ptr' = p
               /\ UNCHANGED <<filePos, buf>>
          ELSE IF p >= filePos /\ p < filePos + used
               THEN /\ ptr' = p - filePos
                    /\ UNCHANGED <<filePos, buf>>
               ELSE /\ filePos' = p
                    /\ ptr' = 0
                    /\ UNCHANGED buf
    /\ UNCHANGED <<file, mapped, err, call, got, disturbed>>

\* Seek; a mapped reader is never sent past its end (an assertion).
Seek ==
    /\ pc = "idle"
    /\ \E p \in 0..(Len(file) + 1) :
          IF mapped
          THEN /\ p <= used
               /\ ptr' = p
               /\ UNCHANGED <<filePos, buf>>
          ELSE IF p >= filePos /\ p < filePos + used
               THEN /\ ptr' = p - filePos
                    /\ UNCHANGED <<filePos, buf>>
               ELSE /\ filePos' = p
                    /\ ptr' = 0
                    /\ buf' = << >>
    /\ UNCHANGED <<file, mapped, err, call, got, disturbed>>

Next ==
    \/ ReadFromBuffer \/ Read_uint8 \/ Seek
    \/ ReadMapped
    \/ Read \/ ReadLong \/ ReadAcross \/ ReadEnds \/ ReadFails

Spec == Init /\ [][Next]_vars

-----------------------------------------------------------------------------
TypeOK ==
    /\ file \in Files
    /\ mapped \in BOOLEAN
    /\ filePos \in Nat /\ ptr \in Nat
    /\ buf \in Seq(Byte)
    /\ err \in BOOLEAN /\ disturbed \in BOOLEAN
    /\ pc \in {"idle", "long", "last"}
    /\ as \in {"bytes", "value"}
    /\ dst \in Seq(Byte) /\ need \in 0..MaxLen

\* The buffer holds the bytes of the file from m_iFilePos on, and the position
\* is inside it or at its end, whatever was read, sought or failed before.
BufferIsWindow ==
    /\ used > 0 => filePos + used <= Len(file) /\ buf = SubSeq(file, filePos + 1, filePos + used)
    /\ ptr <= used

\* To its callers either reader is a position and an error flag: bytes come in
\* order and are the right ones, or the read fails and the flag says so.
Reader == INSTANCE ByteReader WITH
    pos <- GetPos - Len(dst), failed <- err
ImplementsReader == Reader!Spec
=============================================================================
