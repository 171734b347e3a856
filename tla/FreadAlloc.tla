------------------------------ MODULE FreadAlloc ------------------------------
(***************************************************************************)
(* zcc_fread_alloc (io.c): read a file of unknown size into a buffer that  *)
(* grows by a block for every full block read.  The host decides the size  *)
(* of the file, whether it opens, where reading it fails, and whether      *)
(* memory runs out.                                                        *)
(***************************************************************************)
EXTENDS Integers

CONSTANTS
  BlockSize,  \* FRA_BLOCK_SIZE, 65536 in the code
  MaxFile     \* bound on the size of the file

ASSUME BlockSizeAssumption == BlockSize \in Nat \ {0}
ASSUME MaxFileAssumption == MaxFile \in Nat

VARIABLES
  fileSize,   \* size of the file
  pc,         \* "open", "read", "check", "grow", "done", "exit" (zcc_malloc and
              \* zcc_realloc end the program when memory runs out)
  fp,         \* "none", "open", "closed"
  pos,        \* bytes the stream has delivered
  buffer,     \* "none", "live", "freed", or "NULL" after a failed realloc
  capacity,   \* bytes the buffer has
  bufsize, bufread,
  got,        \* result of the last fread
  eof,        \* feof(fp)
  dest,       \* *dest: "NULL" or "buffer"
  errno,      \* zcc_errno
  ret         \* the returned value, -2 before the return

vars == <<fileSize, pc, fp, pos, buffer, capacity, bufsize, bufread, got, eof,
          dest, errno, ret>>

Init ==
  /\ fileSize \in 0..MaxFile
  /\ pc = "open"
  /\ fp = "none"
  /\ pos = 0
  /\ buffer = "none"
  /\ capacity = 0
  /\ bufsize = BlockSize
  /\ bufread = 0
  /\ got = 0
  /\ eof = FALSE
  /\ dest = "NULL"
  /\ errno = "OK"
  /\ ret = -2

OpenFails ==
  /\ pc = "open"
  /\ pc' = "done"
  /\ errno' = "IO"
  /\ ret' = -1
  /\ UNCHANGED <<fileSize, fp, pos, buffer, capacity, bufsize, bufread, got, eof, dest>>

\* zcc_malloc returns memory or ends the program.
Open ==
  /\ pc = "open"
  /\ fp' = "open"
  /\ \/ pc' = "read" /\ buffer' = "live" /\ capacity' = BlockSize
     \/ pc' = "exit" /\ UNCHANGED <<buffer, capacity>>
  /\ UNCHANGED <<fileSize, pos, bufsize, bufread, got, eof, dest, errno, ret>>

\* fread into the buffer: a full block, what is left of the file, or less
\* than that when reading fails.  A full block leaves the stream short of
\* end of file even when it was the last.
Fread ==
  /\ pc = "read"
  /\ buffer = "live"
  /\ pc' = "check"
  /\ LET left == fileSize - pos
     IN  \/ /\ left >= BlockSize
            /\ got' = BlockSize
            /\ eof' = FALSE
         \/ /\ left < BlockSize
            /\ got' = left
            /\ eof' = TRUE
         \/ /\ got' \in {n \in 0..(BlockSize - 1) : n <= left}
            /\ eof' = FALSE
  /\ pos' = pos + got'
  /\ UNCHANGED <<fileSize, fp, buffer, capacity, bufsize, bufread, dest, errno, ret>>

\* A full block: the buffer grows by one, and realloc may return NULL.
GrowNot(n) == n
Grow(n) == n + BlockSize

FullBlock ==
  /\ pc = "check"
  /\ got = BlockSize
  /\ bufsize' = Grow(bufsize)
  /\ bufread' = bufread + BlockSize
  /\ \/ buffer' = "live" /\ capacity' = bufsize'
     \/ buffer' = "NULL" /\ capacity' = 0
  /\ pc' = "read"
  /\ UNCHANGED <<fileSize, fp, pos, got, eof, dest, errno, ret>>

\* What *dest gets when the file has no bytes: it stays NULL, and the buffer
\* is freed.
KeepEmpty(n) == FALSE
IsEmpty(n) == n = 0

\* End of file: the buffer shrinks to the bytes read; zcc_realloc ends the
\* program when it cannot.
EndOfFile ==
  /\ pc = "check"
  /\ got < BlockSize
  /\ eof
  /\ bufread' = bufread + got
  /\ \/ /\ IsEmpty(bufread')
        /\ buffer' = "freed"
        /\ UNCHANGED <<capacity, dest>>
        /\ pc' = "done" /\ fp' = "closed" /\ ret' = bufread'
     \/ /\ ~IsEmpty(bufread')
        /\ buffer' = "live"
        /\ capacity' = bufread'
        /\ dest' = "buffer"
        /\ pc' = "done" /\ fp' = "closed" /\ ret' = bufread'
     \/ /\ ~IsEmpty(bufread')
        /\ pc' = "exit"
        /\ UNCHANGED <<buffer, capacity, dest, fp, ret>>
  /\ UNCHANGED <<fileSize, pos, bufsize, got, eof, errno>>

\* What becomes of the buffer when reading fails.
BufferKept == "live"
BufferOnFailure == "freed"

FailedRead ==
  /\ pc = "check"
  /\ got < BlockSize
  /\ ~eof
  /\ errno' = "IO"
  /\ buffer' = BufferOnFailure
  /\ fp' = "closed"
  /\ ret' = -1
  /\ pc' = "done"
  /\ UNCHANGED <<fileSize, pos, capacity, bufsize, bufread, got, eof, dest>>

Next == OpenFails \/ Open \/ Fread \/ FullBlock \/ EndOfFile \/ FailedRead

Spec == Init /\ [][Next]_vars

-------------------------------------------------------------------------------
(* Properties.                                                             *)

TypeOK ==
  /\ fileSize \in 0..MaxFile
  /\ pc \in {"open", "read", "check", "done", "exit"}
  /\ fp \in {"none", "open", "closed"}
  /\ buffer \in {"none", "live", "freed", "NULL"}
  /\ pos \in 0..fileSize
  /\ capacity \in Nat /\ bufsize \in Nat /\ bufread \in Nat
  /\ got \in 0..BlockSize
  /\ eof \in BOOLEAN
  /\ dest \in {"NULL", "buffer"}
  /\ errno \in {"OK", "IO"}
  /\ ret \in Int

\* There is room for a whole block wherever fread is told to put one: the
\* two counters never drift apart, and the buffer is as large as bufsize
\* says.
RoomForBlock ==
  pc = "read" /\ buffer = "live"
    => bufread + BlockSize <= capacity /\ capacity = bufsize

\* The value returned is the size of the file, of which the buffer holds
\* every byte; or it is -1, with an error code and no buffer.
ResultExact ==
  pc = "done" =>
    \/ /\ ret = fileSize
       /\ bufread = pos
       /\ errno = "OK"
       /\ dest = IF fileSize = 0 THEN "NULL" ELSE "buffer"
       /\ fileSize > 0 => capacity = fileSize
    \/ /\ ret = -1
       /\ errno = "IO"
       /\ dest = "NULL"

\* Nothing is held after the return that the caller does not have: the
\* stream is closed, and the buffer is freed unless dest points to it.
NothingLeaks ==
  pc = "done" => /\ fp # "open"
                 /\ buffer = "live" <=> dest = "buffer"

===============================================================================
