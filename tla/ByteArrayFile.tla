---------------------------- MODULE ByteArrayFile ----------------------------
(***************************************************************************)
(* The growable byte array with a file pointer behind flash.utils.ByteArray *)
(* (shell/ByteArrayGlue.cpp, shell/DataIO.cpp).  A file is a record of its  *)
(* bytes and its pointer.  Reading and writing both start at the pointer    *)
(* and move it; Push, which the socket uses for what it receives, appends   *)
(* and leaves the pointer alone.  Capacity, and the memory it takes, is     *)
(* left out.                                                                *)
(***************************************************************************)
EXTENDS Naturals, Sequences

NewFile == [arr |-> <<>>, fp |-> 0]

Files(Byte) == [arr : Seq(Byte), fp : Nat]

\* The bytes from position `from' on.
From(s, from) == SubSeq(s, from + 1, Len(s))

\* What reads can still return.
Unread(f) == From(f.arr, f.fp)
Available(f) == IF f.fp <= Len(f.arr) THEN Len(f.arr) - f.fp ELSE 0

Seek(f, pos) == [f EXCEPT !.fp = pos]

Push(f, data) == [f EXCEPT !.arr = @ \o data]

\* Write replaces what lies at the pointer, and extends the array if the
\* data reach beyond its end.
Write(f, data) ==
    [arr |-> SubSeq(f.arr, 1, f.fp) \o data \o From(f.arr, f.fp + Len(data)),
     fp  |-> f.fp + Len(data)]

\* Reading more than is available throws an EOFError and reads nothing.
CanRead(f, count) == count <= Available(f)
AfterRead(f, count) == Seek(f, f.fp + count)
==============================================================================
