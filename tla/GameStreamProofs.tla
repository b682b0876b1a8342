--------------------------- MODULE GameStreamProofs --------------------------
(***************************************************************************)
(* For every size of buffers, reads, writes and packets, every cut of the   *)
(* stream, and every interleaving of heartbeats, handlers and the two ends. *)
(*                                                                          *)
(* The socket: its descriptor follows its state, and no byte of either      *)
(* direction is lost, repeated or reordered, unless the program writes      *)
(* behind a partial send.  The two properties about bytes are proved in the *)
(* form InputAt, OutputAt: they say where each byte is, and equality of     *)
(* sequences is kept out of the steps.                                      *)
(*                                                                          *)
(* The packets: until the server writes behind a partial send, or the first *)
(* packet is read before it is there, the packets read are the packets      *)
(* sent.  The server's half of the argument is OutInv of the socket: what a *)
(* heartbeat puts on the wire continues what went before it.                *)
(***************************************************************************)
EXTENDS GameStream, SequenceTheorems, TLAPS

LEMMA FromFacts ==
    ASSUME NEW B, NEW s \in Seq(B), NEW m \in Nat
    PROVE  /\ From(s, m) \in Seq(B)
           /\ m <= Len(s) => Len(From(s, m)) = Len(s) - m
           /\ m > Len(s) => Len(From(s, m)) = 0
           /\ \A k \in 1 .. Len(s) - m : From(s, m)[k] = s[m + k]
<1>1. Len(s) \in Nat /\ \A i \in m + 1 .. Len(s) : s[i] \in B
  BY ElementOfSeq, LenProperties
<1>2. /\ SubSeq(s, m + 1, Len(s)) \in Seq(B)
      /\ Len(SubSeq(s, m + 1, Len(s))) = IF m + 1 <= Len(s) THEN Len(s) - (m + 1) + 1 ELSE 0
      /\ \A i \in 1 .. Len(s) - (m + 1) + 1 :
            SubSeq(s, m + 1, Len(s))[i] = s[(m + 1) + i - 1]
  BY <1>1, SubSeqProperties
<1> QED BY <1>1, <1>2 DEF From

\* What lies behind the pointer, and what follows it, after a write.
LEMMA WriteFacts ==
    ASSUME NEW B, NEW f \in Files(B), f.fp <= Len(f.arr), NEW d \in Seq(B)
    PROVE  /\ Write(f, d) \in Files(B)
           /\ Write(f, d).fp = f.fp + Len(d)
           /\ Write(f, d).fp <= Len(Write(f, d).arr)
           /\ f.fp = Len(f.arr) =>
                /\ Len(Write(f, d).arr) = Len(f.arr) + Len(d)
                /\ \A k \in 1 .. Len(f.arr) : Write(f, d).arr[k] = f.arr[k]
                /\ \A k \in 1 .. Len(d) : Write(f, d).arr[Len(f.arr) + k] = d[k]
<1> DEFINE front == SubSeq(f.arr, 1, f.fp)
           rest == From(f.arr, f.fp + Len(d))
<1>1. f.arr \in Seq(B) /\ f.fp \in Nat /\ Len(d) \in Nat /\ Len(f.arr) \in Nat
  BY LenProperties DEF Files
<1>2. /\ front \in Seq(B) /\ Len(front) = f.fp
      /\ \A k \in 1 .. f.fp : front[k] = f.arr[k]
  <2>1. \A i \in 1 .. f.fp : f.arr[i] \in B
    BY <1>1, ElementOfSeq
  <2>2. /\ front \in Seq(B)
        /\ Len(front) = IF 1 <= f.fp THEN f.fp - 1 + 1 ELSE 0
        /\ \A i \in 1 .. f.fp - 1 + 1 : front[i] = f.arr[1 + i - 1]
    BY <1>1, <2>1, SubSeqProperties
  <2> QED BY <1>1, <2>2
<1>3. /\ rest \in Seq(B) /\ Len(rest) \in Nat
      /\ f.fp = Len(f.arr) => Len(rest) = 0
  <2>1. f.fp + Len(d) \in Nat
    BY <1>1
  <2>2. rest \in Seq(B) /\ Len(rest) \in Nat
    BY <1>1, <2>1, FromFacts, LenProperties
  <2>3. /\ f.fp + Len(d) <= Len(f.arr) => Len(rest) = Len(f.arr) - (f.fp + Len(d))
        /\ f.fp + Len(d) > Len(f.arr) => Len(rest) = 0
    BY <1>1, <2>1, FromFacts
  <2> QED BY <1>1, <2>2, <2>3
<1> DEFINE head == front \o d
<1> HIDE DEF front, rest
<1>4. /\ head \in Seq(B) /\ Len(head) = f.fp + Len(d)
      /\ \A k \in 1 .. f.fp + Len(d) :
            head[k] = IF k <= f.fp THEN front[k] ELSE d[k - f.fp]
  <2>1. /\ head \in Seq(B) /\ Len(head) = Len(front) + Len(d)
        /\ \A k \in 1 .. Len(front) + Len(d) :
              head[k] = IF k <= Len(front) THEN front[k] ELSE d[k - Len(front)]
    BY <1>2, ConcatProperties
  <2> QED BY <1>2, <2>1
<1> HIDE DEF head
<1>5. /\ head \o rest \in Seq(B) /\ Len(head \o rest) = Len(head) + Len(rest)
      /\ \A k \in 1 .. Len(head) + Len(rest) :
            (head \o rest)[k] = IF k <= Len(head) THEN head[k]
                                                  ELSE rest[k - Len(head)]
  <2>1. head \in Seq(B) /\ rest \in Seq(B)
    BY <1>3, <1>4
  <2> QED BY <2>1, ConcatProperties
<1>6. Write(f, d) = [arr |-> head \o rest, fp |-> f.fp + Len(d)]
  BY DEF Write, head, front, rest
<1> DEFINE whole == head \o rest
<1> HIDE DEF whole
<1>7. Write(f, d).arr = whole /\ Write(f, d).fp = f.fp + Len(d)
  BY <1>6 DEF whole
<1>8. Write(f, d) \in Files(B) /\ Len(whole) = f.fp + Len(d) + Len(rest)
  BY <1>1, <1>4, <1>5, <1>6 DEF whole, Files
<1>9. \A k \in 1 .. f.fp + Len(d) :
         whole[k] = IF k <= f.fp THEN f.arr[k] ELSE d[k - f.fp]
  BY <1>1, <1>2, <1>3, <1>4, <1>5 DEF whole
<1>10. f.fp + Len(d) <= Len(whole)
  BY <1>1, <1>3, <1>8
<1>11. ASSUME f.fp = Len(f.arr)
       PROVE  /\ Len(whole) = Len(f.arr) + Len(d)
              /\ \A k \in 1 .. Len(f.arr) : whole[k] = f.arr[k]
              /\ \A k \in 1 .. Len(d) : whole[Len(f.arr) + k] = d[k]
  <2>1. Len(whole) = Len(f.arr) + Len(d)
    BY <1>1, <1>3, <1>8, <1>11
  <2>2. ASSUME NEW k \in 1 .. Len(f.arr) PROVE whole[k] = f.arr[k]
    BY <1>1, <1>9, <1>11
  <2>3. ASSUME NEW k \in 1 .. Len(d) PROVE whole[Len(f.arr) + k] = d[k]
    BY <1>1, <1>9, <1>11
  <2> QED BY <2>1, <2>2, <2>3
<1> QED BY <1>7, <1>8, <1>10, <1>11

LEMMA FollowingFacts ==
    ASSUME NEW m \in Nat, NEW n \in Nat
    PROVE  /\ Following(m, n) \in Seq(Bytes) /\ Len(Following(m, n)) = n
           /\ \A k \in 1 .. n : Following(m, n)[k] = m + k
<1>1. Following(m, n) \in [1 .. n -> Bytes]
  BY DEF Following, Bytes
<1>2. Following(m, n) \in Seq(Bytes)
  BY <1>1, SeqDef
<1> QED BY <1>2, LenProperties DEF Following

\* A switched buffer holds what was not read, and is read from its start.
LEMMA MassagedFacts ==
    ASSUME NEW f \in Files(Bytes), f.fp <= Len(f.arr)
    PROVE  /\ Massaged(f) \in Files(Bytes)
           /\ Massaged(f).fp <= Len(Massaged(f).arr)
           /\ Len(Massaged(f).arr) - Massaged(f).fp = Len(f.arr) - f.fp
           /\ \A k \in 1 .. Len(f.arr) - f.fp :
                 Massaged(f).arr[Massaged(f).fp + k] = f.arr[f.fp + k]
<1>1. f.arr \in Seq(Bytes) /\ f.fp \in Nat /\ Len(f.arr) \in Nat
  BY LenProperties DEF Files
<1>2. CASE f.fp < SwitchAt \/ 4 * f.fp < Len(f.arr)
  BY <1>1, <1>2 DEF Massaged
<1>3. CASE ~(f.fp < SwitchAt \/ 4 * f.fp < Len(f.arr))
  <2> DEFINE kept == From(f.arr, f.fp)
  <2>1. /\ kept \in Seq(Bytes) /\ Len(kept) = Len(f.arr) - f.fp
        /\ \A k \in 1 .. Len(f.arr) - f.fp : kept[k] = f.arr[f.fp + k]
    BY <1>1, FromFacts
  <2>2. Massaged(f) = [arr |-> kept, fp |-> 0]
    BY <1>3 DEF Massaged, Unread
  <2> HIDE DEF kept
  <2>3. [arr |-> kept, fp |-> 0] \in Files(Bytes)
    BY <2>1 DEF Files
  <2> QED BY <1>1, <2>1, <2>2, <2>3
<1> QED BY <1>2, <1>3

LEMMA PushFacts ==
    ASSUME NEW f \in Files(Bytes), NEW d \in Seq(Bytes)
    PROVE  /\ Push(f, d) \in Files(Bytes) /\ Push(f, d).fp = f.fp
           /\ Len(Push(f, d).arr) = Len(f.arr) + Len(d)
           /\ \A k \in 1 .. Len(f.arr) + Len(d) :
                 Push(f, d).arr[k] = IF k <= Len(f.arr) THEN f.arr[k]
                                                         ELSE d[k - Len(f.arr)]
<1>1. f.arr \in Seq(Bytes) /\ f.fp \in Nat
  BY DEF Files
<1>2. /\ f.arr \o d \in Seq(Bytes) /\ Len(f.arr \o d) = Len(f.arr) + Len(d)
      /\ \A k \in 1 .. Len(f.arr) + Len(d) :
            (f.arr \o d)[k] = IF k <= Len(f.arr) THEN f.arr[k] ELSE d[k - Len(f.arr)]
  BY <1>1, ConcatProperties
<1> DEFINE whole == f.arr \o d
<1>3. /\ Push(f, d) = [f EXCEPT !.arr = whole]
      /\ f = [arr |-> f.arr, fp |-> f.fp]
  BY DEF Push, Files
<1> HIDE DEF whole
<1>4. Push(f, d) = [arr |-> whole, fp |-> f.fp]
  BY <1>3
<1> QED BY <1>1, <1>2, <1>4 DEF Files, whole

-----------------------------------------------------------------------------
(* The output.  Between two heartbeats the pointer is at the end of the     *)
(* buffer unless the last one left output unsent, and that is what makes    *)
(* the program's writes append.                                             *)
OutTypeOK ==
    /\ oBuf \in Files(Bytes) /\ oPos \in Nat
    /\ oPos <= oBuf.fp /\ oBuf.fp <= Len(oBuf.arr)
    /\ sent \in Seq(Bytes) /\ written \in Nat
    /\ backlog \in BOOLEAN /\ clobbered \in BOOLEAN

OutputAt ==
    /\ Len(sent) + (Len(oBuf.arr) - oPos) = written
    /\ \A k \in 1 .. Len(sent) : sent[k] = k
    /\ \A k \in 1 .. Len(oBuf.arr) - oPos : oBuf.arr[oPos + k] = Len(sent) + k

OutInv == /\ OutTypeOK
          /\ ~backlog => oBuf.fp = Len(oBuf.arr)
          /\ ~clobbered => OutputAt

LEMMA OutNumbers ==
    ASSUME OutTypeOK
    PROVE  /\ oBuf.arr \in Seq(Bytes) /\ oBuf.fp \in Nat /\ Len(oBuf.arr) \in Nat
           /\ oBuf = [arr |-> oBuf.arr, fp |-> oBuf.fp]
           /\ Len(sent) \in Nat /\ oPos \in Nat
<1> QED BY LenProperties DEF OutTypeOK, Files

LEMMA OutFrame ==
    ASSUME OutInv, UNCHANGED outVars
    PROVE  OutInv'
<1>1. /\ oBuf' = oBuf /\ oPos' = oPos /\ written' = written /\ sent' = sent
      /\ backlog' = backlog /\ clobbered' = clobbered
  BY DEF outVars
<1> QED BY <1>1 DEF OutInv, OutTypeOK, OutputAt

LEMMA OutInit == Init => OutInv
<1> SUFFICES ASSUME Init PROVE OutInv
  OBVIOUS
<1>1. /\ oBuf = [arr |-> <<>>, fp |-> 0] /\ oPos = 0 /\ written = 0 /\ sent = <<>>
      /\ backlog = FALSE /\ clobbered = FALSE
  BY DEF Init, NewFile
<1>2. <<>> \in Seq(Bytes) /\ Len(<<>>) = 0
  BY EmptySeq
<1>3. [arr |-> <<>>, fp |-> 0] \in Files(Bytes)
  BY <1>2 DEF Files
<1>4. oBuf.arr = <<>> /\ oBuf.fp = 0
  BY <1>1
<1>5. Len(oBuf.arr) = 0 /\ Len(sent) = 0
  BY <1>1, <1>2, <1>4
<1>6. OutTypeOK
  <2>1. oBuf \in Files(Bytes) /\ sent \in Seq(Bytes)
    BY <1>1, <1>2, <1>3
  <2>2. oPos \in Nat /\ written \in Nat /\ oPos <= oBuf.fp /\ oBuf.fp <= Len(oBuf.arr)
    BY <1>1, <1>4, <1>5
  <2>3. backlog \in BOOLEAN /\ clobbered \in BOOLEAN
    BY <1>1
  <2> QED BY <2>1, <2>2, <2>3 DEF OutTypeOK
<1>7. OutputAt
  BY <1>1, <1>5 DEF OutputAt
<1> QED BY <1>4, <1>5, <1>6, <1>7 DEF OutInv

LEMMA WriteBytesStep ==
    ASSUME OutInv, WriteBytes
    PROVE  OutInv'
<1>1. PICK n \in Chunks :
         /\ oBuf' = Write(oBuf, Following(written, n)) /\ written' = written + n
         /\ clobbered' = (clobbered \/ backlog)
         /\ oPos' = oPos /\ sent' = sent /\ backlog' = backlog
  BY DEF WriteBytes
<1> DEFINE d == Following(written, n)
<1>2. n \in Nat /\ OutTypeOK
  BY SocketAssumption DEF OutInv
<1>3. /\ d \in Seq(Bytes) /\ Len(d) = n
      /\ \A k \in 1 .. n : d[k] = written + k
  BY <1>2, FollowingFacts DEF OutTypeOK
<1> HIDE DEF d
<1>4. /\ Write(oBuf, d) \in Files(Bytes)
      /\ Write(oBuf, d).fp = oBuf.fp + n
      /\ Write(oBuf, d).fp <= Len(Write(oBuf, d).arr)
      /\ oBuf.fp = Len(oBuf.arr) =>
            /\ Len(Write(oBuf, d).arr) = Len(oBuf.arr) + n
            /\ \A k \in 1 .. Len(oBuf.arr) : Write(oBuf, d).arr[k] = oBuf.arr[k]
            /\ \A k \in 1 .. n : Write(oBuf, d).arr[Len(oBuf.arr) + k] = d[k]
  <2>1. oBuf \in Files(Bytes) /\ oBuf.fp <= Len(oBuf.arr) /\ d \in Seq(Bytes) /\ Len(d) = n
    BY <1>2, <1>3 DEF OutTypeOK
  <2>2. PICK f \in Files(Bytes) : f = oBuf /\ f.fp <= Len(f.arr)
    BY <2>1
  <2>3. PICK e \in Seq(Bytes) : e = d
    BY <2>1
  <2>4. /\ Write(f, e) \in Files(Bytes)
        /\ Write(f, e).fp = f.fp + Len(e)
        /\ Write(f, e).fp <= Len(Write(f, e).arr)
    BY <2>2, WriteFacts
  <2>5. f.fp = Len(f.arr) =>
             /\ Len(Write(f, e).arr) = Len(f.arr) + Len(e)
             /\ \A k \in 1 .. Len(f.arr) : Write(f, e).arr[k] = f.arr[k]
             /\ \A k \in 1 .. Len(e) : Write(f, e).arr[Len(f.arr) + k] = e[k]
    <3>1. /\ f \in Files(Bytes) /\ e \in Seq(Bytes) /\ f.fp <= Len(f.arr)
      BY <2>2
    <3> QED BY ONLY <3>1, WriteFacts, ZenonT(60)
  <2> QED BY <2>1, <2>2, <2>3, <2>4, <2>5
<1>5. oBuf' = Write(oBuf, d)
  BY <1>1 DEF d
<1>6. OutTypeOK'
  BY <1>1, <1>2, <1>4, <1>5, OutNumbers DEF OutTypeOK
<1>7. ASSUME ~backlog
      PROVE  oBuf'.fp = Len(oBuf'.arr)
  BY <1>2, <1>4, <1>5, <1>7, OutNumbers DEF OutInv
<1>8. ASSUME ~clobbered, ~backlog
      PROVE  OutputAt'
  <2>1. oBuf.fp = Len(oBuf.arr) /\ OutputAt
    BY <1>8 DEF OutInv
  <2>2. /\ Len(oBuf'.arr) = Len(oBuf.arr) + n
        /\ \A k \in 1 .. Len(oBuf.arr) : oBuf'.arr[k] = oBuf.arr[k]
        /\ \A k \in 1 .. n : oBuf'.arr[Len(oBuf.arr) + k] = written + k
    BY <1>3, <1>4, <1>5, <2>1
  <2>3. Len(sent) + (Len(oBuf.arr) - oPos) = written
    BY <2>1 DEF OutputAt
  <2>4. ASSUME NEW k \in 1 .. Len(oBuf'.arr) - oPos
        PROVE  oBuf'.arr[oPos + k] = Len(sent) + k
    <3>1. CASE oPos + k <= Len(oBuf.arr)
      <4>1. k \in 1 .. Len(oBuf.arr) - oPos /\ oPos + k \in 1 .. Len(oBuf.arr)
        BY <1>2, <2>4, <3>1, OutNumbers
      <4> QED BY <2>1, <2>2, <4>1 DEF OutputAt
    <3>2. CASE oPos + k > Len(oBuf.arr)
      <4>1. oPos + k - Len(oBuf.arr) \in 1 .. n
        BY <1>2, <2>2, <2>4, <3>2, OutNumbers
      <4>2. oBuf'.arr[Len(oBuf.arr) + (oPos + k - Len(oBuf.arr))]
              = written + (oPos + k - Len(oBuf.arr))
        BY <2>2, <4>1
      <4>3. /\ Len(oBuf.arr) + (oPos + k - Len(oBuf.arr)) = oPos + k
            /\ written + (oPos + k - Len(oBuf.arr)) = Len(sent) + k
        BY <1>2, <2>3, <2>4, OutNumbers
      <4> QED BY <4>2, <4>3
    <3> QED BY <1>2, <2>4, <3>1, <3>2, OutNumbers
  <2>5. Len(sent) + (Len(oBuf'.arr) - oPos) = written'
    BY <1>1, <1>2, <2>2, <2>3, OutNumbers
  <2> QED BY <1>1, <2>1, <2>4, <2>5 DEF OutputAt
<1>9. (~backlog => oBuf.fp = Len(oBuf.arr))' /\ (~clobbered => OutputAt)'
  BY <1>1, <1>7, <1>8
<1> QED BY <1>6, <1>9 DEF OutInv

LEMMA TransferStep ==
    ASSUME OutInv, Transfer
    PROVE  OutInv'
<1>1. PICK k \in 0 .. Len(Unsent) :
         /\ sent' = sent \o SubSeq(Unsent, 1, k)
         /\ oBuf' = Massaged(Seek(oBuf, oPos + k))
         /\ backlog' = (k < Len(Unsent))
  BY DEF Transfer
<1>2. oPos' = oBuf'.fp /\ written' = written /\ clobbered' = clobbered
  BY DEF Transfer
<1>3. OutTypeOK
  BY DEF OutInv
<1>4. /\ Unsent \in Seq(Bytes) /\ Len(Unsent) = Len(oBuf.arr) - oPos
      /\ \A j \in 1 .. Len(oBuf.arr) - oPos : Unsent[j] = oBuf.arr[oPos + j]
  <2>1. oPos <= Len(oBuf.arr)
    BY <1>3, OutNumbers DEF OutTypeOK
  <2> QED BY <1>3, <2>1, OutNumbers, FromFacts DEF Unsent
<1>5. k \in Nat /\ oPos + k <= Len(oBuf.arr) /\ Len(Unsent) \in Nat
  BY <1>1, <1>3, <1>4, OutNumbers
<1> DEFINE g == Seek(oBuf, oPos + k)
           taken == SubSeq(Unsent, 1, k)
<1>6. g = [arr |-> oBuf.arr, fp |-> oPos + k]
  BY <1>3, OutNumbers DEF Seek
<1>7. g \in Files(Bytes) /\ g.fp = oPos + k /\ g.arr = oBuf.arr
  BY <1>3, <1>5, <1>6, OutNumbers DEF Files
<1>8. /\ taken \in Seq(Bytes) /\ Len(taken) = k
      /\ \A j \in 1 .. k : taken[j] = Unsent[j]
  <2>1. \A i \in 1 .. k : Unsent[i] \in Bytes
    BY <1>1, <1>4, <1>5, ElementOfSeq
  <2>2. /\ taken \in Seq(Bytes)
        /\ Len(taken) = IF 1 <= k THEN k - 1 + 1 ELSE 0
        /\ \A i \in 1 .. k - 1 + 1 : taken[i] = Unsent[1 + i - 1]
    BY <1>5, <2>1, SubSeqProperties
  <2> QED BY <1>5, <2>2
<1> HIDE DEF g, taken
<1>9. /\ oBuf' \in Files(Bytes) /\ oBuf'.fp <= Len(oBuf'.arr)
      /\ Len(oBuf'.arr) - oBuf'.fp = Len(oBuf.arr) - (oPos + k)
      /\ \A j \in 1 .. Len(oBuf.arr) - (oPos + k) :
            oBuf'.arr[oBuf'.fp + j] = oBuf.arr[oPos + k + j]
  <2>1. oBuf' = Massaged(g)
    BY <1>1 DEF g
  <2> QED BY <1>5, <1>7, <2>1, MassagedFacts
<1>10. /\ sent' \in Seq(Bytes) /\ Len(sent') = Len(sent) + k
       /\ \A j \in 1 .. Len(sent) + k :
             sent'[j] = IF j <= Len(sent) THEN sent[j] ELSE taken[j - Len(sent)]
  <2>1. sent' = sent \o taken /\ sent \in Seq(Bytes)
    BY <1>1, <1>3 DEF taken, OutTypeOK
  <2>2. /\ sent \o taken \in Seq(Bytes) /\ Len(sent \o taken) = Len(sent) + Len(taken)
        /\ \A j \in 1 .. Len(sent) + Len(taken) :
              (sent \o taken)[j] = IF j <= Len(sent) THEN sent[j]
                                                    ELSE taken[j - Len(sent)]
    BY <1>8, <2>1, ConcatProperties
  <2>3. Len(taken) = k
    BY <1>8
  <2> QED BY <2>1, <2>2, <2>3
<1>11. oBuf'.fp \in Nat /\ Len(oBuf'.arr) \in Nat
  BY <1>9, LenProperties DEF Files
<1>12. OutTypeOK'
  BY <1>1, <1>2, <1>3, <1>9, <1>10, <1>11 DEF OutTypeOK
<1>13. ~backlog' => oBuf'.fp = Len(oBuf'.arr)
  <2>1. SUFFICES ASSUME ~backlog' PROVE oBuf'.fp = Len(oBuf'.arr)
    OBVIOUS
  <2>2. k = Len(oBuf.arr) - oPos
    <3>1. ~(k < Len(Unsent))
      BY <1>1, <2>1
    <3>2. k = Len(Unsent)
      BY <1>1, <1>5, <3>1
    <3> QED BY <1>4, <3>2
  <2>3. Len(oBuf.arr) - (oPos + k) = 0
    BY <1>3, <1>5, <2>2, OutNumbers
  <2> QED BY <1>9, <1>11, <2>3
<1>14. ASSUME ~clobbered
       PROVE  OutputAt'
  <2>1. /\ Len(sent) + (Len(oBuf.arr) - oPos) = written
        /\ \A j \in 1 .. Len(sent) : sent[j] = j
        /\ \A j \in 1 .. Len(oBuf.arr) - oPos : oBuf.arr[oPos + j] = Len(sent) + j
    BY <1>14 DEF OutInv, OutputAt
  <2>2. Len(sent') + (Len(oBuf'.arr) - oPos') = written'
    BY <1>2, <1>3, <1>5, <1>9, <1>10, <1>11, <2>1, OutNumbers
  <2>3. ASSUME NEW j \in 1 .. Len(sent')
        PROVE  sent'[j] = j
    <3>1. CASE j <= Len(sent)
      <4>1. j \in 1 .. Len(sent) /\ j \in 1 .. Len(sent) + k
        BY <1>3, <1>10, <2>3, <3>1, OutNumbers
      <4>2. sent'[j] = sent[j]
        BY <1>10, <3>1, <4>1
      <4> QED BY <2>1, <4>1, <4>2
    <3>2. CASE j > Len(sent)
      <4>1. j - Len(sent) \in 1 .. k /\ j - Len(sent) \in 1 .. Len(oBuf.arr) - oPos
        BY <1>3, <1>5, <1>10, <2>3, <3>2, OutNumbers
      <4>2. sent'[j] = oBuf.arr[oPos + (j - Len(sent))]
        BY <1>3, <1>4, <1>8, <1>10, <2>3, <3>2, <4>1, OutNumbers
      <4>3. oBuf.arr[oPos + (j - Len(sent))] = Len(sent) + (j - Len(sent))
        BY <2>1, <4>1
      <4> QED BY <1>3, <2>3, <4>2, <4>3, OutNumbers
    <3> QED BY <1>3, <1>10, <2>3, <3>1, <3>2, OutNumbers
  <2>4. ASSUME NEW j \in 1 .. Len(oBuf'.arr) - oPos'
        PROVE  oBuf'.arr[oPos' + j] = Len(sent') + j
    <3>1. j \in 1 .. Len(oBuf.arr) - (oPos + k) /\ k + j \in 1 .. Len(oBuf.arr) - oPos
      BY <1>2, <1>3, <1>5, <1>9, <1>11, <2>4, OutNumbers
    <3>2. oBuf'.arr[oBuf'.fp + j] = oBuf.arr[oPos + k + j]
      BY <1>9, <3>1
    <3>3. oBuf.arr[oPos + (k + j)] = Len(sent) + (k + j)
      BY <2>1, <3>1
    <3>4. /\ oPos + k + j = oPos + (k + j)
          /\ Len(sent) + (k + j) = Len(sent') + j
      BY <1>3, <1>5, <1>10, <2>4, <3>1, OutNumbers
    <3> QED BY <1>2, <3>2, <3>3, <3>4
  <2> QED BY <2>2, <2>3, <2>4 DEF OutputAt
<1>15. ~clobbered' => OutputAt'
  BY <1>2, <1>14
<1> QED BY <1>12, <1>13, <1>15 DEF OutInv

LEMMA ReceiveEndStep ==
    ASSUME OutInv, ReceiveEnd
    PROVE  OutInv'
<1>1. /\ oBuf' = Seek(oBuf, oPos) /\ backlog' = (Unsent # <<>>)
      /\ oPos' = oPos /\ written' = written /\ sent' = sent /\ clobbered' = clobbered
  BY DEF ReceiveEnd
<1>2. OutTypeOK
  BY DEF OutInv
<1>3. oBuf' = [arr |-> oBuf.arr, fp |-> oPos]
  BY <1>1, <1>2, OutNumbers DEF Seek
<1>4. oPos <= Len(oBuf.arr)
  BY <1>2, OutNumbers DEF OutTypeOK
<1>5. Len(Unsent) = Len(oBuf.arr) - oPos
  BY <1>2, <1>4, OutNumbers, FromFacts DEF Unsent
<1>6. oBuf' \in Files(Bytes) /\ oBuf'.fp = oPos /\ oBuf'.arr = oBuf.arr
  BY <1>2, <1>3, OutNumbers DEF Files
<1>7. OutTypeOK'
  BY <1>1, <1>2, <1>4, <1>6, OutNumbers DEF OutTypeOK
<1>8. ~backlog' => oBuf'.fp = Len(oBuf'.arr)
  <2>1. ~backlog' => Len(Unsent) = 0
    BY <1>1, EmptySeq
  <2> QED BY <1>2, <1>4, <1>5, <1>6, <2>1, OutNumbers
<1>9. ~clobbered' => OutputAt'
  BY <1>1, <1>6 DEF OutInv, OutputAt
<1> QED BY <1>7, <1>8, <1>9 DEF OutInv

LEMMA OutNext == OutInv /\ [Next]_vars => OutInv'
<1> SUFFICES ASSUME OutInv, [Next]_vars PROVE OutInv'
  OBVIOUS
<1>1. CASE UNCHANGED vars
  BY <1>1, OutFrame DEF vars
<1>2. CASE Connect \/ Close \/ ReadBytes
  BY <1>2, OutFrame DEF Connect, Close, ReadBytes
<1>3. CASE WriteBytes
  BY <1>3, WriteBytesStep
<1>4. CASE Transfer
  BY <1>4, TransferStep
<1>5. CASE ReceiveEnd
  BY <1>5, ReceiveEndStep
<1>6. CASE Connected \/ ConnectFails \/ KeepTrying
  BY <1>6, OutFrame DEF Connected, ConnectFails, KeepTrying
<1>7. CASE Return
  BY <1>7, OutFrame DEF Return, AfterReadError, AfterConnectError, AfterEvent
<1>8. CASE Environment
  BY <1>8, OutFrame DEF Environment, PeerSends, PeerLeaves
<1> QED BY <1>1, <1>2, <1>3, <1>4, <1>5, <1>6, <1>7, <1>8 DEF Next, Program, Heartbeat

-----------------------------------------------------------------------------
(* The input.                                                               *)
InTypeOK ==
    /\ iBuf \in Files(Bytes) /\ iBuf.fp <= Len(iBuf.arr)
    /\ received \in Nat /\ consumed \in Nat /\ inNet \in Nat

InputAt ==
    /\ consumed + (Len(iBuf.arr) - iBuf.fp) = received
    /\ \A k \in 1 .. Len(iBuf.arr) - iBuf.fp : iBuf.arr[iBuf.fp + k] = consumed + k

InInv == InTypeOK /\ InputAt

LEMMA InNumbers ==
    ASSUME InTypeOK
    PROVE  /\ iBuf.arr \in Seq(Bytes) /\ iBuf.fp \in Nat /\ Len(iBuf.arr) \in Nat
           /\ iBuf = [arr |-> iBuf.arr, fp |-> iBuf.fp]
<1> QED BY LenProperties DEF InTypeOK, Files

LEMMA InFrame ==
    ASSUME InInv, UNCHANGED inVars, inNet' \in Nat
    PROVE  InInv'
<1>1. iBuf' = iBuf /\ received' = received /\ consumed' = consumed
  BY DEF inVars
<1> QED BY <1>1 DEF InInv, InTypeOK, InputAt

LEMMA InInit == Init => InInv
<1> SUFFICES ASSUME Init PROVE InInv
  OBVIOUS
<1>1. /\ iBuf = [arr |-> <<>>, fp |-> 0] /\ received = 0 /\ consumed = 0 /\ inNet = 0
  BY DEF Init, NewFile
<1>2. <<>> \in Seq(Bytes) /\ Len(<<>>) = 0
  BY EmptySeq
<1>3. [arr |-> <<>>, fp |-> 0] \in Files(Bytes)
  BY <1>2 DEF Files
<1>4. iBuf.arr = <<>> /\ iBuf.fp = 0
  BY <1>1
<1>5. Len(iBuf.arr) = 0
  BY <1>2, <1>4
<1>6. InTypeOK
  <2>1. iBuf \in Files(Bytes)
    BY <1>1, <1>3
  <2> QED BY <1>1, <1>4, <1>5, <2>1 DEF InTypeOK
<1> QED BY <1>1, <1>4, <1>5, <1>6 DEF InInv, InputAt

LEMMA ReadBytesStep ==
    ASSUME InInv, ReadBytes
    PROVE  InInv'
<1>1. PICK n \in Chunks :
         /\ CanRead(iBuf, n) /\ iBuf' = AfterRead(iBuf, n) /\ consumed' = consumed + n
         /\ received' = received /\ inNet' = inNet
  BY DEF ReadBytes, netVars
<1>2. n \in Nat /\ InTypeOK /\ InputAt
  BY SocketAssumption DEF InInv
<1>3. iBuf' = [arr |-> iBuf.arr, fp |-> iBuf.fp + n]
  BY <1>1, <1>2, InNumbers DEF AfterRead, Seek
<1>4. iBuf.fp + n <= Len(iBuf.arr)
  <2>1. iBuf.fp <= Len(iBuf.arr)
    BY <1>2 DEF InTypeOK
  <2>2. n <= Len(iBuf.arr) - iBuf.fp
    BY <1>1, <2>1 DEF CanRead, Available
  <2> QED BY <1>2, <2>2, InNumbers
<1>5. iBuf' \in Files(Bytes) /\ iBuf'.arr = iBuf.arr /\ iBuf'.fp = iBuf.fp + n
  BY <1>2, <1>3, InNumbers DEF Files
<1>6. InTypeOK'
  BY <1>1, <1>2, <1>4, <1>5, InNumbers DEF InTypeOK
<1>7. consumed' + (Len(iBuf'.arr) - iBuf'.fp) = received'
  BY <1>1, <1>2, <1>5, InNumbers DEF InputAt, InTypeOK
<1>8. ASSUME NEW k \in 1 .. Len(iBuf'.arr) - iBuf'.fp
      PROVE  iBuf'.arr[iBuf'.fp + k] = consumed' + k
  <2>1. n + k \in 1 .. Len(iBuf.arr) - iBuf.fp /\ k \in Nat
    BY <1>2, <1>4, <1>5, <1>8, InNumbers
  <2>2. iBuf.arr[iBuf.fp + (n + k)] = consumed + (n + k)
    BY <1>2, <2>1 DEF InputAt
  <2>3. /\ iBuf.fp + (n + k) = iBuf'.fp + k
        /\ consumed + (n + k) = consumed' + k
    BY <1>1, <1>2, <1>5, <2>1, InNumbers DEF InTypeOK
  <2> QED BY <1>5, <2>2, <2>3
<1> QED BY <1>6, <1>7, <1>8 DEF InInv, InputAt

\* Bytes pushed behind the pointer continue what was received.
LEMMA FilledFacts ==
    ASSUME InInv
    PROVE  /\ Filled \in Files(Bytes) /\ Filled.fp = iBuf.fp
           /\ Filled.fp <= Len(Filled.arr)
           /\ consumed + (Len(Filled.arr) - Filled.fp) = received + inNet
           /\ \A k \in 1 .. Len(Filled.arr) - Filled.fp :
                 Filled.arr[Filled.fp + k] = consumed + k
<1> DEFINE d == Following(received, inNet)
<1>1. InTypeOK /\ InputAt
  BY DEF InInv
<1>2. received \in Nat /\ consumed \in Nat /\ inNet \in Nat /\ iBuf.fp <= Len(iBuf.arr)
  BY <1>1 DEF InTypeOK
<1>3. d \in Seq(Bytes) /\ Len(d) = inNet /\ \A k \in 1 .. inNet : d[k] = received + k
  BY <1>2, FollowingFacts
<1>4. Filled = Push(iBuf, d)
  BY DEF Filled
<1> HIDE DEF d
<1>5. /\ Filled \in Files(Bytes) /\ Filled.fp = iBuf.fp
      /\ Len(Filled.arr) = Len(iBuf.arr) + Len(d)
      /\ \A k \in 1 .. Len(iBuf.arr) + Len(d) :
            Filled.arr[k] = IF k <= Len(iBuf.arr) THEN iBuf.arr[k]
                                                  ELSE d[k - Len(iBuf.arr)]
  BY <1>1, <1>3, <1>4, PushFacts DEF InTypeOK
<1>6. Len(Filled.arr) = Len(iBuf.arr) + inNet
  BY <1>3, <1>5
<1>7. consumed + (Len(iBuf.arr) - iBuf.fp) = received
  BY <1>1 DEF InputAt
<1>8. ASSUME NEW k \in 1 .. Len(Filled.arr) - Filled.fp
      PROVE  Filled.arr[Filled.fp + k] = consumed + k
  <2>1. iBuf.fp + k \in 1 .. Len(iBuf.arr) + Len(d) /\ k \in Nat
    BY <1>1, <1>2, <1>3, <1>5, <1>6, <1>8, InNumbers
  <2>2. CASE iBuf.fp + k <= Len(iBuf.arr)
    <3>1. k \in 1 .. Len(iBuf.arr) - iBuf.fp
      BY <1>1, <1>2, <2>1, <2>2, <1>8, InNumbers
    <3>2. iBuf.arr[iBuf.fp + k] = consumed + k
      BY <1>1, <3>1 DEF InputAt
    <3>3. Filled.arr[iBuf.fp + k] = iBuf.arr[iBuf.fp + k]
      BY <1>5, <2>1, <2>2
    <3> QED BY <1>5, <3>2, <3>3
  <2>3. CASE iBuf.fp + k > Len(iBuf.arr)
    <3>1. (iBuf.fp + k) - Len(iBuf.arr) \in 1 .. inNet
      BY <1>1, <1>2, <1>3, <2>1, <2>3, InNumbers
    <3>2. ~(iBuf.fp + k <= Len(iBuf.arr))
      BY <1>1, <2>1, <2>3, InNumbers
    <3>3. Filled.arr[iBuf.fp + k] = d[(iBuf.fp + k) - Len(iBuf.arr)]
      BY <1>5, <2>1, <3>2
    <3>4. d[(iBuf.fp + k) - Len(iBuf.arr)] = received + ((iBuf.fp + k) - Len(iBuf.arr))
      BY <1>3, <3>1
    <3>5. received + ((iBuf.fp + k) - Len(iBuf.arr)) = consumed + k
      BY <1>1, <1>2, <1>7, <2>1, InNumbers
    <3> QED BY <1>5, <3>3, <3>4, <3>5
  <2> QED BY <1>1, <2>1, <2>2, <2>3, InNumbers
<1>9. consumed + (Len(Filled.arr) - Filled.fp) = received + inNet
  BY <1>1, <1>2, <1>5, <1>6, <1>7, InNumbers
<1>10. Filled.fp <= Len(Filled.arr)
  BY <1>1, <1>2, <1>5, <1>6, InNumbers
<1> QED BY <1>5, <1>8, <1>9, <1>10

LEMMA TransferInStep ==
    ASSUME InInv, Transfer
    PROVE  InInv'
<1>1. /\ iBuf' = Massaged(Filled) /\ received' = received + inNet /\ inNet' = 0
      /\ consumed' = consumed
  BY DEF Transfer
<1>2. received \in Nat /\ consumed \in Nat /\ inNet \in Nat
  BY DEF InInv, InTypeOK
<1> DEFINE f == Filled
<1>3. /\ f \in Files(Bytes) /\ f.fp <= Len(f.arr)
      /\ consumed + (Len(f.arr) - f.fp) = received + inNet
      /\ \A k \in 1 .. Len(f.arr) - f.fp : f.arr[f.fp + k] = consumed + k
  BY FilledFacts
<1> HIDE DEF f
<1>4. /\ Massaged(f) \in Files(Bytes)
      /\ Massaged(f).fp <= Len(Massaged(f).arr)
      /\ Len(Massaged(f).arr) - Massaged(f).fp = Len(f.arr) - f.fp
      /\ \A k \in 1 .. Len(f.arr) - f.fp :
            Massaged(f).arr[Massaged(f).fp + k] = f.arr[f.fp + k]
  BY <1>3, MassagedFacts
<1>5. iBuf' = Massaged(f)
  BY <1>1 DEF f
<1>6. InTypeOK'
  BY <1>1, <1>2, <1>4, <1>5 DEF InTypeOK
<1>7. InputAt'
  BY <1>1, <1>3, <1>4, <1>5 DEF InputAt
<1> QED BY <1>6, <1>7 DEF InInv

LEMMA ReceiveEndInStep ==
    ASSUME InInv, ReceiveEnd
    PROVE  InInv'
<1>1. /\ iBuf' = Filled /\ received' = received + inNet /\ consumed' = consumed
  BY DEF ReceiveEnd
<1>2. inNet' = 0
  BY DEF ReceiveEnd, Disconnected
<1>3. received \in Nat /\ consumed \in Nat /\ inNet \in Nat
  BY DEF InInv, InTypeOK
<1>4. /\ Filled \in Files(Bytes) /\ Filled.fp <= Len(Filled.arr)
      /\ consumed + (Len(Filled.arr) - Filled.fp) = received + inNet
      /\ \A k \in 1 .. Len(Filled.arr) - Filled.fp :
            Filled.arr[Filled.fp + k] = consumed + k
  BY FilledFacts
<1> QED BY <1>1, <1>2, <1>3, <1>4 DEF InInv, InTypeOK, InputAt

LEMMA InNext == InInv /\ [Next]_vars => InInv'
<1> SUFFICES ASSUME InInv, [Next]_vars PROVE InInv'
  OBVIOUS
<1>1. inNet \in Nat
  BY DEF InInv, InTypeOK
<1>2. CASE UNCHANGED vars
  BY <1>1, <1>2, InFrame DEF vars, netVars
<1>3. CASE Connect \/ Close \/ WriteBytes
  BY <1>1, <1>3, InFrame DEF Connect, Close, WriteBytes, netVars
<1>4. CASE ReadBytes
  BY <1>4, ReadBytesStep
<1>5. CASE Transfer
  BY <1>5, TransferInStep
<1>6. CASE ReceiveEnd
  BY <1>6, ReceiveEndInStep
<1>7. CASE Connected \/ ConnectFails \/ KeepTrying
  BY <1>1, <1>7, InFrame DEF Connected, ConnectFails, KeepTrying, netVars
<1>8. CASE Return
  BY <1>1, <1>8, InFrame DEF Return, AfterReadError, AfterConnectError, AfterEvent,
     Disconnected, netVars
<1>9. CASE PeerSends
  <2>1. PICK n \in Chunks : inNet' = inNet + n
    BY <1>9 DEF PeerSends
  <2> QED BY <1>1, <1>9, <2>1, InFrame, SocketAssumption DEF PeerSends
<1>10. CASE PeerLeaves
  BY <1>1, <1>10, InFrame DEF PeerLeaves
<1> QED BY <1>2, <1>3, <1>4, <1>5, <1>6, <1>7, <1>8, <1>9, <1>10
       DEF Next, Program, Heartbeat, Environment

-----------------------------------------------------------------------------
(* The descriptor and the state.  While the failure of an attempt is        *)
(* reported, the attempt has given up its descriptor and no handler can     *)
(* leave the waiting state, because close() throws in it.                   *)
Controls ==
    /\ state \in {"virgin", "waiting", "connected"}
    /\ ref \in {"none", "opening", "open"}
    /\ pc \in {"idle", "data", "readError", "close", "connect", "connectError"}
    /\ peer \in {"open", "closed", "reset"}
    /\ attempt \in {"none", "made", "inErrorHandler"}
    /\ connects \in Nat

AttemptInv ==
    attempt = "made" =>
        state = "waiting" /\ pc \notin {"readError", "connectError"}

FailedAttempt == pc = "connectError" => state = "waiting" /\ ref = "none"

ControlInv == Controls /\ DescriptorMatchesState /\ AttemptInv /\ FailedAttempt

LEMMA ControlInit == Init => ControlInv
<1> QED BY DEF Init, ControlInv, Controls, DescriptorMatchesState, AttemptInv,
       FailedAttempt

LEMMA ControlNext == ControlInv /\ [Next]_vars => ControlInv'
<1> SUFFICES ASSUME ControlInv, [Next]_vars PROVE ControlInv'
  OBVIOUS
<1> USE DEF ControlInv, Controls, DescriptorMatchesState, AttemptInv, FailedAttempt
<1>1. CASE UNCHANGED vars
  BY <1>1 DEF vars, netVars
<1>2. CASE Connect
  BY <1>2 DEF Connect, netVars
<1>3. CASE Close
  BY <1>3 DEF Close
<1>4. CASE WriteBytes \/ ReadBytes
  BY <1>4 DEF WriteBytes, ReadBytes, netVars
<1>5. CASE Transfer
  BY <1>5 DEF Transfer
<1>6. CASE ReceiveEnd
  BY <1>6 DEF ReceiveEnd, Disconnected
<1>7. CASE Connected
  BY <1>7 DEF Connected
<1>8. CASE ConnectFails \/ KeepTrying
  BY <1>8 DEF ConnectFails, KeepTrying, netVars
<1>9. CASE Return
  BY <1>9 DEF Return, AfterReadError, AfterConnectError, AfterEvent, Disconnected, netVars
<1>10. CASE Environment
  BY <1>10 DEF Environment, PeerSends, PeerLeaves
<1> QED BY <1>1, <1>2, <1>3, <1>4, <1>5, <1>6, <1>7, <1>8, <1>9, <1>10
       DEF Next, Program, Heartbeat

-----------------------------------------------------------------------------
LEMMA Inductive ==
    Spec => [](OutInv /\ InInv /\ ControlInv)
<1>1. Init => OutInv /\ InInv /\ ControlInv
  BY OutInit, InInit, ControlInit
<1>2. OutInv /\ InInv /\ ControlInv /\ [Next]_vars => (OutInv /\ InInv /\ ControlInv)'
  BY OutNext, InNext, ControlNext
<1> QED BY <1>1, <1>2, PTL DEF Spec

(* Buffers, positions and counters keep their types, the pointer of each    *)
(* buffer stays inside it, and the output position behind the pointer       *)
(* (Socket.as:359).                                                         *)
THEOREM SocketTypeCorrect == Spec => []TypeOK
<1>1. OutInv /\ InInv /\ ControlInv => TypeOK
  BY DEF OutInv, OutTypeOK, InInv, InTypeOK, ControlInv, Controls, TypeOK
<1> QED BY <1>1, Inductive, PTL

(* Socket.as:87, 124: what the other end is sent is what the program wrote, *)
(* for every size of writes, of what the kernel takes, and of buffers, as   *)
(* long as the program does not write behind a partial send.                *)
THEOREM OutputStaysIntact == Spec => []OutputIntact
<1>1. OutInv => OutputIntact
  <2> SUFFICES ASSUME OutInv, ~clobbered PROVE sent \o Unsent = Upto(written)
    BY DEF OutputIntact
  <2>1. OutTypeOK /\ OutputAt
    BY DEF OutInv
  <2>2. sent \in Seq(Bytes) /\ written \in Nat /\ oPos <= Len(oBuf.arr)
    BY <2>1, OutNumbers DEF OutTypeOK
  <2>3. /\ Unsent \in Seq(Bytes) /\ Len(Unsent) = Len(oBuf.arr) - oPos
        /\ \A k \in 1 .. Len(oBuf.arr) - oPos : Unsent[k] = oBuf.arr[oPos + k]
    BY <2>1, <2>2, OutNumbers, FromFacts DEF Unsent
  <2> DEFINE all == sent \o Unsent
  <2>4. /\ all \in Seq(Bytes) /\ Len(all) = Len(sent) + Len(Unsent)
        /\ \A k \in 1 .. Len(sent) + Len(Unsent) :
              all[k] = IF k <= Len(sent) THEN sent[k] ELSE Unsent[k - Len(sent)]
    BY <2>2, <2>3, ConcatProperties
  <2> HIDE DEF all
  <2>5. /\ Len(sent) + Len(Unsent) = written /\ Len(all) = written
    BY <2>1, <2>3, <2>4 DEF OutputAt
  <2>6. Upto(written) = Following(0, written)
    BY <2>2 DEF Upto, Following
  <2>7. /\ Following(0, written) \in Seq(Bytes)
        /\ Len(Following(0, written)) = written
        /\ \A k \in 1 .. written : Following(0, written)[k] = 0 + k
    BY <2>2, FollowingFacts
  <2>8. ASSUME NEW k \in 1 .. written PROVE all[k] = k
    <3>1. k \in 1 .. Len(sent) + Len(Unsent) /\ k \in Nat
      BY <2>2, <2>5, <2>8
    <3>2. CASE k <= Len(sent)
      <4>1. k \in 1 .. Len(sent)
        BY <2>1, <3>1, <3>2, OutNumbers
      <4> QED BY <2>1, <2>4, <3>1, <3>2, <4>1 DEF OutputAt
    <3>3. CASE ~(k <= Len(sent))
      <4>1. k - Len(sent) \in 1 .. Len(oBuf.arr) - oPos
        BY <2>1, <2>3, <3>1, <3>3, OutNumbers
      <4>2. all[k] = Unsent[k - Len(sent)]
        BY <2>4, <3>1, <3>3
      <4>3. Unsent[k - Len(sent)] = oBuf.arr[oPos + (k - Len(sent))]
        BY <2>3, <4>1
      <4>4. oBuf.arr[oPos + (k - Len(sent))] = Len(sent) + (k - Len(sent))
        BY <2>1, <4>1 DEF OutputAt
      <4>5. Len(sent) + (k - Len(sent)) = k
        BY <2>1, <3>1, OutNumbers
      <4> QED BY <4>2, <4>3, <4>4, <4>5
    <3> QED BY <3>2, <3>3
  <2>9. \A k \in 1 .. written : Following(0, written)[k] = k
    BY <2>2, <2>7
  <2> QED BY <2>4, <2>5, <2>6, <2>7, <2>8, <2>9, SeqEqual
<1> QED BY <1>1, Inductive, PTL

(* Socket.as:121: what the program can read is what was received and not    *)
(* read yet, for every size of reads, of what arrives, and of buffers.      *)
THEOREM InputStaysIntact == Spec => []InputIntact
<1>1. InInv => InputIntact
  <2> SUFFICES ASSUME InInv PROVE Unread(iBuf) = Following(consumed, received - consumed)
    BY DEF InputIntact
  <2>1. /\ InTypeOK /\ InputAt /\ received \in Nat /\ consumed \in Nat
        /\ iBuf.fp <= Len(iBuf.arr)
    BY DEF InInv, InTypeOK
  <2> DEFINE rest == From(iBuf.arr, iBuf.fp)
             n == received - consumed
  <2>2. n \in Nat /\ Len(iBuf.arr) - iBuf.fp = n
    BY <2>1, InNumbers DEF InputAt
  <2>3. /\ rest \in Seq(Bytes) /\ Len(rest) = Len(iBuf.arr) - iBuf.fp
        /\ \A k \in 1 .. Len(iBuf.arr) - iBuf.fp : rest[k] = iBuf.arr[iBuf.fp + k]
    BY <2>1, InNumbers, FromFacts
  <2>4. Unread(iBuf) = rest
    BY DEF Unread
  <2> HIDE DEF rest, n
  <2>5. /\ Following(consumed, n) \in Seq(Bytes) /\ Len(Following(consumed, n)) = n
        /\ \A k \in 1 .. n : Following(consumed, n)[k] = consumed + k
    BY <2>1, <2>2, FollowingFacts
  <2>6. \A k \in 1 .. n : rest[k] = consumed + k
    BY <2>1, <2>2, <2>3 DEF InputAt
  <2>7. rest = Following(consumed, n)
    BY <2>2, <2>3, <2>5, <2>6, SeqEqual
  <2> QED BY <2>4, <2>7 DEF n
<1> QED BY <1>1, Inductive, PTL

(* Socket.as:71, 101: a descriptor is open exactly while the socket counts  *)
(* as connected, whatever the handlers call in the middle of a heartbeat.   *)
THEOREM DescriptorFollowsState == Spec => []DescriptorMatchesState
<1>1. ControlInv => DescriptorMatchesState
  BY DEF ControlInv
<1> QED BY <1>1, Inductive, PTL

(* Socket.as:48, 59: a connect() that nothing was reported of is under way, *)
(* unless a handler of IO_ERROR made it.                                    *)
THEOREM AttemptsAreKept == Spec => []AttemptIsUnderWay
<1>1. ControlInv => AttemptIsUnderWay
  BY DEF ControlInv, AttemptInv, AttemptIsUnderWay
<1> QED BY <1>1, Inductive, PTL

-----------------------------------------------------------------------------
(* From here on, packets.                                                   *)

LEMMA Sizes ==
    /\ LENGTHFIELDSIZE \in Nat \ {0} /\ PACKETSIZE \in Nat \ {0}
    /\ FirstLook \in Nat /\ RequestSize \in Nat /\ LENGTHFIELDSIZE <= FirstLook
    /\ FirstLook < RequestSize /\ RequestSize < Packets!Size
    /\ Packets!Size \in Nat \ {0} /\ Packets!Size = LENGTHFIELDSIZE + PACKETSIZE
<1>1. /\ LENGTHFIELDSIZE \in Nat \ {0} /\ PACKETSIZE \in Nat \ {0}
      /\ FirstLook \in Nat /\ RequestSize \in Nat
  BY PacketAssumption
<1> QED BY <1>1, PacketAssumption DEF Packets!Size

LEMMA RunFacts ==
    ASSUME NEW m \in Nat, NEW n \in Nat
    PROVE  /\ Packets!Run(m, n) \in Seq(Nat) /\ Len(Packets!Run(m, n)) = n
           /\ \A k \in 1 .. n : Packets!Run(m, n)[k] = m + k
<1>1. Packets!Run(m, n) \in [1 .. n -> Nat]
  BY DEF Packets!Run
<1>2. Packets!Run(m, n) \in Seq(Nat)
  BY <1>1, SeqDef
<1> QED BY <1>2, LenProperties DEF Packets!Run

LEMMA AfterFacts ==
    ASSUME NEW s \in Seq(Nat), NEW n \in Nat
    PROVE  /\ Packets!After(s, n) \in Seq(Nat)
           /\ n <= Len(s) => Len(Packets!After(s, n)) = Len(s) - n
           /\ \A k \in 1 .. Len(s) - n : Packets!After(s, n)[k] = s[n + k]
<1>1. Packets!After(s, n) = From(s, n)
  BY DEF Packets!After, From
<1> QED BY <1>1, FromFacts

LEMMA FrontFacts ==
    ASSUME NEW s \in Seq(Nat), NEW n \in 0 .. Len(s)
    PROVE  /\ SubSeq(s, 1, n) \in Seq(Nat) /\ Len(SubSeq(s, 1, n)) = n
           /\ \A k \in 1 .. n : SubSeq(s, 1, n)[k] = s[k]
<1>1. Len(s) \in Nat /\ n \in Nat /\ n <= Len(s)
  BY LenProperties
<1>2. \A k \in 1 .. n : s[k] \in Nat
  BY <1>1, ElementOfSeq
<1>3. /\ SubSeq(s, 1, n) \in Seq(Nat)
      /\ Len(SubSeq(s, 1, n)) = IF 1 <= n THEN n - 1 + 1 ELSE 0
      /\ \A k \in 1 .. n - 1 + 1 : SubSeq(s, 1, n)[k] = s[1 + k - 1]
  BY <1>1, <1>2, SubSeqProperties
<1> QED BY <1>1, <1>3

\* Consecutive numbers, and more of them, are consecutive numbers.
LEMMA JoinFacts ==
    ASSUME NEW s \in Seq(Nat), NEW t \in Seq(Nat), NEW m \in Nat,
           \A k \in 1 .. Len(s) : s[k] = m + k,
           \A k \in 1 .. Len(t) : t[k] = (m + Len(s)) + k
    PROVE  /\ s \o t \in Seq(Nat) /\ Len(s \o t) = Len(s) + Len(t)
           /\ \A k \in 1 .. Len(s) + Len(t) : (s \o t)[k] = m + k
<1>1. /\ s \o t \in Seq(Nat) /\ Len(s \o t) = Len(s) + Len(t)
      /\ \A k \in 1 .. Len(s) + Len(t) :
            (s \o t)[k] = IF k <= Len(s) THEN s[k] ELSE t[k - Len(s)]
  BY ConcatProperties
<1>2. Len(s) \in Nat /\ Len(t) \in Nat
  BY LenProperties
<1> DEFINE u == s \o t
<1> HIDE DEF u
<1>3. \A k \in 1 .. Len(s) + Len(t) : u[k] = IF k <= Len(s) THEN s[k] ELSE t[k - Len(s)]
  BY <1>1 DEF u
<1>4. ASSUME NEW k \in 1 .. Len(s) + Len(t) PROVE u[k] = m + k
  <2>1. CASE k <= Len(s)
    <3>1. k \in 1 .. Len(s)
      BY <1>2, <1>4, <2>1
    <3> QED BY <1>3, <1>4, <2>1, <3>1
  <2>2. CASE ~(k <= Len(s))
    <3>1. k - Len(s) \in 1 .. Len(t)
      BY <1>2, <1>4, <2>2
    <3>2. u[k] = t[k - Len(s)]
      BY <1>3, <1>4, <2>2
    <3>3. t[k - Len(s)] = (m + Len(s)) + (k - Len(s))
      BY <3>1
    <3>4. (m + Len(s)) + (k - Len(s)) = m + k
      BY <1>2, <1>4
    <3> QED BY <3>2, <3>3, <3>4
  <2> QED BY <2>1, <2>2
<1> QED BY <1>1, <1>4 DEF u

-----------------------------------------------------------------------------
(* The bytes on the wire and in the receiver's buffer are sequences, and    *)
(* the server's socket keeps its invariant about output.                    *)
WireInv ==
    /\ OutInv
    /\ wire \in Seq(Nat) /\ buf \in Seq(Nat)
    /\ transmitted \in Nat
    /\ sender \in {"flash", "thane"} /\ client \in {"game", "policy"}
    /\ sender = "thane" => client = "game"

LEMMA WireInit == StreamInit => WireInv
<1> SUFFICES ASSUME StreamInit PROVE WireInv
  OBVIOUS
<1>1. OutInv
  BY OutInit DEF StreamInit
<1>2. <<>> \in Seq(Nat) /\ Packets!Run(0, RequestSize) \in Seq(Nat)
  BY EmptySeq, RunFacts, Sizes
<1> QED BY <1>1, <1>2 DEF StreamInit, WireInv, Packets!Init

LEMMA PiecesOfBytes == Bytes \subseteq Nat /\ \A s \in Seq(Bytes) : s \in Seq(Nat)
<1>1. Bytes \subseteq Nat
  BY DEF Bytes
<1>2. ASSUME NEW s \in Seq(Bytes) PROVE s \in Seq(Nat)
  <2>1. PICK n \in Nat : s \in [1 .. n -> Bytes]
    BY <1>2, SeqDef
  <2>2. s \in [1 .. n -> Nat]
    BY <1>1, <2>1
  <2> QED BY <2>2, SeqDef
<1> QED BY <1>1, <1>2

LEMMA OutAlways == WireInv /\ [StreamNext]_streamVars => OutInv'
<1> SUFFICES ASSUME WireInv, [StreamNext]_streamVars PROVE OutInv'
  OBVIOUS
<1>1. [Next]_vars
  <2>1. CASE UNCHANGED streamVars
    BY <2>1 DEF streamVars
  <2>2. CASE FlashTransmits \/ Receives
    BY <2>2 DEF FlashTransmits, Receives
  <2>3. CASE ServerTransmits
    BY <2>3 DEF ServerTransmits, Next, Program
  <2>4. CASE ServerHeartbeat
    BY <2>4 DEF ServerHeartbeat, Next, Heartbeat
  <2> QED BY <2>1, <2>2, <2>3, <2>4 DEF StreamNext
<1> QED BY <1>1, OutNext DEF WireInv

\* What a heartbeat puts on the wire.
LEMMA SentFacts ==
    ASSUME WireInv, OutInv', ServerHeartbeat
    PROVE  /\ From(sent', Len(sent)) \in Seq(Nat)
           /\ Len(From(sent', Len(sent))) = Len(sent') - Len(sent)
           /\ Len(sent) \in Nat /\ Len(sent') \in Nat /\ Len(sent) <= Len(sent')
           /\ ~clobbered' => \A k \in 1 .. Len(sent') - Len(sent) :
                                From(sent', Len(sent))[k] = Len(sent) + k
<1>1. sent \in Seq(Bytes) /\ sent' \in Seq(Bytes)
  BY DEF WireInv, OutInv, OutTypeOK
<1>2. Len(sent) \in Nat /\ Len(sent') \in Nat
  BY <1>1, LenProperties
<1>3. Len(sent) <= Len(sent')
  <2>1. PICK k \in 0 .. Len(Unsent) : sent' = sent \o SubSeq(Unsent, 1, k)
    BY DEF ServerHeartbeat, Transfer
  <2>2. Unsent \in Seq(Bytes)
    BY FromFacts, OutNumbers DEF Unsent, WireInv, OutInv
  <2>3. SubSeq(Unsent, 1, k) \in Seq(Nat)
    BY <2>1, <2>2, PiecesOfBytes, FrontFacts
  <2>4. Len(sent \o SubSeq(Unsent, 1, k)) = Len(sent) + Len(SubSeq(Unsent, 1, k))
    BY <1>1, <2>3, PiecesOfBytes, ConcatProperties
  <2>5. Len(SubSeq(Unsent, 1, k)) \in Nat
    BY <2>3, LenProperties
  <2> QED BY <1>2, <2>1, <2>4, <2>5
<1>4. /\ From(sent', Len(sent)) \in Seq(Nat)
      /\ Len(From(sent', Len(sent))) = Len(sent') - Len(sent)
      /\ \A k \in 1 .. Len(sent') - Len(sent) :
            From(sent', Len(sent))[k] = sent'[Len(sent) + k]
  BY <1>1, <1>2, <1>3, PiecesOfBytes, FromFacts
<1>5. ASSUME ~clobbered', NEW k \in 1 .. Len(sent') - Len(sent)
      PROVE  sent'[Len(sent) + k] = Len(sent) + k
  <2>1. \A j \in 1 .. Len(sent') : sent'[j] = j
    BY <1>5 DEF OutInv, OutputAt
  <2>2. Len(sent) + k \in 1 .. Len(sent')
    BY <1>2, <1>3, <1>5
  <2> QED BY <2>1, <2>2
<1> QED BY <1>2, <1>3, <1>4, <1>5

LEMMA BehindFacts ==
    ASSUME WireInv
    PROVE  Packets!Behind \in Seq(Nat)
<1> QED BY AfterFacts, Sizes DEF Packets!Behind, WireInv

\* The bytes of the packet that is sent next.
LEMMA PacketFacts ==
    ASSUME WireInv
    PROVE  /\ Packets!PacketBytes(transmitted + 1) \in Seq(Nat)
           /\ Len(Packets!PacketBytes(transmitted + 1)) = Packets!Size
           /\ \A k \in 1 .. Packets!Size :
                 Packets!PacketBytes(transmitted + 1)[k] = transmitted * Packets!Size + k
<1>1. transmitted \in Nat /\ (transmitted + 1) - 1 = transmitted
  BY DEF WireInv
<1>2. Packets!PacketBytes(transmitted + 1)
        = Packets!Run(transmitted * Packets!Size, Packets!Size)
  BY <1>1 DEF Packets!PacketBytes
<1>3. transmitted * Packets!Size \in Nat /\ Packets!Size \in Nat
  BY <1>1, Sizes
<1> QED BY <1>2, <1>3, RunFacts

LEMMA WireStays ==
    ASSUME WireInv, [StreamNext]_streamVars
    PROVE  sender' = sender /\ client' = client
<1>1. CASE UNCHANGED streamVars
  BY <1>1 DEF streamVars, Packets!vars
<1>2. CASE FlashTransmits
  BY <1>2 DEF FlashTransmits, Packets!TransmitPacket
<1>3. CASE ServerTransmits \/ ServerHeartbeat
  BY <1>3 DEF ServerTransmits, ServerHeartbeat
<1>4. CASE Receives
  BY <1>4 DEF Receives, Packets!Receive, Packets!SocketData, Packets!ReadPackets,
     Packets!AnswerPolicyRequest, Packets!HoldFirstLength, Packets!LookNoFurther,
     Packets!SkipEmpty, Packets!ReadPacket, Packets!ReadPacketThrows, Packets!Consume,
     Packets!ReadTorn, Packets!ReadEnds
<1> QED BY <1>1, <1>2, <1>3, <1>4 DEF StreamNext

LEMMA ReceivedBytes ==
    ASSUME WireInv, Receives
    PROVE  wire' \in Seq(Nat) /\ buf' \in Seq(Nat) /\ transmitted' = transmitted
<1>1. wire \in Seq(Nat) /\ buf \in Seq(Nat) /\ LENGTHFIELDSIZE \in Nat /\ PACKETSIZE \in Nat
  BY Sizes DEF WireInv
<1>2. CASE Packets!SocketData
  <2>1. PICK n \in 1 .. Len(wire) :
           buf' = buf \o SubSeq(wire, 1, n) /\ wire' = Packets!After(wire, n)
    BY <1>2 DEF Packets!SocketData
  <2>2. n \in 0 .. Len(wire) /\ n \in Nat
    BY <1>1, LenProperties
  <2>3. SubSeq(wire, 1, n) \in Seq(Nat)
    BY <1>1, <2>2, FrontFacts
  <2>4. buf \o SubSeq(wire, 1, n) \in Seq(Nat)
    BY <1>1, <2>3, ConcatProperties
  <2>5. Packets!After(wire, n) \in Seq(Nat)
    BY <1>1, <2>2, AfterFacts
  <2> QED BY <1>2, <2>1, <2>4, <2>5 DEF Packets!SocketData
<1>3. CASE Packets!AnswerPolicyRequest \/ Packets!HoldFirstLength
  <2>1. buf' = Packets!After(buf, LENGTHFIELDSIZE) /\ wire' = wire /\ transmitted' = transmitted
    BY <1>3 DEF Packets!AnswerPolicyRequest, Packets!HoldFirstLength
  <2> QED BY <1>1, <2>1, AfterFacts
<1>4. CASE Packets!LookNoFurther \/ Packets!ReadEnds
  BY <1>1, <1>4 DEF Packets!LookNoFurther, Packets!ReadEnds
<1>5. CASE Packets!SkipEmpty \/ Packets!ReadPacket \/ Packets!ReadPacketThrows
  <2>1. /\ buf' = Packets!After(Packets!Behind, PACKETSIZE)
        /\ wire' = wire /\ transmitted' = transmitted
    BY <1>5 DEF Packets!SkipEmpty, Packets!ReadPacket, Packets!ReadPacketThrows,
       Packets!Consume
  <2> QED BY <1>1, <2>1, BehindFacts, AfterFacts
<1>6. CASE Packets!ReadTorn
  BY <1>1, <1>6, BehindFacts DEF Packets!ReadTorn
<1> QED BY <1>2, <1>3, <1>4, <1>5, <1>6 DEF Receives, Packets!Receive, Packets!ReadPackets

LEMMA WireNext == WireInv /\ [StreamNext]_streamVars => WireInv'
<1> SUFFICES ASSUME WireInv, [StreamNext]_streamVars PROVE WireInv'
  OBVIOUS
<1>1. OutInv'
  BY OutAlways
<1>2. sender' = sender /\ client' = client
  BY WireStays
<1>3. wire' \in Seq(Nat) /\ buf' \in Seq(Nat) /\ transmitted' \in Nat
  <2>1. CASE FlashTransmits
    <3>1. /\ wire' = wire \o Packets!PacketBytes(transmitted + 1)
          /\ buf' = buf /\ transmitted' = transmitted + 1
      BY <2>1 DEF FlashTransmits, Packets!TransmitPacket
    <3>2. wire \o Packets!PacketBytes(transmitted + 1) \in Seq(Nat)
      BY PacketFacts, ConcatProperties DEF WireInv
    <3> QED BY <3>1, <3>2 DEF WireInv
  <2>2. CASE ServerTransmits
    BY <2>2 DEF ServerTransmits, WireInv
  <2>3. CASE ServerHeartbeat
    <3>1. /\ wire' = wire \o From(sent', Len(sent))
          /\ buf' = buf /\ transmitted' = transmitted
      BY <2>3 DEF ServerHeartbeat
    <3>2. From(sent', Len(sent)) \in Seq(Nat)
      BY <1>1, <2>3, SentFacts
    <3>3. wire \o From(sent', Len(sent)) \in Seq(Nat)
      BY <3>2, ConcatProperties DEF WireInv
    <3> QED BY <3>1, <3>3 DEF WireInv
  <2>4. CASE Receives
    BY <2>4, ReceivedBytes DEF WireInv
  <2>5. CASE UNCHANGED streamVars
    BY <2>5 DEF streamVars, Packets!vars, WireInv
  <2> QED BY <2>1, <2>2, <2>3, <2>4, <2>5 DEF StreamNext
<1> QED BY <1>1, <1>2, <1>3 DEF WireInv

-----------------------------------------------------------------------------
(* Where the bytes are: the packets read, the length read ahead, the        *)
(* receiver's buffer and the wire hold the first bytes of the stream, in    *)
(* this order, and nothing else has been sent.                              *)
Done == Len(handed) * Packets!Size
Place == Done + Len(held)
Total == IF sender = "thane" THEN Len(sent) ELSE transmitted * Packets!Size

Numbered ==
    /\ held \in Seq(Nat) /\ handed \in Seq(Seq(Nat))
    /\ held # <<>> => Len(held) = LENGTHFIELDSIZE
    /\ firstResponse => held = <<>>
    /\ \A k \in 1 .. Len(held) : held[k] = Done + k
    /\ \A k \in 1 .. Len(buf) : buf[k] = Place + k
    /\ \A k \in 1 .. Len(wire) : wire[k] = (Place + Len(buf)) + k
    /\ (Place + Len(buf)) + Len(wire) = Total
    /\ \A k \in 1 .. Len(handed) : handed[k] = Packets!Payload(k)

Undisturbed == client = "game" /\ ~torn /\ ~clobbered

NumberedInv == Undisturbed => Numbered

LEMMA NumberedNumbers ==
    ASSUME WireInv, Numbered
    PROVE  /\ Len(handed) \in Nat /\ Len(held) \in Nat
           /\ Len(buf) \in Nat /\ Len(wire) \in Nat /\ Len(sent) \in Nat
           /\ Done \in Nat /\ Place \in Nat /\ Total \in Nat
           /\ Place = Done + Len(held)
           /\ held = <<>> => Len(held) = 0
<1>1. /\ Len(handed) \in Nat /\ Len(held) \in Nat
      /\ Len(buf) \in Nat /\ Len(wire) \in Nat
  BY LenProperties DEF WireInv, Numbered
<1>2. Len(sent) \in Nat
  BY OutNumbers DEF WireInv, OutInv
<1>3. Len(handed) * Packets!Size \in Nat /\ transmitted * Packets!Size \in Nat
  BY <1>1, Sizes DEF WireInv
<1> QED BY <1>1, <1>2, <1>3, EmptySeq DEF Done, Place, Total

LEMMA NumberedInit == StreamInit => NumberedInv
<1> SUFFICES ASSUME StreamInit, Undisturbed PROVE Numbered
  BY DEF NumberedInv
<1>1. /\ held = <<>> /\ handed = <<>> /\ buf = <<>> /\ transmitted = 0 /\ sent = <<>>
      /\ wire = (IF client = "policy" THEN Packets!Run(0, RequestSize) ELSE <<>>)
      /\ client = "game"
  BY DEF StreamInit, Packets!Init, Init, Undisturbed
<1>2. wire = <<>>
  BY <1>1
<1>3. /\ Len(held) = 0 /\ Len(handed) = 0 /\ Len(buf) = 0 /\ Len(wire) = 0 /\ Len(sent) = 0
  BY <1>1, <1>2, EmptySeq
<1>4. Done = 0 /\ Place = 0 /\ Total = 0
  BY <1>1, <1>3, Sizes DEF Done, Place, Total
<1>5. held \in Seq(Nat) /\ handed \in Seq(Seq(Nat))
  BY <1>1, EmptySeq
<1> QED BY <1>1, <1>3, <1>4, <1>5 DEF Numbered

\* Nothing moves.
LEMMA NumberedFrame ==
    ASSUME Numbered,
           UNCHANGED <<sender, transmitted, wire, buf, firstResponse, held, handed, sent>>
    PROVE  Numbered'
<1>1. Done' = Done /\ Place' = Place /\ Total' = Total
  BY DEF Done, Place, Total
<1> QED BY <1>1 DEF Numbered

\* The sending end puts more of the stream on the wire.
LEMMA NumberedSend ==
    ASSUME WireInv, Numbered, NEW d \in Seq(Nat), wire' = wire \o d,
           \A k \in 1 .. Len(d) : d[k] = Total + k,
           Total' = Total + Len(d),
           UNCHANGED <<buf, firstResponse, held, handed>>
    PROVE  Numbered'
<1>1. Done' = Done /\ Place' = Place
  BY DEF Done, Place
<1> DEFINE m == Place + Len(buf)
<1>2. m \in Nat /\ wire \in Seq(Nat) /\ \A k \in 1 .. Len(wire) : wire[k] = m + k
  <2>1. Place \in Nat /\ Len(buf) \in Nat
    BY NumberedNumbers, Zenon
  <2>2. m \in Nat
    BY <2>1
  <2>3. wire \in Seq(Nat)
    BY DEF WireInv
  <2>4. \A k \in 1 .. Len(wire) : wire[k] = m + k
    BY Zenon DEF Numbered
  <2> QED BY <2>2, <2>3, <2>4
<1>3. Total = m + Len(wire) /\ m' = m
  BY <1>1 DEF Numbered
<1> HIDE DEF m
<1>4. \A k \in 1 .. Len(d) : d[k] = (m + Len(wire)) + k
  BY <1>3
<1>5. /\ Len(wire \o d) = Len(wire) + Len(d)
      /\ \A k \in 1 .. Len(wire) + Len(d) : (wire \o d)[k] = m + k
  BY <1>2, <1>4, JoinFacts
<1>6. \A k \in 1 .. Len(wire') : wire'[k] = m + k
  BY <1>5
<1>7. m + Len(wire') = Total'
  <2>1. Len(wire) \in Nat /\ Len(d) \in Nat
    BY <1>2, LenProperties
  <2> QED BY <1>2, <1>3, <1>5, <2>1
<1> QED BY <1>1, <1>3, <1>6, <1>7 DEF Numbered, m

LEMMA FlashNumbered ==
    ASSUME WireInv, Numbered, FlashTransmits
    PROVE  Numbered'
<1> DEFINE d == Packets!PacketBytes(transmitted + 1)
<1>1. /\ sender = "flash" /\ sender' = sender /\ sent' = sent
      /\ transmitted' = transmitted + 1
      /\ wire' = wire \o d /\ UNCHANGED <<buf, firstResponse, held, handed>>
  BY DEF FlashTransmits, Packets!TransmitPacket, vars, outVars
<1>2. /\ d \in Seq(Nat) /\ Len(d) = Packets!Size
      /\ \A k \in 1 .. Packets!Size : d[k] = transmitted * Packets!Size + k
  BY PacketFacts
<1> HIDE DEF d
<1>3. Total = transmitted * Packets!Size
  BY <1>1 DEF Total
<1>4. Total' = (transmitted + 1) * Packets!Size
  BY <1>1 DEF Total
<1>5. (transmitted + 1) * Packets!Size = transmitted * Packets!Size + Packets!Size
  BY Sizes DEF WireInv
<1>6. Total' = Total + Len(d)
  BY <1>2, <1>3, <1>4, <1>5
<1>7. \A k \in 1 .. Len(d) : d[k] = Total + k
  BY <1>2, <1>3
<1> QED BY <1>1, <1>2, <1>6, <1>7, NumberedSend

LEMMA HeartbeatNumbered ==
    ASSUME WireInv, WireInv', Numbered, ServerHeartbeat, ~clobbered'
    PROVE  Numbered'
<1> DEFINE d == From(sent', Len(sent))
<1>1. /\ sender = "thane" /\ sender' = sender
      /\ wire' = wire \o d /\ UNCHANGED <<buf, firstResponse, held, handed>>
  BY DEF ServerHeartbeat
<1>2. OutInv'
  BY DEF WireInv
<1>3. /\ d \in Seq(Nat) /\ Len(d) = Len(sent') - Len(sent)
      /\ Len(sent) \in Nat /\ Len(sent') \in Nat
      /\ \A k \in 1 .. Len(sent') - Len(sent) : d[k] = Len(sent) + k
  BY <1>2, SentFacts
<1> HIDE DEF d
<1>4. Total = Len(sent) /\ Total' = Len(sent')
  BY <1>1 DEF Total
<1>5. Total' = Total + Len(d) /\ \A k \in 1 .. Len(d) : d[k] = Total + k
  BY <1>3, <1>4
<1> QED BY <1>1, <1>3, <1>5, NumberedSend

LEMMA SocketDataNumbered ==
    ASSUME WireInv, Numbered, Packets!SocketData, UNCHANGED <<sender, sent>>
    PROVE  Numbered'
<1>1. PICK n \in 1 .. Len(wire) :
         buf' = buf \o SubSeq(wire, 1, n) /\ wire' = Packets!After(wire, n)
  BY DEF Packets!SocketData
<1>2. UNCHANGED <<transmitted, firstResponse, held, handed>>
  BY DEF Packets!SocketData
<1>3. Done' = Done /\ Place' = Place /\ Total' = Total
  BY <1>2 DEF Done, Place, Total
<1>4. /\ Place \in Nat /\ Len(buf) \in Nat /\ Len(wire) \in Nat /\ n \in Nat
      /\ n <= Len(wire) /\ n \in 0 .. Len(wire) /\ buf \in Seq(Nat) /\ wire \in Seq(Nat)
  BY NumberedNumbers DEF WireInv
<1> DEFINE d == SubSeq(wire, 1, n)
           rest == Packets!After(wire, n)
<1>5. d \in Seq(Nat) /\ Len(d) = n /\ \A k \in 1 .. n : d[k] = wire[k]
  BY <1>4, FrontFacts
<1>6. /\ rest \in Seq(Nat) /\ Len(rest) = Len(wire) - n
      /\ \A k \in 1 .. Len(wire) - n : rest[k] = wire[n + k]
  BY <1>4, AfterFacts
<1>7. buf' = buf \o d /\ wire' = rest
  BY <1>1
<1> HIDE DEF d, rest
<1>8. /\ \A k \in 1 .. Len(buf) : buf[k] = Place + k
      /\ \A k \in 1 .. Len(wire) : wire[k] = (Place + Len(buf)) + k
      /\ (Place + Len(buf)) + Len(wire) = Total
  BY DEF Numbered
<1>9. ASSUME NEW k \in 1 .. Len(d) PROVE d[k] = (Place + Len(buf)) + k
  <2>1. k \in 1 .. n /\ k \in 1 .. Len(wire)
    BY <1>4, <1>5, <1>9
  <2> QED BY <1>5, <1>8, <2>1
<1>10. /\ Len(buf \o d) = Len(buf) + Len(d)
       /\ \A k \in 1 .. Len(buf) + Len(d) : (buf \o d)[k] = Place + k
  BY <1>4, <1>5, <1>8, <1>9, JoinFacts
<1>11. Len(buf') = Len(buf) + n /\ \A k \in 1 .. Len(buf') : buf'[k] = Place + k
  BY <1>5, <1>7, <1>10
<1>12. ASSUME NEW k \in 1 .. Len(wire')
       PROVE  wire'[k] = (Place + Len(buf')) + k
  <2>1. k \in 1 .. Len(wire) - n /\ n + k \in 1 .. Len(wire)
    BY <1>4, <1>6, <1>7, <1>12
  <2>2. wire'[k] = (Place + Len(buf)) + (n + k)
    BY <1>6, <1>7, <1>8, <2>1
  <2>3. (Place + Len(buf)) + (n + k) = (Place + Len(buf')) + k
    BY <1>4, <1>11, <2>1
  <2> QED BY <2>2, <2>3
<1>13. (Place + Len(buf')) + Len(wire') = Total
  <2>1. Len(buf') = Len(buf) + n /\ Len(wire') = Len(wire) - n
    BY <1>6, <1>7, <1>11
  <2>2. (Place + (Len(buf) + n)) + (Len(wire) - n) = (Place + Len(buf)) + Len(wire)
    BY <1>4
  <2> QED BY <1>8, <2>1, <2>2
<1> QED BY <1>2, <1>3, <1>11, <1>12, <1>13 DEF Numbered

LEMMA HoldNumbered ==
    ASSUME WireInv, Numbered, Packets!HoldFirstLength, UNCHANGED <<sender, sent>>
    PROVE  Numbered'
<1> DEFINE L == LENGTHFIELDSIZE
<1>1. /\ firstResponse /\ Len(buf) > FirstLook
      /\ held' = SubSeq(buf, 1, L) /\ buf' = Packets!After(buf, L) /\ firstResponse' = FALSE
      /\ UNCHANGED <<transmitted, wire, handed>>
  BY DEF Packets!HoldFirstLength, Packets!LooksAhead
<1>2. held = <<>> /\ Len(held) = 0
  BY <1>1, NumberedNumbers DEF Numbered
<1>3. /\ Done \in Nat /\ Place = Done /\ Len(buf) \in Nat /\ Len(wire) \in Nat
      /\ L \in Nat /\ L <= Len(buf) /\ L \in 0 .. Len(buf) /\ buf \in Seq(Nat)
  BY <1>1, <1>2, NumberedNumbers, Sizes DEF WireInv
<1>4. held' \in Seq(Nat) /\ Len(held') = L /\ \A k \in 1 .. L : held'[k] = buf[k]
  BY <1>1, <1>3, FrontFacts
<1>5. /\ Len(buf') = Len(buf) - L
      /\ \A k \in 1 .. Len(buf) - L : buf'[k] = buf[L + k]
  BY <1>1, <1>3, AfterFacts
<1> HIDE DEF L
<1>6. Done' = Done /\ Place' = Done + L /\ Total' = Total
  BY <1>1, <1>4 DEF Done, Place, Total
<1>7. /\ \A k \in 1 .. Len(buf) : buf[k] = Done + k
      /\ \A k \in 1 .. Len(wire) : wire[k] = (Done + Len(buf)) + k
      /\ (Done + Len(buf)) + Len(wire) = Total
  BY <1>3 DEF Numbered
<1>8. ASSUME NEW k \in 1 .. Len(held') PROVE held'[k] = Done + k
  <2>1. k \in 1 .. L /\ k \in 1 .. Len(buf)
    BY <1>3, <1>4, <1>8
  <2> QED BY <1>4, <1>7, <2>1
<1>9. ASSUME NEW k \in 1 .. Len(buf') PROVE buf'[k] = (Done + L) + k
  <2>1. k \in 1 .. Len(buf) - L /\ L + k \in 1 .. Len(buf)
    BY <1>3, <1>5, <1>9
  <2>2. buf'[k] = Done + (L + k)
    BY <1>5, <1>7, <2>1
  <2> QED BY <1>3, <2>1, <2>2
<1>10. (Done + L) + Len(buf') = Done + Len(buf)
  BY <1>3, <1>5
<1>11. /\ held' # <<>> => Len(held') = LENGTHFIELDSIZE
       /\ firstResponse' => held' = <<>>
       /\ held' \in Seq(Nat) /\ handed' \in Seq(Seq(Nat))
       /\ \A k \in 1 .. Len(handed') : handed'[k] = Packets!Payload(k)
  BY <1>1, <1>4 DEF Numbered, L
<1>12. /\ \A k \in 1 .. Len(held') : held'[k] = Done' + k
       /\ \A k \in 1 .. Len(buf') : buf'[k] = Place' + k
       /\ \A k \in 1 .. Len(wire') : wire'[k] = (Place' + Len(buf')) + k
       /\ (Place' + Len(buf')) + Len(wire') = Total'
  BY <1>1, <1>6, <1>7, <1>8, <1>9, <1>10
<1> QED BY <1>11, <1>12 DEF Numbered

\* The packet at hand: its length is where the stream has it, and so is what
\* follows it.
LEMMA AtHand ==
    ASSUME WireInv, Numbered, Packets!MorePackets
    PROVE  /\ Packets!Length[1] = Done + 1
           /\ Packets!Behind \in Seq(Nat) /\ Len(Packets!Behind) \in Nat
           /\ Len(Packets!Behind) + LENGTHFIELDSIZE = Len(held) + Len(buf)
           /\ \A k \in 1 .. Len(Packets!Behind) :
                 Packets!Behind[k] = (Done + LENGTHFIELDSIZE) + k
<1> DEFINE L == LENGTHFIELDSIZE
<1>1. /\ Done \in Nat /\ Len(held) \in Nat /\ Place = Done + Len(held)
      /\ Len(buf) \in Nat /\ buf \in Seq(Nat) /\ L \in Nat /\ L >= 1
      /\ held = <<>> => Len(held) = 0
  BY NumberedNumbers, Sizes DEF WireInv
<1>2. \A k \in 1 .. Len(buf) : buf[k] = Place + k
  BY DEF Numbered
<1>3. CASE held = <<>>
  <2>1. Len(buf) >= Packets!Size /\ L <= Len(buf) /\ L \in 0 .. Len(buf)
    BY <1>1, <1>3, Sizes DEF Packets!MorePackets
  <2>2. /\ Packets!Behind = Packets!After(buf, L)
        /\ Packets!Length = SubSeq(buf, 1, L)
    BY <1>3 DEF Packets!Behind, Packets!Length
  <2>3. SubSeq(buf, 1, L)[1] = buf[1]
    BY <1>1, <2>1, FrontFacts
  <2>4. /\ Packets!After(buf, L) \in Seq(Nat)
        /\ Len(Packets!After(buf, L)) = Len(buf) - L
        /\ \A k \in 1 .. Len(buf) - L : Packets!After(buf, L)[k] = buf[L + k]
    BY <1>1, <2>1, AfterFacts
  <2> HIDE DEF L
  <2>5. buf[1] = Done + 1
    BY <1>1, <1>2, <1>3, <2>1
  <2>6. ASSUME NEW k \in 1 .. Len(buf) - L PROVE buf[L + k] = (Done + L) + k
    <3>1. L + k \in 1 .. Len(buf)
      BY <1>1, <2>1, <2>6
    <3>2. buf[L + k] = Done + (L + k)
      BY <1>1, <1>2, <1>3, <3>1
    <3> QED BY <1>1, <2>6, <3>2
  <2>7. Len(buf) - L \in Nat /\ (Len(buf) - L) + L = Len(held) + Len(buf)
    BY <1>1, <1>3, <2>1
  <2> QED BY <2>2, <2>3, <2>4, <2>5, <2>6, <2>7 DEF L
<1>4. CASE held # <<>>
  <2>1. /\ Packets!Behind = buf /\ Packets!Length = held /\ Len(held) = L
    BY <1>4 DEF Packets!Behind, Packets!Length, Numbered
  <2>2. held[1] = Done + 1
    BY <1>1, <2>1 DEF Numbered
  <2> QED BY <1>1, <1>2, <2>1, <2>2
<1> QED BY <1>3, <1>4

\* readPacket is called with the next packet of the stream.
LEMMA HandedPacket ==
    ASSUME WireInv, Numbered, Packets!MorePackets, Len(Packets!Behind) >= PACKETSIZE
    PROVE  /\ SubSeq(Packets!Behind, 1, PACKETSIZE) \in Seq(Nat)
           /\ SubSeq(Packets!Behind, 1, PACKETSIZE) = Packets!Payload(Len(handed) + 1)
<1> DEFINE b == Packets!Behind
           s == SubSeq(b, 1, PACKETSIZE)
           m == Done + LENGTHFIELDSIZE
<1>1. /\ b \in Seq(Nat) /\ Len(b) \in Nat
      /\ \A k \in 1 .. Len(b) : b[k] = m + k
  BY AtHand
<1>2. PACKETSIZE \in Nat /\ PACKETSIZE \in 0 .. Len(b) /\ m \in Nat /\ Len(handed) \in Nat
  BY <1>1, NumberedNumbers, Sizes
<1>3. s \in Seq(Nat) /\ Len(s) = PACKETSIZE /\ \A k \in 1 .. PACKETSIZE : s[k] = b[k]
  BY <1>1, <1>2, FrontFacts
<1>4. (Len(handed) + 1) - 1 = Len(handed)
  BY <1>2
<1>5. Packets!Payload(Len(handed) + 1) = Packets!Run(m, PACKETSIZE)
  BY <1>4 DEF Packets!Payload, Done
<1>6. /\ Packets!Run(m, PACKETSIZE) \in Seq(Nat) /\ Len(Packets!Run(m, PACKETSIZE)) = PACKETSIZE
      /\ \A k \in 1 .. PACKETSIZE : Packets!Run(m, PACKETSIZE)[k] = m + k
  BY <1>2, RunFacts
<1> HIDE DEF b, s, m
<1>7. ASSUME NEW k \in 1 .. PACKETSIZE PROVE s[k] = Packets!Run(m, PACKETSIZE)[k]
  <2>1. k \in 1 .. Len(b)
    BY <1>1, <1>2, <1>7
  <2> QED BY <1>1, <1>3, <1>6, <1>7, <2>1
<1>8. s = Packets!Run(m, PACKETSIZE)
  BY <1>3, <1>6, <1>7, SeqEqual
<1> QED BY <1>3, <1>5, <1>8 DEF s, b

\* A whole packet is taken out of the buffer.
LEMMA ConsumeNumbered ==
    ASSUME WireInv, Numbered, NEW more, Packets!Consume(more), Packets!Handed,
           UNCHANGED <<sender, sent>>
    PROVE  Numbered'
<1> DEFINE b == Packets!Behind
           rest == Packets!After(b, PACKETSIZE)
           s == SubSeq(b, 1, PACKETSIZE)
<1>1. /\ Packets!MorePackets /\ Len(b) >= PACKETSIZE
      /\ buf' = rest /\ held' = <<>> /\ handed' = Append(handed, s)
      /\ UNCHANGED <<transmitted, wire, firstResponse>>
  BY DEF Packets!Consume, Packets!Handed
<1>2. /\ b \in Seq(Nat) /\ Len(b) \in Nat
      /\ Len(b) + LENGTHFIELDSIZE = Len(held) + Len(buf)
      /\ \A k \in 1 .. Len(b) : b[k] = (Done + LENGTHFIELDSIZE) + k
  BY <1>1, AtHand
<1>3. /\ Done \in Nat /\ Len(held) \in Nat /\ Place = Done + Len(held) /\ Total \in Nat
      /\ Len(buf) \in Nat /\ Len(wire) \in Nat /\ Len(handed) \in Nat
  BY NumberedNumbers
<1>4. /\ PACKETSIZE \in Nat /\ LENGTHFIELDSIZE \in Nat /\ Packets!Size \in Nat
      /\ Packets!Size = LENGTHFIELDSIZE + PACKETSIZE
  BY Sizes
<1>5. /\ rest \in Seq(Nat) /\ Len(rest) = Len(b) - PACKETSIZE
      /\ \A k \in 1 .. Len(b) - PACKETSIZE : rest[k] = b[PACKETSIZE + k]
  BY <1>1, <1>2, <1>4, AfterFacts
<1>6. s \in Seq(Nat) /\ s = Packets!Payload(Len(handed) + 1)
  BY <1>1, HandedPacket
<1>7. handed \in Seq(Seq(Nat)) /\ \A k \in 1 .. Len(handed) : handed[k] = Packets!Payload(k)
  BY DEF Numbered
<1> HIDE DEF b, rest, s
<1>8. /\ handed' \in Seq(Seq(Nat)) /\ Len(handed') = Len(handed) + 1
      /\ handed'[Len(handed) + 1] = s
      /\ \A k \in 1 .. Len(handed) : handed'[k] = handed[k]
  BY <1>1, <1>6, <1>7, AppendProperties
<1>9. Len(held') = 0 /\ held' = <<>> /\ held' \in Seq(Nat)
  BY <1>1, EmptySeq
<1>10. Done' = Done + Packets!Size
  <2>1. Done' = (Len(handed) + 1) * Packets!Size
    BY <1>8 DEF Done
  <2>2. (Len(handed) + 1) * Packets!Size = Len(handed) * Packets!Size + Packets!Size
    BY <1>3, <1>4
  <2> QED BY <2>1, <2>2 DEF Done
<1>11. Place' = Done + Packets!Size /\ Total' = Total
  <2>1. Done + Packets!Size \in Nat
    BY <1>3, <1>4
  <2>2. Place' = Done' + Len(held')
    BY DEF Place
  <2>3. Total' = Total
    BY <1>1 DEF Total
  <2> QED BY <1>9, <1>10, <2>1, <2>2, <2>3
<1>12. ASSUME NEW k \in 1 .. Len(handed') PROVE handed'[k] = Packets!Payload(k)
  <2>1. k \in 1 .. Len(handed) \/ k = Len(handed) + 1
    BY <1>3, <1>8, <1>12
  <2>2. CASE k = Len(handed) + 1
    BY <1>6, <1>8, <2>2, Zenon
  <2>3. CASE k \in 1 .. Len(handed)
    BY <1>7, <1>8, <2>3
  <2> QED BY <2>1, <2>2, <2>3
<1>13. (Done + Packets!Size) + Len(buf') = Place + Len(buf)
  <2>1. Len(buf') = Len(b) - PACKETSIZE
    BY <1>1, <1>5
  <2>2. (Done + (LENGTHFIELDSIZE + PACKETSIZE)) + (Len(b) - PACKETSIZE)
           = Done + (Len(b) + LENGTHFIELDSIZE)
    BY <1>2, <1>3, <1>4
  <2>3. Done + (Len(held) + Len(buf)) = Place + Len(buf)
    BY <1>3
  <2> QED BY <1>2, <1>4, <2>1, <2>2, <2>3
<1>14. ASSUME NEW k \in 1 .. Len(buf') PROVE buf'[k] = (Done + Packets!Size) + k
  <2>1. k \in Nat /\ k \in 1 .. Len(b) - PACKETSIZE /\ PACKETSIZE + k \in 1 .. Len(b)
    BY <1>1, <1>2, <1>4, <1>5, <1>14
  <2>2. buf'[k] = (Done + LENGTHFIELDSIZE) + (PACKETSIZE + k)
    BY <1>1, <1>2, <1>5, <2>1
  <2>3. (Done + LENGTHFIELDSIZE) + (PACKETSIZE + k)
           = (Done + (LENGTHFIELDSIZE + PACKETSIZE)) + k
    BY <1>3, <1>4, <2>1
  <2> QED BY <1>4, <2>2, <2>3
<1>15. /\ \A k \in 1 .. Len(wire) : wire[k] = (Place + Len(buf)) + k
       /\ (Place + Len(buf)) + Len(wire) = Total
  BY DEF Numbered
<1>16. /\ \A k \in 1 .. Len(held') : held'[k] = Done' + k
       /\ \A k \in 1 .. Len(buf') : buf'[k] = Place' + k
       /\ \A k \in 1 .. Len(wire') : wire'[k] = (Place' + Len(buf')) + k
       /\ (Place' + Len(buf')) + Len(wire') = Total'
  BY <1>1, <1>9, <1>11, <1>13, <1>14, <1>15
<1> QED BY <1>8, <1>9, <1>12, <1>16 DEF Numbered

\* The loop never takes the packet at hand for an empty one.
LEMMA NeverEmpty ==
    ASSUME WireInv, Numbered, client = "game", Packets!MorePackets
    PROVE  ~Packets!MayBeZero(Packets!Length)
<1>1. Packets!Length[1] = Len(handed) * Packets!Size + 1
  BY AtHand DEF Done
<1>2. Len(handed) \in Nat /\ Packets!Size \in Nat \ {0}
  BY NumberedNumbers, Sizes
<1>3. \A h \in Nat : \A z \in Nat \ {0} : (h * z + 1) % z = 1 % z
  OBVIOUS
<1>4. Packets!Length[1] % Packets!Size = 1 % Packets!Size
  BY <1>1, <1>2, <1>3
<1> QED BY <1>4 DEF Packets!MayBeZero

LEMMA ReadNumbered ==
    ASSUME WireInv, Numbered, client = "game", Receives, ~torn'
    PROVE  Numbered'
<1>1. sender' = sender /\ sent' = sent
  BY DEF Receives, vars, outVars
<1>2. CASE Packets!SocketData
  BY <1>1, <1>2, SocketDataNumbered
<1>3. CASE Packets!AnswerPolicyRequest
  BY <1>3 DEF Packets!AnswerPolicyRequest, Packets!IsPolicyMark
<1>4. CASE Packets!HoldFirstLength
  BY <1>1, <1>4, HoldNumbered
<1>5. CASE Packets!LookNoFurther \/ Packets!ReadEnds
  <2>1. UNCHANGED <<sender, transmitted, wire, buf, firstResponse, held, handed, sent>>
    BY <1>1, <1>5 DEF Packets!LookNoFurther, Packets!ReadEnds
  <2> QED BY <2>1, NumberedFrame
<1>6. CASE Packets!SkipEmpty
  BY <1>6, NeverEmpty DEF Packets!SkipEmpty, Packets!Consume
<1>7. CASE Packets!ReadPacket
  BY <1>1, <1>7, ConsumeNumbered DEF Packets!ReadPacket
<1>8. CASE Packets!ReadPacketThrows
  BY <1>1, <1>8, ConsumeNumbered DEF Packets!ReadPacketThrows
<1>9. CASE Packets!ReadTorn
  BY <1>9 DEF Packets!ReadTorn
<1> QED BY <1>2, <1>3, <1>4, <1>5, <1>6, <1>7, <1>8, <1>9
        DEF Receives, Packets!Receive, Packets!ReadPackets

LEMMA DamageStays ==
    ASSUME WireInv, [StreamNext]_streamVars
    PROVE  (torn => torn') /\ (clobbered => clobbered')
<1>1. CASE UNCHANGED streamVars
  BY <1>1 DEF streamVars, vars, outVars, Packets!vars
<1>2. CASE FlashTransmits
  BY <1>2 DEF FlashTransmits, Packets!TransmitPacket, vars, outVars
<1>3. CASE ServerTransmits
  BY <1>3 DEF ServerTransmits, WriteBytes
<1>4. CASE ServerHeartbeat
  BY <1>4 DEF ServerHeartbeat, Transfer
<1>5. CASE Receives
  BY <1>5 DEF Receives, vars, outVars, Packets!Receive, Packets!SocketData,
     Packets!ReadPackets, Packets!AnswerPolicyRequest, Packets!HoldFirstLength,
     Packets!LookNoFurther, Packets!SkipEmpty, Packets!ReadPacket,
     Packets!ReadPacketThrows, Packets!Consume, Packets!ReadTorn, Packets!ReadEnds
<1> QED BY <1>1, <1>2, <1>3, <1>4, <1>5 DEF StreamNext

LEMMA NumberedNext ==
    WireInv /\ WireInv' /\ NumberedInv /\ [StreamNext]_streamVars => NumberedInv'
<1> SUFFICES ASSUME WireInv, WireInv', NumberedInv, [StreamNext]_streamVars, Undisturbed'
             PROVE  Numbered'
  BY DEF NumberedInv
<1>1. ~torn' /\ ~clobbered' /\ client = "game" /\ ~torn /\ ~clobbered
  BY DamageStays, WireStays, Zenon DEF Undisturbed
<1>2. Numbered
  BY <1>1 DEF NumberedInv, Undisturbed
<1>3. CASE UNCHANGED streamVars
  <2>1. UNCHANGED <<sender, transmitted, wire, buf, firstResponse, held, handed, sent>>
    BY <1>3 DEF streamVars, vars, outVars, Packets!vars
  <2> QED BY <1>2, <2>1, NumberedFrame
<1>4. CASE FlashTransmits
  BY <1>2, <1>4, FlashNumbered
<1>5. CASE ServerTransmits
  <2>1. UNCHANGED <<sender, wire, buf, firstResponse, held, handed, sent>>
        /\ sender = "thane"
    BY <1>5 DEF ServerTransmits, WriteBytes
  <2>2. Done' = Done /\ Place' = Place /\ Total' = Total
    BY <2>1 DEF Done, Place, Total
  <2> QED BY <1>2, <2>1, <2>2 DEF Numbered
<1>6. CASE ServerHeartbeat
  BY <1>1, <1>2, <1>6, HeartbeatNumbered
<1>7. CASE Receives
  BY <1>1, <1>2, <1>7, ReadNumbered
<1> QED BY <1>3, <1>4, <1>5, <1>6, <1>7 DEF StreamNext

(* NetworkConnection.as:158, 239; Socket.as:114: the packets read are the   *)
(* packets sent, in order, whatever the sizes, until the server transmits   *)
(* while output is left unsent or the first packet is read too early.       *)
THEOREM StreamStaysIntact == StreamSpec => []PacketsIntact
<1>1. StreamInit => WireInv /\ NumberedInv
  BY WireInit, NumberedInit
<1>2. WireInv /\ NumberedInv /\ [StreamNext]_streamVars => (WireInv /\ NumberedInv)'
  BY WireNext, NumberedNext
<1>3. WireInv /\ NumberedInv => PacketsIntact
  BY DEF NumberedInv, Undisturbed, Numbered, PacketsIntact, Packets!PacketsIntact
<1> QED BY <1>1, <1>2, <1>3, PTL DEF StreamSpec

-----------------------------------------------------------------------------
(* What is left in the buffer when a look at it is over.                    *)
LeftInv == WireInv /\ NoPacketLeftBehind

LEMMA LeftNext == LeftInv /\ [StreamNext]_streamVars => NoPacketLeftBehind'
<1> SUFFICES ASSUME LeftInv, [StreamNext]_streamVars, client' = "game", reading' = "no", ~threw'
             PROVE  Len(buf') < Packets!Size
  BY DEF NoPacketLeftBehind, Packets!NoPacketLeftBehind
<1>1. client = "game"
  BY WireStays DEF LeftInv
<1>2. CASE reading = "no" /\ threw' = threw /\ buf' = buf
  BY <1>1, <1>2 DEF LeftInv, NoPacketLeftBehind, Packets!NoPacketLeftBehind
<1>3. CASE UNCHANGED streamVars
  BY <1>2, <1>3 DEF streamVars, Packets!vars
<1>4. CASE FlashTransmits
  BY <1>2, <1>4 DEF FlashTransmits, Packets!TransmitPacket
<1>5. CASE ServerTransmits \/ ServerHeartbeat
  BY <1>2, <1>5 DEF ServerTransmits, ServerHeartbeat
<1>6. CASE Packets!ReadEnds
  <2>1. buf' = buf /\ ~(Len(buf) >= Packets!Size)
    BY <1>6 DEF Packets!ReadEnds, Packets!MorePackets
  <2>2. Len(buf) \in Nat /\ Packets!Size \in Nat
    BY Sizes, LenProperties DEF LeftInv, WireInv
  <2> QED BY <2>1, <2>2
<1>7. CASE Packets!AnswerPolicyRequest
  BY <1>1, <1>7 DEF Packets!AnswerPolicyRequest, Packets!IsPolicyMark
<1>8. CASE \/ Packets!SocketData \/ Packets!HoldFirstLength \/ Packets!LookNoFurther
           \/ Packets!SkipEmpty \/ Packets!ReadPacket \/ Packets!ReadPacketThrows
           \/ Packets!ReadTorn
  BY <1>8 DEF Packets!SocketData, Packets!HoldFirstLength, Packets!LookNoFurther,
     Packets!SkipEmpty, Packets!ReadPacket, Packets!ReadPacketThrows, Packets!Consume,
     Packets!ReadTorn
<1>9. CASE Receives
  BY <1>6, <1>7, <1>8, <1>9 DEF Receives, Packets!Receive, Packets!ReadPackets
<1> QED BY <1>3, <1>4, <1>5, <1>9 DEF StreamNext

(* NetworkConnection.as:239: when readPackets() is over, no whole packet is *)
(* left behind to wait for more data, unless an exception ended it.         *)
THEOREM NoPacketWaits == StreamSpec => []NoPacketLeftBehind
<1>1. StreamInit => LeftInv
  <2> SUFFICES ASSUME StreamInit PROVE Len(buf) < Packets!Size
    BY WireInit DEF LeftInv, NoPacketLeftBehind, Packets!NoPacketLeftBehind
  <2>1. buf = <<>>
    BY DEF StreamInit, Packets!Init
  <2> QED BY <2>1, EmptySeq, Sizes
<1>2. LeftInv /\ [StreamNext]_streamVars => LeftInv'
  BY WireNext, LeftNext DEF LeftInv
<1>3. LeftInv => NoPacketLeftBehind
  BY DEF LeftInv
<1> QED BY <1>1, <1>2, <1>3, PTL DEF StreamSpec

-----------------------------------------------------------------------------
(* A policy request: until it is answered the buffer and the wire hold its  *)
(* bytes in order, and what has arrived when a look is over is too short to *)
(* be looked at; afterwards its first byte is nowhere.                      *)
Unanswered ==
    /\ answered = 0 /\ firstResponse /\ held = <<>>
    /\ \A k \in 1 .. Len(buf) : buf[k] = k
    /\ \A k \in 1 .. Len(wire) : wire[k] = Len(buf) + k
    /\ Len(buf) + Len(wire) = RequestSize
    /\ reading # "first" => Len(buf) <= FirstLook

Answered ==
    /\ answered = 1
    /\ \A k \in 1 .. Len(buf) : buf[k] # 1
    /\ \A k \in 1 .. Len(wire) : wire[k] # 1

PolicyInv ==
    /\ client = "policy" => Unanswered \/ Answered
    /\ client = "game" => answered = 0

LEMMA PolicyInit == StreamInit => PolicyInv
<1> SUFFICES ASSUME StreamInit PROVE PolicyInv
  OBVIOUS
<1>1. /\ buf = <<>> /\ held = <<>> /\ answered = 0 /\ firstResponse /\ reading = "no"
      /\ client = "policy" => wire = Packets!Run(0, RequestSize)
  BY DEF StreamInit, Packets!Init
<1>2. /\ Len(Packets!Run(0, RequestSize)) = RequestSize
      /\ \A k \in 1 .. RequestSize : Packets!Run(0, RequestSize)[k] = 0 + k
      /\ Len(buf) = 0 /\ RequestSize \in Nat /\ FirstLook \in Nat
  BY <1>1, Sizes, RunFacts, EmptySeq
<1> QED BY <1>1, <1>2 DEF PolicyInv, Unanswered

\* The first bytes of an unanswered request are those it is known by.
LEMMA MarkFacts ==
    ASSUME WireInv, client = "policy", Packets!LooksAhead
    PROVE  /\ Unanswered => Packets!IsPolicyMark(SubSeq(buf, 1, LENGTHFIELDSIZE))
           /\ Answered => ~Packets!IsPolicyMark(SubSeq(buf, 1, LENGTHFIELDSIZE))
<1> DEFINE L == LENGTHFIELDSIZE
           s == SubSeq(buf, 1, L)
           r == Packets!Run(0, L)
<1>1. /\ L \in Nat /\ L >= 1 /\ Len(buf) \in Nat /\ L <= Len(buf)
      /\ L \in 0 .. Len(buf) /\ buf \in Seq(Nat)
  BY Sizes, LenProperties DEF WireInv, Packets!LooksAhead
<1>2. s \in Seq(Nat) /\ Len(s) = L /\ \A k \in 1 .. L : s[k] = buf[k]
  BY <1>1, FrontFacts
<1>3. r \in Seq(Nat) /\ Len(r) = L /\ \A k \in 1 .. L : r[k] = 0 + k
  BY <1>1, RunFacts
<1>4. Packets!IsPolicyMark(s) <=> s = r
  BY DEF Packets!IsPolicyMark
<1> HIDE DEF L, s, r
<1>5. ASSUME Unanswered PROVE s = r
  <2>1. ASSUME NEW k \in 1 .. L PROVE s[k] = r[k]
    <3>1. k \in 1 .. Len(buf) /\ 0 + k = k
      BY <1>1, <2>1
    <3> QED BY <1>2, <1>3, <1>5, <2>1, <3>1 DEF Unanswered
  <2> QED BY <1>2, <1>3, <2>1, SeqEqual
<1>6. ASSUME Answered PROVE s # r
  <2>1. 1 \in 1 .. L /\ 1 \in 1 .. Len(buf)
    BY <1>1
  <2>2. s[1] # 1 /\ r[1] = 1
    BY <1>2, <1>3, <1>6, <2>1 DEF Answered
  <2> QED BY <2>2
<1> QED BY <1>4, <1>5, <1>6 DEF s, L

LEMMA UnansweredNext ==
    ASSUME WireInv, client = "policy", Unanswered, Receives
    PROVE  Unanswered' \/ Answered'
<1>1. /\ buf \in Seq(Nat) /\ wire \in Seq(Nat) /\ Len(buf) \in Nat /\ Len(wire) \in Nat
      /\ FirstLook \in Nat /\ RequestSize \in Nat /\ FirstLook < Packets!Size
      /\ LENGTHFIELDSIZE \in Nat /\ LENGTHFIELDSIZE >= 1 /\ LENGTHFIELDSIZE <= FirstLook
      /\ Packets!Size \in Nat
  BY Sizes, LenProperties DEF WireInv
<1>2. CASE Packets!SocketData
  <2>1. PICK n \in 1 .. Len(wire) :
           buf' = buf \o SubSeq(wire, 1, n) /\ wire' = Packets!After(wire, n)
    BY <1>2 DEF Packets!SocketData
  <2>2. /\ reading' = "first" /\ UNCHANGED <<answered, firstResponse, held>>
    BY <1>2 DEF Packets!SocketData
  <2> DEFINE d == SubSeq(wire, 1, n)
             rest == Packets!After(wire, n)
  <2>3. n \in Nat /\ n <= Len(wire) /\ n \in 0 .. Len(wire)
    BY <1>1
  <2>4. d \in Seq(Nat) /\ Len(d) = n /\ \A k \in 1 .. n : d[k] = wire[k]
    BY <1>1, <2>3, FrontFacts
  <2>5. /\ Len(rest) = Len(wire) - n
        /\ \A k \in 1 .. Len(wire) - n : rest[k] = wire[n + k]
    BY <1>1, <2>3, AfterFacts
  <2>6. buf' = buf \o d /\ wire' = rest
    BY <2>1
  <2> HIDE DEF d, rest
  <2> DEFINE m == 0
  <2>0. m \in Nat /\ m = 0
    OBVIOUS
  <2> HIDE DEF m
  <2>7. /\ \A k \in 1 .. Len(buf) : buf[k] = m + k
        /\ \A k \in 1 .. Len(wire) : wire[k] = Len(buf) + k
    BY <2>0 DEF Unanswered
  <2>8. ASSUME NEW k \in 1 .. Len(d) PROVE d[k] = (m + Len(buf)) + k
    <3>1. k \in 1 .. n /\ k \in 1 .. Len(wire) /\ m + Len(buf) = Len(buf)
      BY <2>0, <1>1, <2>3, <2>4, <2>8
    <3> QED BY <2>4, <2>7, <3>1
  <2>9. /\ Len(buf \o d) = Len(buf) + Len(d)
        /\ \A k \in 1 .. Len(buf) + Len(d) : (buf \o d)[k] = m + k
    BY <2>0, <1>1, <2>4, <2>7, <2>8, JoinFacts
  <2>10. Len(buf') = Len(buf) + n /\ \A k \in 1 .. Len(buf') : buf'[k] = k
    BY <2>0, <2>4, <2>6, <2>9
  <2>11. ASSUME NEW k \in 1 .. Len(wire') PROVE wire'[k] = Len(buf') + k
    <3>1. k \in 1 .. Len(wire) - n /\ n + k \in 1 .. Len(wire)
      BY <1>1, <2>3, <2>5, <2>6, <2>11
    <3>2. wire'[k] = Len(buf) + (n + k)
      BY <2>5, <2>6, <2>7, <3>1
    <3> QED BY <1>1, <2>3, <2>10, <3>1, <3>2
  <2>12. Len(buf') + Len(wire') = RequestSize
    <3>1. Len(wire') = Len(wire) - n /\ Len(buf) + Len(wire) = RequestSize
      BY <2>5, <2>6 DEF Unanswered
    <3>2. (Len(buf) + n) + (Len(wire) - n) = Len(buf) + Len(wire)
      BY <1>1, <2>3
    <3> QED BY <2>10, <3>1, <3>2
  <2>13. answered' = 0 /\ firstResponse' /\ held' = <<>>
    BY <2>2 DEF Unanswered
  <2> QED BY <2>2, <2>10, <2>11, <2>12, <2>13 DEF Unanswered
<1>3. CASE Packets!AnswerPolicyRequest
  <2> DEFINE L == LENGTHFIELDSIZE
             rest == Packets!After(buf, L)
  <2>1. /\ Len(buf) > FirstLook /\ buf' = rest /\ wire' = wire /\ answered' = answered + 1
    BY <1>3 DEF Packets!AnswerPolicyRequest, Packets!LooksAhead
  <2>2. L <= Len(buf)
    BY <1>1, <2>1
  <2>3. Len(rest) = Len(buf) - L /\ \A k \in 1 .. Len(buf) - L : rest[k] = buf[L + k]
    BY <1>1, <2>2, AfterFacts
  <2> HIDE DEF rest, L
  <2>4. ASSUME NEW k \in 1 .. Len(buf') PROVE buf'[k] # 1
    <3>1. k \in 1 .. Len(buf) - L /\ L + k \in 1 .. Len(buf) /\ L + k # 1
      BY <1>1, <2>1, <2>2, <2>3, <2>4 DEF L
    <3>2. buf'[k] = L + k
      BY <2>1, <2>3, <3>1 DEF Unanswered
    <3> QED BY <3>1, <3>2
  <2>5. ASSUME NEW k \in 1 .. Len(wire') PROVE wire'[k] # 1
    <3>1. wire'[k] = Len(buf) + k /\ k \in 1 .. Len(wire)
      BY <2>1, <2>5 DEF Unanswered
    <3>2. Len(buf) + k # 1
      BY <1>1, <2>1, <3>1
    <3> QED BY <3>1, <3>2
  <2>6. answered' = 1
    BY <2>1 DEF Unanswered
  <2> QED BY <2>4, <2>5, <2>6 DEF Answered
<1>4. CASE Packets!HoldFirstLength
  BY <1>4, MarkFacts DEF Packets!HoldFirstLength
<1>5. CASE Packets!LookNoFurther
  <2>1. /\ UNCHANGED <<answered, firstResponse, held, buf, wire>>
        /\ ~Packets!LooksAhead
    BY <1>5 DEF Packets!LookNoFurther
  <2>2. Len(buf) <= FirstLook
    BY <1>1, <2>1 DEF Packets!LooksAhead, Unanswered
  <2> QED BY <2>1, <2>2 DEF Unanswered
<1>6. reading = "loop" => ~Packets!MorePackets
  <2>1. held = <<>> /\ (reading = "loop" => Len(buf) <= FirstLook)
    BY DEF Unanswered
  <2> QED BY <1>1, <2>1 DEF Packets!MorePackets
<1>7. CASE Packets!SkipEmpty \/ Packets!ReadPacket \/ Packets!ReadPacketThrows \/ Packets!ReadTorn
  BY <1>6, <1>7 DEF Packets!SkipEmpty, Packets!ReadPacket, Packets!ReadPacketThrows,
     Packets!Consume, Packets!ReadTorn
<1>8. CASE Packets!ReadEnds
  <2>1. UNCHANGED <<answered, firstResponse, held, buf, wire>> /\ reading = "loop"
    BY <1>8 DEF Packets!ReadEnds
  <2> QED BY <2>1 DEF Unanswered
<1> QED BY <1>2, <1>3, <1>4, <1>5, <1>7, <1>8
        DEF Receives, Packets!Receive, Packets!ReadPackets

\* Bytes that are dropped from the front leave no new ones.
LEMMA AfterAnswered ==
    ASSUME NEW s \in Seq(Nat), NEW n \in Nat, \A k \in 1 .. Len(s) : s[k] # 1, n <= Len(s)
    PROVE  \A k \in 1 .. Len(Packets!After(s, n)) : Packets!After(s, n)[k] # 1
<1> DEFINE a == Packets!After(s, n)
<1>1. Len(s) \in Nat /\ Len(a) = Len(s) - n /\ \A k \in 1 .. Len(s) - n : a[k] = s[n + k]
  BY AfterFacts, LenProperties
<1> HIDE DEF a
<1>2. ASSUME NEW k \in 1 .. Len(a) PROVE a[k] # 1
  <2>1. k \in 1 .. Len(s) - n /\ n + k \in 1 .. Len(s)
    BY <1>1, <1>2
  <2> QED BY <1>1, <2>1
<1> QED BY <1>2 DEF a

LEMMA AnsweredNext ==
    ASSUME WireInv, client = "policy", Answered, Receives
    PROVE  Answered'
<1>1. /\ buf \in Seq(Nat) /\ wire \in Seq(Nat) /\ Len(buf) \in Nat /\ Len(wire) \in Nat
      /\ FirstLook \in Nat /\ LENGTHFIELDSIZE \in Nat /\ LENGTHFIELDSIZE <= FirstLook
      /\ PACKETSIZE \in Nat /\ Packets!Size \in Nat /\ LENGTHFIELDSIZE <= Packets!Size
  BY Sizes, LenProperties DEF WireInv
<1>2. CASE Packets!SocketData
  <2>1. PICK n \in 1 .. Len(wire) :
           buf' = buf \o SubSeq(wire, 1, n) /\ wire' = Packets!After(wire, n)
    BY <1>2 DEF Packets!SocketData
  <2>2. answered' = 1
    BY <1>2 DEF Packets!SocketData, Answered
  <2> DEFINE d == SubSeq(wire, 1, n)
  <2>3. n \in Nat /\ n <= Len(wire) /\ n \in 0 .. Len(wire)
    BY <1>1
  <2>4. d \in Seq(Nat) /\ Len(d) = n /\ \A k \in 1 .. n : d[k] = wire[k]
    BY <1>1, <2>3, FrontFacts
  <2>5. \A k \in 1 .. Len(wire') : wire'[k] # 1
    BY <1>1, <2>1, <2>3, AfterAnswered DEF Answered
  <2>6. buf' = buf \o d
    BY <2>1
  <2> HIDE DEF d
  <2>7. /\ Len(buf \o d) = Len(buf) + Len(d)
        /\ \A k \in 1 .. Len(buf) + Len(d) :
              (buf \o d)[k] = IF k <= Len(buf) THEN buf[k] ELSE d[k - Len(buf)]
    BY <1>1, <2>4, ConcatProperties
  <2>8. ASSUME NEW k \in 1 .. Len(buf') PROVE buf'[k] # 1
    <3>1. k \in 1 .. Len(buf) + n
      BY <2>4, <2>6, <2>7, <2>8
    <3>2. CASE k <= Len(buf)
      <4>1. k \in 1 .. Len(buf)
        BY <1>1, <2>3, <3>1, <3>2
      <4> QED BY <2>4, <2>6, <2>7, <3>1, <3>2, <4>1 DEF Answered
    <3>3. CASE ~(k <= Len(buf))
      <4>1. k - Len(buf) \in 1 .. n /\ k - Len(buf) \in 1 .. Len(wire)
        BY <1>1, <2>3, <3>1, <3>3
      <4>2. buf'[k] = wire[k - Len(buf)]
        BY <2>4, <2>6, <2>7, <3>1, <3>3, <4>1
      <4> QED BY <4>1, <4>2 DEF Answered
    <3> QED BY <3>2, <3>3
  <2> QED BY <2>2, <2>5, <2>8 DEF Answered
<1>3. CASE Packets!AnswerPolicyRequest
  BY <1>3, MarkFacts DEF Packets!AnswerPolicyRequest
<1>4. CASE Packets!HoldFirstLength
  <2>1. /\ Len(buf) > FirstLook /\ wire' = wire /\ answered' = answered
        /\ buf' = Packets!After(buf, LENGTHFIELDSIZE)
    BY <1>4 DEF Packets!HoldFirstLength, Packets!LooksAhead
  <2>2. LENGTHFIELDSIZE <= Len(buf)
    BY <1>1, <2>1
  <2> QED BY <1>1, <2>1, <2>2, AfterAnswered DEF Answered
<1>5. CASE Packets!LookNoFurther \/ Packets!ReadEnds
  BY <1>5 DEF Packets!LookNoFurther, Packets!ReadEnds, Answered
<1>6. Packets!MorePackets =>
         /\ Packets!Behind \in Seq(Nat)
         /\ \A k \in 1 .. Len(Packets!Behind) : Packets!Behind[k] # 1
  <2>1. CASE held # <<>>
    BY <1>1, <2>1 DEF Packets!Behind, Answered
  <2>2. CASE held = <<>>
    <3>1. Packets!MorePackets => LENGTHFIELDSIZE <= Len(buf)
      BY <1>1, <2>2 DEF Packets!MorePackets
    <3>2. Packets!Behind = Packets!After(buf, LENGTHFIELDSIZE)
      BY <2>2 DEF Packets!Behind
    <3> QED BY <1>1, <3>1, <3>2, AfterAnswered, AfterFacts DEF Answered
  <2> QED BY <2>1, <2>2
<1>7. CASE Packets!SkipEmpty \/ Packets!ReadPacket \/ Packets!ReadPacketThrows
  <2>1. /\ Packets!MorePackets /\ Len(Packets!Behind) >= PACKETSIZE
        /\ buf' = Packets!After(Packets!Behind, PACKETSIZE)
        /\ wire' = wire /\ answered' = answered
    BY <1>7 DEF Packets!SkipEmpty, Packets!ReadPacket, Packets!ReadPacketThrows,
       Packets!Consume
  <2>2. PACKETSIZE <= Len(Packets!Behind)
    BY <1>1, <1>6, <2>1, LenProperties
  <2> QED BY <1>1, <1>6, <2>1, <2>2, AfterAnswered DEF Answered
<1>8. CASE Packets!ReadTorn
  <2>1. Packets!MorePackets /\ buf' = Packets!Behind /\ wire' = wire /\ answered' = answered
    BY <1>8 DEF Packets!ReadTorn
  <2> QED BY <1>6, <2>1 DEF Answered
<1> QED BY <1>2, <1>3, <1>4, <1>5, <1>7, <1>8
        DEF Receives, Packets!Receive, Packets!ReadPackets

LEMMA PolicyNext == WireInv /\ PolicyInv /\ [StreamNext]_streamVars => PolicyInv'
<1> SUFFICES ASSUME WireInv, PolicyInv, [StreamNext]_streamVars PROVE PolicyInv'
  OBVIOUS
<1>1. client' = client /\ client \in {"game", "policy"} /\ (sender = "thane" => client = "game")
  BY WireStays DEF WireInv
<1>2. CASE client = "game"
  <2>1. answered' = answered
    <3>1. CASE UNCHANGED streamVars
      BY <3>1 DEF streamVars, Packets!vars
    <3>2. CASE FlashTransmits
      BY <3>2 DEF FlashTransmits, Packets!TransmitPacket
    <3>3. CASE ServerTransmits \/ ServerHeartbeat
      BY <3>3 DEF ServerTransmits, ServerHeartbeat
    <3>4. CASE Receives
      BY <1>2, <3>4 DEF Receives, Packets!Receive, Packets!SocketData,
         Packets!ReadPackets, Packets!AnswerPolicyRequest, Packets!IsPolicyMark,
         Packets!HoldFirstLength, Packets!LookNoFurther, Packets!SkipEmpty,
         Packets!ReadPacket, Packets!ReadPacketThrows, Packets!Consume,
         Packets!ReadTorn, Packets!ReadEnds
    <3> QED BY <3>1, <3>2, <3>3, <3>4 DEF StreamNext
  <2> QED BY <1>1, <1>2, <2>1 DEF PolicyInv
<1>3. CASE client = "policy"
  <2>1. Unanswered \/ Answered
    BY <1>3 DEF PolicyInv
  <2>2. CASE Receives
    BY <1>1, <1>3, <2>1, <2>2, UnansweredNext, AnsweredNext DEF PolicyInv
  <2>3. CASE UNCHANGED streamVars
    BY <1>1, <1>3, <2>1, <2>3 DEF streamVars, Packets!vars, PolicyInv, Unanswered, Answered
  <2>4. CASE FlashTransmits
    BY <1>3, <2>4 DEF FlashTransmits, Packets!TransmitPacket
  <2>5. CASE ServerTransmits \/ ServerHeartbeat
    BY <1>1, <1>3, <2>5 DEF ServerTransmits, ServerHeartbeat
  <2> QED BY <2>2, <2>3, <2>4, <2>5 DEF StreamNext
<1> QED BY <1>1, <1>2, <1>3

(* NetworkConnection.as:213-233: a policy request is answered, and answered *)
(* once, however it arrives and whatever its length.                        *)
THEOREM RequestAnsweredOnce == StreamSpec => []PolicyAnsweredOnce
<1>1. StreamInit => WireInv /\ PolicyInv
  BY WireInit, PolicyInit
<1>2. WireInv /\ PolicyInv /\ [StreamNext]_streamVars => (WireInv /\ PolicyInv)'
  BY WireNext, PolicyNext
<1>3. WireInv /\ PolicyInv => PolicyAnsweredOnce
  <2> SUFFICES ASSUME WireInv, PolicyInv PROVE PolicyAnsweredOnce
    OBVIOUS
  <2>1. answered = 0 \/ answered = 1
    BY DEF WireInv, PolicyInv, Unanswered, Answered
  <2>2. ASSUME client = "policy", reading = "no", wire = <<>>, Unanswered PROVE FALSE
    <3>1. Len(wire) = 0 /\ Len(buf) + Len(wire) = RequestSize /\ Len(buf) <= FirstLook
      BY <2>2, EmptySeq DEF Unanswered
    <3>2. Len(buf) \in Nat
      BY LenProperties DEF WireInv
    <3> QED BY <3>1, <3>2, Sizes
  <2> QED BY <2>1, <2>2 DEF PolicyInv, Answered, PolicyAnsweredOnce, Packets!PolicyAnsweredOnce
<1> QED BY <1>1, <1>2, <1>3, PTL DEF StreamSpec
==============================================================================
