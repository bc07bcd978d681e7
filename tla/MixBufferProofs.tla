--------------------------- MODULE MixBufferProofs ---------------------------
(***************************************************************************)
(* Proofs about MixBuffer, for every number of calls, every size of the    *)
(* buffer and of its frames, and every length of the frames written.       *)
(***************************************************************************)
EXTENDS MixBuffer, TLAPS

Content == [Cells -> SUBSET Sample]

(* a buffer whose positions agree, and a stream that agrees with it *)
RbOK(r) == /\ r \in [buf : Content, used : 0..Size, read : Cells, write : Cells]
           /\ r.write = At(r, r.used)
StOK(r, x) == /\ x \in [used : 0..Size, write : Cells]
              /\ x.used <= r.used
              /\ x.write = At(r, x.used)

Words == Seq(Sample)

(* What is written at a valid place keeps the content well-typed. *)
LEMMA PutType ==
  ASSUME NEW buf \in Content, NEW at \in Nat, NEW samples \in Words, NEW mix \in BOOLEAN
  PROVE  Put(buf, at, samples, mix) \in Content
<1>1. ASSUME NEW i \in Cells, at <= i, i < at + Len(samples)
      PROVE  samples[i - at + 1] \in Sample
  <2>1. i - at + 1 \in 1..Len(samples) BY <1>1, SizeAssumption DEF Words, Cells
  <2>2. QED BY <2>1 DEF Words
<1>2. QED BY <1>1 DEF Put, Content

LEMMA CutType ==
  ASSUME NEW samples \in Words, NEW a \in Nat \ {0}, NEW b \in 0..Len(samples)
  PROVE  SubSeq(samples, a, b) \in Words /\ Len(SubSeq(samples, a, b)) = IF a <= b THEN b - a + 1 ELSE 0
BY DEF Words

(* the write position after a write, however it was computed *)
LEMMA Advance ==
  ASSUME NEW read \in Cells, NEW used \in 0..Size, NEW len \in 0..(Size - used),
         NEW write, write = Wrapped(read + used), NEW s, s = write + len
  PROVE  /\ write \in Cells
         /\ s > Size => s - Size \in Cells /\ s - Size = Wrapped(read + (used + len))
         /\ s = Size => 0 \in Cells /\ 0 = Wrapped(read + (used + len))
         /\ s < Size => s \in Cells /\ s = Wrapped(read + (used + len))
<1> USE SizeAssumption DEF Cells
<1>1. /\ read \in Nat /\ used \in Nat /\ len \in Nat /\ Size \in Nat
      /\ read < Size /\ used + len <= Size
  OBVIOUS
<1>2. CASE read + used >= Size
  <2>1. write = read + used - Size BY <1>2 DEF Wrapped
  <2>2. Wrapped(read + (used + len)) = read + used + len - Size BY <1>1, <1>2 DEF Wrapped
  <2>3. write \in Cells BY <1>1, <1>2, <2>1
  <2>4. s = read + used + len - Size /\ s < Size /\ s \in Cells BY <1>1, <1>2, <2>1
  <2>5. QED BY <1>1, <2>2, <2>3, <2>4
<1>3. CASE read + used < Size
  <2>1. write = read + used BY <1>1, <1>3 DEF Wrapped
  <2>2. CASE read + used + len >= Size
    <3>1. Wrapped(read + (used + len)) = read + used + len - Size BY <1>1, <2>2 DEF Wrapped
    <3>2. QED BY <1>1, <1>3, <2>1, <2>2, <3>1
  <2>3. CASE read + used + len < Size
    <3>1. Wrapped(read + (used + len)) = read + used + len BY <1>1, <2>3 DEF Wrapped
    <3>2. QED BY <1>1, <1>3, <2>1, <2>3, <3>1
  <2>4. QED BY <1>1, <2>2, <2>3
<1>4. QED BY <1>1, <1>2, <1>3

(* rb_write_core appends where the buffer's own position says, and moves   *)
(* nothing else.                                                           *)
LEMMA WriteCore ==
  ASSUME NEW r, RbOK(r), NEW samples \in Words, NEW mix \in BOOLEAN
  PROVE  LET w == rb_write_core(r, samples, mix)
         IN  /\ RbOK(w) /\ w.read = r.read
             /\ w.used = r.used + Least(Len(samples), Size - r.used)
<1> DEFINE len == Least(Len(samples), rb_free(r))
           s == r.write + len
<1>l. Len(samples) \in Nat BY DEF Words
<1>0. /\ len \in Nat /\ len \in 0..Len(samples) /\ len <= Size - r.used
      /\ r.used \in 0..Size /\ r.write \in Cells /\ r.read \in Cells /\ r.buf \in Content
      /\ Size \in Nat
  BY <1>l, SizeAssumption DEF Least, rb_free, RbOK
<1>1. r.write = Wrapped(r.read + r.used) BY DEF RbOK, At
<1>2. len \in 0..(Size - r.used) BY <1>0
<1>3. CASE s > Size
  <2> DEFINE one == SubSeq(samples, 1, Size - r.write)
             two == SubSeq(samples, Size - r.write + 1, len)
             w == [buf  |-> Put(Put(r.buf, r.write, one, mix), 0, two, mix),
                   used |-> r.used + len, read |-> r.read, write |-> s - Size]
  <2>1. rb_write_core(r, samples, mix) = w BY <1>3 DEF rb_write_core
  <2>2. Size - r.write \in 0..Len(samples) BY <1>0, <1>3, <1>l DEF Cells
  <2>3. one \in Words /\ two \in Words BY <1>0, <2>2, CutType
  <2>4. w.buf \in Content BY <1>0, <2>3, PutType DEF Cells
  <2>5. w.write \in Cells /\ w.write = Wrapped(r.read + (r.used + len))
    BY <1>0, <1>1, <1>2, <1>3, Advance
  <2>6. w.used \in 0..Size BY <1>0
  <2> HIDE DEF len, s, one, two
  <2>7. RbOK(w) BY <1>0, <2>4, <2>5, <2>6 DEF RbOK, At
  <2>8. QED BY <2>1, <2>7 DEF rb_free, len
<1>4. CASE ~(s > Size)
  <2> DEFINE all == SubSeq(samples, 1, len)
             w == [buf  |-> Put(r.buf, r.write, all, mix),
                   used |-> r.used + len, read |-> r.read, write |-> IF s = Size THEN 0 ELSE s]
  <2>1. rb_write_core(r, samples, mix) = w BY <1>4 DEF rb_write_core
  <2>2. w.buf \in Content BY <1>0, CutType, PutType DEF Cells
  <2>3. s \in Nat /\ (s = Size \/ s < Size) BY <1>0, <1>4 DEF Cells
  <2>4. w.write \in Cells /\ w.write = Wrapped(r.read + (r.used + len))
    BY <1>0, <1>1, <1>2, <2>3, Advance
  <2>5. w.used \in 0..Size BY <1>0
  <2> HIDE DEF len, s, all
  <2>6. RbOK(w) BY <1>0, <2>2, <2>4, <2>5 DEF RbOK, At
  <2>7. QED BY <2>1, <2>6 DEF rb_free, len
<1>5. QED BY <1>3, <1>4

-----------------------------------------------------------------------------
(* Where the samples of a write go: the k-th cell from the read position   *)
(* on is written if and only if k lies in the range the write appends.     *)

LEMMA Distance ==
  ASSUME NEW read \in Cells, NEW used \in 0..Size, NEW len \in 0..(Size - used),
         NEW write, write = Wrapped(read + used),
         NEW k \in Cells, NEW c, c = Wrapped(read + k)
  PROVE  /\ c \in Cells
         /\ write + len > Size =>
              /\ (used <= k /\ k < used + len) <=> (c >= write \/ c < write + len - Size)
              /\ c >= write => k - used = c - write
              /\ c < write + len - Size => c < write /\ k - used = c + Size - write
         /\ ~(write + len > Size) =>
              /\ (used <= k /\ k < used + len) <=> (write <= c /\ c < write + len)
              /\ write <= c /\ c < write + len => k - used = c - write
<1>1. /\ read \in Nat /\ used \in Nat /\ len \in Nat /\ k \in Nat /\ Size \in Nat
      /\ read < Size /\ k < Size /\ used + len <= Size
  BY SizeAssumption DEF Cells
<1>2. CASE read + used >= Size
  <2>1. write = read + used - Size BY <1>1, <1>2 DEF Wrapped
  <2>2. CASE read + k >= Size
    <3>1. c = read + k - Size BY <1>1, <2>2 DEF Wrapped
    <3>2. QED BY <1>1, <1>2, <2>1, <2>2, <3>1 DEF Cells
  <2>3. CASE read + k < Size
    <3>1. c = read + k BY <1>1, <2>3 DEF Wrapped
    <3>2. QED BY <1>1, <1>2, <2>1, <2>3, <3>1 DEF Cells
  <2>4. QED BY <1>1, <2>2, <2>3
<1>3. CASE read + used < Size
  <2>1. write = read + used BY <1>1, <1>3 DEF Wrapped
  <2>2. CASE read + k >= Size
    <3>1. c = read + k - Size BY <1>1, <2>2 DEF Wrapped
    <3>2. QED BY <1>1, <1>3, <2>1, <2>2, <3>1 DEF Cells
  <2>3. CASE read + k < Size
    <3>1. c = read + k BY <1>1, <2>3 DEF Wrapped
    <3>2. QED BY <1>1, <1>3, <2>1, <2>3, <3>1 DEF Cells
  <2>4. QED BY <1>1, <2>2, <2>3
<1>4. QED BY <1>1, <1>2, <1>3

(* what a cell holds after a write that fits *)
Added(old, mix, sample) == {sample} \cup (IF mix THEN old ELSE {})

LEMMA CoreContent ==
  ASSUME NEW r, RbOK(r), NEW samples \in Words, NEW mix \in BOOLEAN,
         Len(samples) <= Size - r.used, NEW k \in Cells
  PROVE  rb_write_core(r, samples, mix).buf[At(r, k)] =
           IF r.used <= k /\ k < r.used + Len(samples)
           THEN Added(r.buf[At(r, k)], mix, samples[k - r.used + 1])
           ELSE r.buf[At(r, k)]
<1> DEFINE n == Len(samples)
           c == At(r, k)
<1>1. /\ n \in Nat /\ n \in 0..(Size - r.used) /\ r.used \in 0..Size /\ r.read \in Cells
      /\ r.write \in Cells /\ r.buf \in Content /\ Size \in Nat
      /\ Least(Len(samples), rb_free(r)) = n
  BY SizeAssumption DEF Words, RbOK, Least, rb_free
<1>2. r.write = Wrapped(r.read + r.used) /\ c = Wrapped(r.read + k) BY DEF RbOK, At
<1>3. CASE r.write + n > Size
  <2> DEFINE m == Size - r.write
             one == SubSeq(samples, 1, m)
             two == SubSeq(samples, m + 1, n)
             buf1 == Put(r.buf, r.write, one, mix)
  <2>1. rb_write_core(r, samples, mix).buf = Put(buf1, 0, two, mix)
    BY <1>1, <1>3 DEF rb_write_core
  <2>2. m \in 1..n BY <1>1, <1>3 DEF Cells
  <2>a. m \in Nat /\ 1 <= m /\ m <= n BY <1>1, <2>2
  <2>b. one = [i \in 1..m |-> samples[i]] BY <1>1, <2>a DEF Words
  <2>c. two = [i \in 1..(n - m) |-> samples[m + i]]
    <3> HIDE DEF m
    <3>1. n \in Nat /\ n = Len(samples) /\ samples \in Seq(Sample) BY <1>1 DEF Words
    <3>2. QED BY <2>a, <3>1, SMTT(60)
  <2>3. /\ Len(one) = m /\ \A i \in 1..m : one[i] = samples[i]
        /\ Len(two) = n - m /\ \A i \in 1..(n - m) : two[i] = samples[m + i]
    <3> HIDE DEF n, m, one, two
    <3>1. n - m \in Nat BY <1>1, <2>a
    <3>2. QED BY <2>a, <2>b, <2>c, <3>1
  <2>4. /\ c \in Cells
        /\ (r.used <= k /\ k < r.used + n) <=> (c >= r.write \/ c < r.write + n - Size)
        /\ c >= r.write => k - r.used = c - r.write
        /\ c < r.write + n - Size => c < r.write /\ k - r.used = c + Size - r.write
    BY <1>1, <1>2, <1>3, Distance
  <2> HIDE DEF n, c, m, one, two
  <2>5. c \in Nat /\ c < Size /\ r.write \in Nat /\ k \in Nat BY <1>1, <2>4 DEF Cells
  <2>6. buf1[c] = IF c >= r.write THEN Added(r.buf[c], mix, one[c - r.write + 1]) ELSE r.buf[c]
    BY <1>1, <2>3, <2>4, <2>5, SMTT(30) DEF Put, Added, m
  <2> HIDE DEF buf1
  <2>7. Put(buf1, 0, two, mix)[c] =
          IF c < n - m THEN Added(buf1[c], mix, two[c + 1]) ELSE buf1[c]
    BY <1>1, <2>2, <2>3, <2>4, <2>5 DEF Put, Added
  <2>8. CASE c >= r.write
    <3>1. ~(c < n - m) BY <1>1, <2>2, <2>4, <2>5, <2>8 DEF m
    <3>2. one[c - r.write + 1] = samples[k - r.used + 1]
      <4>1. c - r.write + 1 \in 1..m BY <1>1, <2>5, <2>8 DEF m
      <4>2. c - r.write = k - r.used BY <2>4, <2>8
      <4>3. QED BY <2>3, <4>1, <4>2
    <3>3. QED BY <2>1, <2>4, <2>6, <2>7, <2>8, <3>1, <3>2 DEF n, c
  <2>9. CASE c < r.write /\ c < r.write + n - Size
    <3>1. c < n - m BY <1>1, <2>5, <2>9 DEF m
    <3>2. two[c + 1] = samples[k - r.used + 1]
      <4>1. c + 1 \in 1..(n - m) BY <1>1, <2>2, <2>5, <3>1
      <4>2. k - r.used = c + Size - r.write BY <2>4, <2>9
      <4>5. m = Size - r.write /\ r.used \in Nat BY <1>1 DEF m
      <4> HIDE DEF c
      <4>4. m + (c + 1) = k - r.used + 1 BY <1>1, <2>5, <4>2, <4>5, SMTT(60)
      <4>3. QED BY <2>3, <4>1, <4>4
    <3>3. ~(c >= r.write) BY <1>1, <2>5, <2>9
    <3>4. QED BY <2>1, <2>4, <2>6, <2>7, <2>9, <3>1, <3>2, <3>3 DEF n, c
  <2>10. CASE ~(c >= r.write) /\ ~(c < r.write + n - Size)
    <3>1. ~(c < n - m) BY <1>1, <2>5, <2>10 DEF m
    <3>2. QED BY <2>1, <2>4, <2>6, <2>7, <2>10, <3>1 DEF n, c
  <2>11. QED BY <1>1, <2>5, <2>8, <2>9, <2>10
<1>4. CASE ~(r.write + n > Size)
  <2> DEFINE all == SubSeq(samples, 1, n)
  <2>1. rb_write_core(r, samples, mix).buf = Put(r.buf, r.write, all, mix)
    BY <1>1, <1>4 DEF rb_write_core
  <2>2. Len(all) = n /\ \A i \in 1..n : all[i] = samples[i] BY <1>1 DEF Words
  <2>3. /\ c \in Cells
        /\ (r.used <= k /\ k < r.used + n) <=> (r.write <= c /\ c < r.write + n)
        /\ r.write <= c /\ c < r.write + n => k - r.used = c - r.write
    BY <1>1, <1>2, <1>4, Distance
  <2> HIDE DEF n, c, all
  <2>4. c \in Nat /\ r.write \in Nat /\ k \in Nat BY <1>1, <2>3 DEF Cells
  <2>5. Put(r.buf, r.write, all, mix)[c] =
          IF r.write <= c /\ c < r.write + n
          THEN Added(r.buf[c], mix, all[c - r.write + 1]) ELSE r.buf[c]
    BY <2>2, <2>3 DEF Put, Added
  <2>6. r.write <= c /\ c < r.write + n => all[c - r.write + 1] = samples[k - r.used + 1]
    <3> HAVE r.write <= c /\ c < r.write + n
    <3>1. c - r.write + 1 \in 1..n BY <1>1, <2>4
    <3>2. c - r.write = k - r.used BY <2>3
    <3>3. QED BY <2>2, <3>1, <3>2
  <2>7. QED BY <2>1, <2>3, <2>5, <2>6 DEF n, c
<1>5. QED BY <1>3, <1>4

-----------------------------------------------------------------------------
(* What the operations of the mixing buffer do.                            *)

(* The k-th cell after the new read position is the (n+k)-th after the old. *)
LEMMA Shift ==
  ASSUME NEW read \in Cells, NEW n \in 0..Size, NEW k \in Nat, n + k <= Size
  PROVE  /\ n < Size => Wrapped(read + n) \in Cells
         /\ n < Size => Wrapped(Wrapped(read + n) + k) = Wrapped(read + (n + k))
<1>1. read \in Nat /\ n \in Nat /\ k \in Nat /\ Size \in Nat /\ read < Size
  BY SizeAssumption DEF Cells
<1>2. CASE read + n >= Size
  <2>1. Wrapped(read + n) = read + n - Size BY <1>1, <1>2 DEF Wrapped
  <2>2. Wrapped(read + (n + k)) = read + (n + k) - Size BY <1>1, <1>2 DEF Wrapped
  <2>3. ASSUME n < Size PROVE Wrapped(read + n - Size + k) = read + n - Size + k
    BY <1>1, <1>2, <2>3 DEF Wrapped
  <2>4. QED BY <1>1, <1>2, <2>1, <2>2, <2>3 DEF Cells
<1>3. CASE read + n < Size
  <2>1. Wrapped(read + n) = read + n BY <1>1, <1>3 DEF Wrapped
  <2>2. (read + n) + k = read + (n + k) BY <1>1
  <2>3. QED BY <1>1, <1>3, <2>1, <2>2 DEF Cells
<1>4. QED BY <1>1, <1>2, <1>3

LEMMA AtType == ASSUME NEW r, RbOK(r), NEW k \in 0..Size PROVE At(r, k) \in Cells
<1>1. r.read \in Cells BY DEF RbOK
<1>2. r.read \in Nat /\ r.read < Size /\ k \in Nat /\ k <= Size /\ Size \in Nat
  BY <1>1, SizeAssumption DEF Cells
<1>3. QED BY <1>2 DEF At, Wrapped, Cells

Less(a, b) == IF a > b THEN a - b ELSE 0

(* Reading drops the oldest samples, and the rest stays in order. *)
LEMMA ReadUpd ==
  ASSUME NEW r, RbOK(r), NEW n \in Nat
  PROVE  LET r1 == rb_read_upd(r, n)
         IN  /\ RbOK(r1)
             /\ r1.used = Less(r.used, n)
             /\ \A k \in 0..(r1.used - 1) :
                  r1.buf[At(r1, k)] = r.buf[At(r, Least(n, r.used) + k)]
<1> DEFINE m == Least(n, r.used)
           r1 == rb_read_upd(r, n)
<1>1. /\ r.used \in 0..Size /\ r.read \in Cells /\ r.write \in Cells /\ r.buf \in Content
      /\ Size \in Nat /\ r.used \in Nat /\ r.used <= Size
      /\ r.write = Wrapped(r.read + r.used)
  BY SizeAssumption DEF RbOK, At
<1>2. m \in Nat /\ m <= r.used /\ (r.used > n => m = n) /\ (~(r.used > n) => m = r.used)
  BY <1>1 DEF Least
<1>3. CASE m > 0 /\ m = r.used
  <2>1. r1 = rb_init(r.buf) BY <1>3 DEF rb_read_upd
  <2>2. 0 \in Cells /\ Wrapped(0 + 0) = 0 BY SizeAssumption DEF Cells, Wrapped
  <2>3. RbOK(r1) BY <1>1, <2>1, <2>2 DEF RbOK, rb_init, At
  <2>4. r1.used = 0 /\ Less(r.used, n) = 0
    <3>1. ~(r.used > n) BY <1>1, <1>2, <1>3 DEF Least
    <3>2. QED BY <2>1, <3>1 DEF rb_init, Less
  <2>5. QED BY <2>3, <2>4
<1>4. CASE ~(m > 0 /\ m = r.used)
  <2>1. r1 = [r EXCEPT !.used = @ - m, !.read = Wrapped(@ + m)] BY <1>4 DEF rb_read_upd
  <2>2. /\ r1.used = r.used - m /\ r1.read = Wrapped(r.read + m)
        /\ r1.buf = r.buf /\ r1.write = r.write
        /\ r1 = [buf |-> r1.buf, used |-> r1.used, read |-> r1.read, write |-> r1.write]
    BY <2>1 DEF RbOK
  <2>3. m < Size
    <3>1. FrameSize \in 1..Size BY SizeAssumption
    <3>2. QED BY <1>1, <1>2, <1>4, <3>1
  <2>4. r1.read \in Cells BY <1>1, <1>2, <2>2, <2>3, Shift
  <2>5. r1.used = Less(r.used, n) BY <1>1, <1>2, <2>2 DEF Less
  <2> HIDE DEF m, r1
  <2>6. ASSUME NEW k \in Nat, k <= r1.used
        PROVE  At(r1, k) = At(r, m + k)
    BY <1>1, <1>2, <2>2, <2>3, <2>6, Shift DEF At
  <2>7. r1.used \in Nat /\ r1.used \in 0..Size /\ m + r1.used = r.used BY <1>1, <1>2, <2>2
  <2>8. r1.write = At(r1, r1.used) BY <1>1, <2>2, <2>6, <2>7 DEF At
  <2>9. RbOK(r1) BY <1>1, <2>2, <2>4, <2>7, <2>8 DEF RbOK
  <2>10. \A k \in 0..(r1.used - 1) : r1.buf[At(r1, k)] = r.buf[At(r, m + k)]
    BY <2>2, <2>6, <2>7
  <2>11. QED BY <2>5, <2>9, <2>10 DEF m, r1
<1>5. QED BY <1>3, <1>4

(* A mixed write of what fits: the stream goes on, the buffer's positions  *)
(* stay, and each cell of the range has the new sample added.              *)
LEMMA MixWrite ==
  ASSUME NEW r, RbOK(r), NEW x, StOK(r, x), NEW samples \in Words,
         Len(samples) <= r.used - x.used
  PROVE  LET w == mixb_mix_write(r, x, samples)
         IN  /\ RbOK(w.r) /\ w.r.used = r.used /\ w.r.read = r.read
             /\ StOK(w.r, w.x) /\ w.x.used = x.used + Len(samples)
             /\ \A k \in Cells : w.r.buf[At(r, k)] =
                  IF x.used <= k /\ k < x.used + Len(samples)
                  THEN Added(r.buf[At(r, k)], TRUE, samples[k - x.used + 1])
                  ELSE r.buf[At(r, k)]
<1> DEFINE rx == [r EXCEPT !.write = x.write, !.used = x.used]
           c  == rb_write_core(rx, samples, TRUE)
           w  == mixb_mix_write(r, x, samples)
<1>1. /\ r.used \in 0..Size /\ r.read \in Cells /\ r.write \in Cells /\ r.buf \in Content
      /\ x.used \in 0..Size /\ x.write \in Cells /\ x.used <= r.used
      /\ Size \in Nat /\ r.used \in Nat /\ x.used \in Nat /\ r.used <= Size
  BY SizeAssumption DEF RbOK, StOK
<1>2. /\ rx.buf = r.buf /\ rx.used = x.used /\ rx.read = r.read /\ rx.write = x.write
      /\ rx \in [buf : Content, used : 0..Size, read : Cells, write : Cells]
  BY <1>1 DEF RbOK
<1>3. \A k : At(rx, k) = At(r, k) BY <1>2 DEF At
<1>4. RbOK(rx) BY <1>2, <1>3 DEF RbOK, StOK
<1>5. Len(samples) \in Nat /\ Len(samples) <= Size - x.used
  <2>1. Len(samples) \in Nat BY DEF Words
  <2>2. QED BY <1>1, <2>1
<1> HIDE DEF rx
<1>6. /\ RbOK(c) /\ c.read = rx.read
      /\ c.used = rx.used + Least(Len(samples), Size - rx.used)
  BY <1>4, WriteCore
<1>7. c.used = x.used + Len(samples) BY <1>2, <1>5, <1>6 DEF Least
<1>8. w.r = [r EXCEPT !.buf = c.buf] /\ w.x = [used |-> c.used, write |-> c.write]
  BY DEF mixb_mix_write, rx
<1> HIDE DEF c, w
<1>9. /\ w.r.buf = c.buf /\ w.r.used = r.used /\ w.r.read = r.read /\ w.r.write = r.write
      /\ w.r = [buf |-> c.buf, used |-> r.used, read |-> r.read, write |-> r.write]
  BY <1>8 DEF RbOK
<1>10. \A k : At(w.r, k) = At(r, k) /\ At(c, k) = At(r, k) BY <1>2, <1>6, <1>9 DEF At
<1>11. RbOK(w.r) BY <1>1, <1>6, <1>9, <1>10 DEF RbOK
<1>12. StOK(w.r, w.x)
  <2>1. c.used \in 0..Size /\ c.write \in Cells /\ c.write = At(c, c.used) BY <1>6 DEF RbOK
  <2>2. c.used <= r.used BY <1>1, <1>5, <1>7
  <2>3. QED BY <1>8, <1>9, <1>10, <2>1, <2>2 DEF StOK
<1>13. ASSUME NEW k \in Cells
       PROVE  c.buf[At(r, k)] = IF x.used <= k /\ k < x.used + Len(samples)
                                THEN Added(r.buf[At(r, k)], TRUE, samples[k - x.used + 1])
                                ELSE r.buf[At(r, k)]
  <2>1. Len(samples) <= Size - rx.used BY <1>2, <1>5
  <2>2. c.buf[At(rx, k)] = IF rx.used <= k /\ k < rx.used + Len(samples)
                           THEN Added(rx.buf[At(rx, k)], TRUE, samples[k - rx.used + 1])
                           ELSE rx.buf[At(rx, k)]
    BY <1>4, <2>1, CoreContent DEF c
  <2>3. At(rx, k) = At(r, k) /\ rx.buf = r.buf /\ rx.used = x.used BY <1>2, <1>3
  <2>4. QED BY <2>2, <2>3
<1>14. w.x.used = x.used + Len(samples) BY <1>7, <1>8
<1>15. \A k \in Cells : w.r.buf[At(r, k)] =
         IF x.used <= k /\ k < x.used + Len(samples)
         THEN Added(r.buf[At(r, k)], TRUE, samples[k - x.used + 1])
         ELSE r.buf[At(r, k)]
  BY <1>9, <1>13
<1>16. QED BY <1>9, <1>11, <1>12, <1>14, <1>15, Zenon DEF w

(* A write by a stream: as much as fits is mixed with what others wrote    *)
(* and copied beyond it.                                                   *)
Fits(x, samples) == Least(Len(samples), Size - x.used)
Ends(r, x, samples) == IF x.used + Fits(x, samples) > r.used
                       THEN x.used + Fits(x, samples) ELSE r.used

(* what the k-th cell holds after it *)
Held(r, x, samples, k) ==
  (IF k < r.used THEN r.buf[At(r, k)] ELSE {})
    \cup (IF x.used <= k /\ k < x.used + Fits(x, samples)
          THEN {samples[k - x.used + 1]} ELSE {})

LEMMA MixbWrite ==
  ASSUME NEW r, RbOK(r), NEW x, StOK(r, x), NEW samples \in Words
  PROVE  LET w == mixb_write(r, x, samples)
         IN  /\ RbOK(w.r) /\ w.r.read = r.read /\ w.r.used = Ends(r, x, samples)
             /\ StOK(w.r, w.x) /\ w.x.used = x.used + Fits(x, samples)
             /\ \A k \in 0..(w.r.used - 1) : w.r.buf[At(r, k)] = Held(r, x, samples, k)
<1> DEFINE n == Fits(x, samples)
           over == r.used - x.used
           data == SubSeq(samples, 1, n)
           w == mixb_write(r, x, samples)
<1>1. /\ r.used \in Nat /\ x.used \in Nat /\ x.used <= r.used /\ r.used <= Size /\ Size \in Nat
      /\ r.used \in 0..Size
  BY SizeAssumption DEF RbOK, StOK
<1>2. Len(samples) \in Nat BY DEF Words
<1>3. n \in Nat /\ n <= Len(samples) /\ n <= Size - x.used /\ over \in Nat
  BY <1>1, <1>2 DEF Fits, Least
<1>4. data \in Words /\ Len(data) = n /\ \A i \in 1..n : data[i] = samples[i]
  BY <1>2, <1>3 DEF Words
<1> HIDE DEF n, data
<1>5. CASE ~(n > over)
  <2>1. w = mixb_mix_write(r, x, data) BY <1>5 DEF mixb_write, n, data, Fits
  <2>2. Len(data) <= r.used - x.used BY <1>1, <1>3, <1>4, <1>5
  <2>3. /\ RbOK(w.r) /\ w.r.used = r.used /\ w.r.read = r.read
        /\ StOK(w.r, w.x) /\ w.x.used = x.used + n
        /\ \A k \in Cells : w.r.buf[At(r, k)] =
             IF x.used <= k /\ k < x.used + n
             THEN Added(r.buf[At(r, k)], TRUE, data[k - x.used + 1])
             ELSE r.buf[At(r, k)]
    <3> HIDE DEF w
    <3>1. LET v == mixb_mix_write(r, x, data)
          IN  /\ RbOK(v.r) /\ v.r.used = r.used /\ v.r.read = r.read
              /\ StOK(v.r, v.x) /\ v.x.used = x.used + Len(data)
              /\ \A k \in Cells : v.r.buf[At(r, k)] =
                   IF x.used <= k /\ k < x.used + Len(data)
                   THEN Added(r.buf[At(r, k)], TRUE, data[k - x.used + 1])
                   ELSE r.buf[At(r, k)]
      BY <1>4, <2>2, MixWrite
    <3>2. QED BY <1>4, <2>1, <3>1
  <2> HIDE DEF w
  <2>4. Ends(r, x, samples) = r.used BY <1>1, <1>3, <1>5 DEF Ends, n
  <2>5. ASSUME NEW k \in 0..(r.used - 1)
        PROVE  w.r.buf[At(r, k)] = r.buf[At(r, k)] \cup
                 (IF x.used <= k /\ k < x.used + n THEN {samples[k - x.used + 1]} ELSE {})
    <3>1. k \in Nat /\ k < r.used /\ k \in Cells BY <1>1 DEF Cells
    <3>2. CASE x.used <= k /\ k < x.used + n
      <4>1. k - x.used + 1 \in 1..n BY <1>1, <1>3, <3>1, <3>2
      <4>2. data[k - x.used + 1] = samples[k - x.used + 1] BY <1>4, <4>1
      <4>3. QED BY <2>3, <3>1, <3>2, <4>2 DEF Added
    <3>3. CASE ~(x.used <= k /\ k < x.used + n) BY <2>3, <3>1, <3>3
    <3>4. QED BY <3>2, <3>3
  <2>6. \A k \in 0..(r.used - 1) : w.r.buf[At(r, k)] = Held(r, x, samples, k)
    BY <1>1, <2>5 DEF Held, n
  <2>7. \A k \in 0..(w.r.used - 1) : w.r.buf[At(r, k)] = Held(r, x, samples, k)
    BY <2>3, <2>6
  <2>8. QED BY <2>3, <2>4, <2>7, Zenon DEF w, n
<1>6. CASE n > over
  <2> DEFINE head == SubSeq(data, 1, over)
             tail == SubSeq(data, over + 1, n)
             mixed == mixb_mix_write(r, x, head).r
             c == rb_write_core(mixed, tail, FALSE)
  <2>1. w = [r |-> c, x |-> [used |-> c.used, write |-> c.write]]
    BY <1>6 DEF mixb_write, n, data, Fits
  <2>2. /\ head \in Words /\ Len(head) = over /\ \A i \in 1..over : head[i] = samples[i]
    BY <1>3, <1>4, <1>6 DEF Words
  <2>3. tail \in Words BY <1>3, <1>4, <1>6, CutType
  <2>4. Len(tail) = n - over /\ n - over \in Nat BY <1>3, <1>4, <1>6 DEF Words
  <2>5. \A i \in 1..(n - over) : tail[i] = samples[over + i]
    BY <1>3, <1>4, <1>6 DEF Words
  <2> HIDE DEF head, tail, w
  <2>6. /\ RbOK(mixed) /\ mixed.used = r.used /\ mixed.read = r.read
        /\ \A k \in Cells : mixed.buf[At(r, k)] =
             IF x.used <= k /\ k < x.used + over
             THEN Added(r.buf[At(r, k)], TRUE, head[k - x.used + 1])
             ELSE r.buf[At(r, k)]
    <3> DEFINE v == mixb_mix_write(r, x, head)
    <3>1. Len(head) <= r.used - x.used BY <2>2
    <3> HIDE DEF v
    <3>2. /\ RbOK(v.r) /\ v.r.used = r.used /\ v.r.read = r.read
          /\ \A k \in Cells : v.r.buf[At(r, k)] =
               IF x.used <= k /\ k < x.used + Len(head)
               THEN Added(r.buf[At(r, k)], TRUE, head[k - x.used + 1])
               ELSE r.buf[At(r, k)]
      BY <2>2, <3>1, MixWrite, ZenonT(40) DEF v
    <3>3. mixed = v.r BY DEF v
    <3> HIDE DEF mixed
    <3>4. QED BY <2>2, <3>2, <3>3
  <2> HIDE DEF mixed
  <2>7. /\ RbOK(c) /\ c.read = mixed.read
        /\ c.used = mixed.used + Least(Len(tail), Size - mixed.used)
    BY <2>3, <2>6, WriteCore
  <2>8. Len(tail) <= Size - mixed.used BY <1>1, <1>3, <2>4, <2>6
  <2>9. c.used = x.used + n
    <3>1. Least(Len(tail), Size - mixed.used) = Len(tail) BY <2>8 DEF Least
    <3>2. c.used = r.used + (n - over) BY <2>4, <2>6, <2>7, <3>1
    <3> HIDE DEF c
    <3>3. QED BY <1>1, <1>3, <3>2
  <2>10. \A k \in Cells : c.buf[At(mixed, k)] =
           IF mixed.used <= k /\ k < mixed.used + Len(tail)
           THEN Added(mixed.buf[At(mixed, k)], FALSE, tail[k - mixed.used + 1])
           ELSE mixed.buf[At(mixed, k)]
    BY <2>3, <2>6, <2>8, CoreContent
  <2> HIDE DEF c
  <2>11. \A k : At(mixed, k) = At(r, k) /\ At(c, k) = At(r, k) BY <2>6, <2>7 DEF At
  <2>12. Ends(r, x, samples) = x.used + n BY <1>1, <1>3, <1>6 DEF Ends, n
  <2>13. w.r = c /\ w.x.used = c.used /\ w.x.write = c.write
         /\ w.x = [used |-> c.used, write |-> c.write] BY <2>1
  <2>14. StOK(c, w.x)
    <3>1. c.used \in 0..Size /\ c.write \in Cells /\ c.write = At(c, c.used)
      BY <2>7 DEF RbOK
    <3>2. c.used <= c.used BY <1>1, <1>3, <2>9
    <3>3. QED BY <2>13, <3>1, <3>2 DEF StOK
  <2>15. ASSUME NEW k \in 0..(x.used + n - 1)
         PROVE  c.buf[At(r, k)] = (IF k < r.used THEN r.buf[At(r, k)] ELSE {}) \cup
                  (IF x.used <= k /\ k < x.used + n THEN {samples[k - x.used + 1]} ELSE {})
    <3>1. k \in Nat /\ k < x.used + n /\ k \in Cells BY <1>1, <1>3 DEF Cells
    <3>2. CASE k < x.used
      <4>1. k < r.used /\ ~(x.used <= k) BY <1>1, <3>1, <3>2
      <4>2. c.buf[At(r, k)] = mixed.buf[At(r, k)]
        <5>1. ~(mixed.used <= k) BY <1>1, <2>6, <3>1, <4>1
        <5>2. QED BY <2>10, <2>11, <3>1, <5>1
      <4>3. QED BY <2>6, <3>1, <4>1, <4>2
    <3>3. CASE x.used <= k /\ k < r.used
      <4>1. k < x.used + over /\ ~(mixed.used <= k) BY <1>1, <2>6, <3>1, <3>3
      <4>2. c.buf[At(r, k)] = mixed.buf[At(r, k)] BY <2>10, <2>11, <3>1, <4>1
      <4>3. k - x.used + 1 \in 1..over BY <1>1, <3>1, <3>3
      <4>4. head[k - x.used + 1] = samples[k - x.used + 1] BY <2>2, <4>3
      <4>5. QED BY <2>6, <3>1, <3>3, <4>1, <4>2, <4>4 DEF Added
    <3>4. CASE r.used <= k
      <4>1. k < r.used + (n - over) BY <1>1, <1>3, <3>1, SMTT(30)
      <4>2. k - r.used + 1 \in 1..(n - over)
        <5>1. k - r.used \in Nat BY <1>1, <3>1, <3>4
        <5> HIDE DEF over
        <5>2. k - r.used < n - over BY <1>1, <2>4, <3>1, <4>1
        <5>3. QED BY <2>4, <5>1, <5>2
      <4>3. over + (k - r.used + 1) = k - x.used + 1 BY <1>1, <3>1
      <4>4. tail[k - r.used + 1] = samples[k - x.used + 1] BY <2>5, <4>2, <4>3
      <4>5. ~(k < r.used) /\ x.used <= k BY <1>1, <3>1, <3>4
      <4>6. c.buf[At(r, k)] = {samples[k - x.used + 1]}
        BY <2>4, <2>6, <2>10, <2>11, <3>1, <3>4, <4>1, <4>4 DEF Added
      <4>7. QED BY <3>1, <4>5, <4>6
    <3>5. QED BY <1>1, <3>1, <3>2, <3>3, <3>4
  <2>16. RbOK(w.r) /\ w.r.read = r.read /\ w.r.used = x.used + n BY <2>6, <2>7, <2>9, <2>13
  <2>17. StOK(w.r, w.x) /\ w.x.used = x.used + n BY <2>9, <2>13, <2>14
  <2>18. \A k \in 0..(w.r.used - 1) : w.r.buf[At(r, k)] = Held(r, x, samples, k)
    <3>1. \A k \in 0..(x.used + n - 1) : c.buf[At(r, k)] = Held(r, x, samples, k)
      BY <2>15 DEF Held, n
    <3>2. w.r = c /\ w.r.used = x.used + n BY <2>13, <2>16
    <3>3. 0..(w.r.used - 1) = 0..(x.used + n - 1)
      <4>1. x.used \in Nat /\ n \in Nat BY <1>1, <1>3
      <4>2. (x.used + n) - 1 = x.used + n - 1 BY <4>1
      <4>3. w.r.used - 1 = x.used + n - 1 BY <3>2, <4>2
      <4>4. QED BY <4>3
    <3>4. QED BY <3>1, <3>2, <3>3, Zenon
  <2>19. QED BY <2>12, <2>16, <2>17, <2>18, Zenon DEF w, n
<1>7. QED BY <1>5, <1>6

-----------------------------------------------------------------------------
(* What the audio port is given.                                           *)

Sounds == SUBSET Sample

LEMMA Concat ==
  ASSUME NEW a \in Seq(Sounds), NEW b \in Seq(Sounds)
  PROVE  /\ a \o b \in Seq(Sounds) /\ Len(a \o b) = Len(a) + Len(b)
         /\ \A i \in 1..(Len(a) + Len(b)) :
              (a \o b)[i] = IF i <= Len(a) THEN a[i] ELSE b[i - Len(a)]
OBVIOUS

LEMMA Join ==
  ASSUME NEW a \in Seq(Sounds), NEW b \in Seq(Sounds), NEW c \in Seq(Sounds),
         NEW f \in [1..FrameSize -> Sounds],
         Len(a) + Len(b) + Len(c) = FrameSize,
         \A i \in 1..Len(a) : f[i] = a[i],
         \A i \in 1..Len(b) : f[Len(a) + i] = b[i],
         \A i \in 1..Len(c) : f[Len(a) + Len(b) + i] = c[i]
  PROVE  (a \o b) \o c = f
<1> DEFINE ab == a \o b
           abc == ab \o c
<1>1. Len(a) \in Nat /\ Len(b) \in Nat /\ Len(c) \in Nat /\ FrameSize \in Nat
  BY SizeAssumption
<1>2. /\ ab \in Seq(Sounds) /\ Len(ab) = Len(a) + Len(b)
      /\ \A i \in 1..(Len(a) + Len(b)) : ab[i] = IF i <= Len(a) THEN a[i] ELSE b[i - Len(a)]
  BY Concat
<1> HIDE DEF ab
<1>3. /\ abc \in Seq(Sounds) /\ Len(abc) = FrameSize
      /\ \A i \in 1..FrameSize : abc[i] = IF i <= Len(ab) THEN ab[i] ELSE c[i - Len(ab)]
  <2>1. Len(ab) + Len(c) = FrameSize BY <1>2
  <2>2. /\ abc \in Seq(Sounds) /\ Len(abc) = Len(ab) + Len(c)
        /\ \A i \in 1..(Len(ab) + Len(c)) : abc[i] = IF i <= Len(ab) THEN ab[i] ELSE c[i - Len(ab)]
    BY <1>2, Concat, ZenonT(60)
  <2> HIDE DEF abc
  <2>3. QED BY <2>1, <2>2
<1> HIDE DEF abc
<1>4. ASSUME NEW i \in 1..FrameSize PROVE abc[i] = f[i]
  <2>1. CASE i <= Len(a)
    <3>1. i \in 1..Len(a) /\ i \in 1..(Len(a) + Len(b)) /\ i <= Len(ab) BY <1>1, <1>2, <2>1
    <3>2. QED BY <1>2, <1>3, <2>1, <3>1
  <2>2. CASE ~(i <= Len(a)) /\ i <= Len(a) + Len(b)
    <3>1. i - Len(a) \in 1..Len(b) /\ Len(a) + (i - Len(a)) = i BY <1>1, <2>2
    <3>2. i \in 1..(Len(a) + Len(b)) /\ i <= Len(ab) BY <1>1, <1>2, <2>2
    <3>3. abc[i] = b[i - Len(a)] BY <1>2, <1>3, <2>2, <3>2
    <3>4. f[Len(a) + (i - Len(a))] = b[i - Len(a)] BY <3>1
    <3>5. QED BY <3>1, <3>3, <3>4
  <2>3. CASE i > Len(a) + Len(b)
    <3>1. /\ i - Len(ab) \in 1..Len(c) /\ Len(a) + Len(b) + (i - Len(ab)) = i
          /\ ~(i <= Len(ab))
      BY <1>1, <1>2, <2>3
    <3>2. abc[i] = c[i - Len(ab)] BY <1>3, <3>1
    <3>3. f[Len(a) + Len(b) + (i - Len(ab))] = c[i - Len(ab)] BY <3>1
    <3>4. QED BY <3>1, <3>2, <3>3
  <2>4. QED BY <1>1, <2>1, <2>2, <2>3
<1>5. abc = [i \in 1..FrameSize |-> abc[i]] BY <1>1, <1>3
<1>6. abc = f BY <1>4, <1>5
<1>7. QED BY <1>6 DEF abc, ab

LEMMA SilenceType ==
  ASSUME NEW n \in Nat
  PROVE  /\ Silence(n) \in Seq(Sounds) /\ Len(Silence(n)) = n
         /\ \A i \in 1..n : Silence(n)[i] = {}
<1>1. {} \in Sounds BY DEF Sounds
<1>2. QED BY <1>1 DEF Silence

LEMMA PartType ==
  ASSUME NEW r, RbOK(r), NEW at \in 0..Size, NEW n \in Nat, at + n <= Size
  PROVE  /\ Part(r, at, n) \in Seq(Sounds) /\ Len(Part(r, at, n)) = n
         /\ \A i \in 1..n : Part(r, at, n)[i] = r.buf[at + i - 1]
<1>1. r.buf \in Content BY DEF RbOK
<1>2. ASSUME NEW i \in 1..n PROVE r.buf[at + i - 1] \in Sounds
  <2>1. at + i - 1 \in Cells BY SizeAssumption DEF Cells
  <2>2. QED BY <1>1, <2>1 DEF Content, Sounds
<1>3. QED BY <1>2 DEF Part

(* the oldest samples, completed by silence *)
Oldest(r) == [i \in 1..FrameSize |-> IF i <= r.used THEN r.buf[At(r, i - 1)] ELSE {}]

LEMMA OldestType ==
  ASSUME NEW r, RbOK(r)
  PROVE  Oldest(r) \in [1..FrameSize -> Sounds]
<1>1. ASSUME NEW i \in 1..FrameSize, i <= r.used PROVE r.buf[At(r, i - 1)] \in Sounds
  <2>1. i - 1 \in 0..Size BY <1>1, SizeAssumption
  <2>2. QED BY <2>1, AtType DEF RbOK, Content, Sounds
<1>2. {} \in Sounds BY DEF Sounds
<1>3. QED BY <1>1, <1>2 DEF Oldest

LEMMA TimedFrame ==
  ASSUME NEW r, RbOK(r)
  PROVE  LET iov == Completed(r, Least(r.used, FrameSize))
         IN  /\ Flat(iov) = Oldest(r)
             /\ iov[1] \in Seq(Sounds) /\ iov[2] \in Seq(Sounds) /\ iov[3] \in Seq(Sounds)
<1> DEFINE n == Least(r.used, FrameSize)
           rest == Silence(FrameSize - n)
           iov == Completed(r, n)
<1>1. /\ r.used \in Nat /\ r.used <= Size /\ r.read \in Nat /\ r.read < Size
      /\ Size \in Nat /\ FrameSize \in Nat /\ r.read \in Cells
  BY SizeAssumption DEF RbOK, Cells
<1>2. n \in Nat /\ n <= r.used /\ n <= FrameSize /\ (n = r.used \/ n = FrameSize)
  BY <1>1 DEF Least
<1> SUFFICES /\ Flat(iov) = Oldest(r)
             /\ iov[1] \in Seq(Sounds) /\ iov[2] \in Seq(Sounds) /\ iov[3] \in Seq(Sounds)
  OBVIOUS
<1> HIDE DEF n
<1>a. FrameSize - n \in Nat BY <1>1, <1>2
<1>3. /\ rest \in Seq(Sounds) /\ Len(rest) = FrameSize - n
      /\ \A i \in 1..(FrameSize - n) : rest[i] = {}
  BY <1>a, SilenceType
<1> HIDE DEF rest
<1>4. \A i \in 1..FrameSize : Oldest(r)[i] = IF i <= r.used THEN r.buf[At(r, i - 1)] ELSE {}
  BY DEF Oldest
<1>b. Oldest(r) \in [1..FrameSize -> Sounds] BY OldestType
<1>5. \A i \in 1..n : Oldest(r)[i] = r.buf[At(r, i - 1)]
  <2> TAKE i \in 1..n
  <2>1. i \in 1..FrameSize /\ i <= r.used BY <1>1, <1>2
  <2>2. QED BY <1>4, <2>1
<1>6. \A i \in 1..(FrameSize - n) : Oldest(r)[n + i] = {}
  <2> TAKE i \in 1..(FrameSize - n)
  <2>1. n + i \in 1..FrameSize /\ ~(n + i <= r.used) BY <1>1, <1>2
  <2>2. QED BY <1>4, <2>1
<1>7. CASE r.read + n > Size
  <2> DEFINE m == Size - r.read
             a == Part(r, r.read, m)
             b == Part(r, 0, n - m)
  <2>1. iov = <<a, b, rest>> BY <1>7 DEF Completed, rb_read_n_iov, rest
  <2>2. /\ m \in Nat /\ n - m \in Nat /\ 0 + (n - m) <= Size /\ r.read + m <= Size
        /\ m <= n /\ r.read \in 0..Size /\ 0 \in 0..Size /\ r.read + m = Size
    BY <1>1, <1>2, <1>7
  <2>3. /\ a \in Seq(Sounds) /\ Len(a) = m /\ \A i \in 1..m : a[i] = r.buf[r.read + i - 1]
    BY <2>2, PartType
  <2>4. /\ b \in Seq(Sounds) /\ Len(b) = n - m /\ \A i \in 1..(n - m) : b[i] = r.buf[0 + i - 1]
    BY <2>2, PartType
  <2> HIDE DEF a, b
  <2>5. \A i \in 1..m : Oldest(r)[i] = a[i]
    <3> TAKE i \in 1..m
    <3>1. i \in 1..n BY <1>1, <1>2, <2>2
    <3>2. At(r, i - 1) = r.read + i - 1 BY <1>1 DEF At, Wrapped
    <3>3. QED BY <1>5, <2>3, <3>1, <3>2
  <2>6. \A i \in 1..(n - m) : Oldest(r)[m + i] = b[i]
    <3> TAKE i \in 1..(n - m)
    <3>1. m + i \in 1..n BY <1>1, <1>2, <2>2
    <3>2. At(r, (m + i) - 1) = 0 + i - 1 BY <1>1, <2>2 DEF At, Wrapped
    <3>3. QED BY <1>5, <2>4, <3>1, <3>2
  <2>7. m + (n - m) = n /\ n + (FrameSize - n) = FrameSize BY <1>1, <1>2, <2>2
  <2> HIDE DEF m
  <2>8. Flat(<<a, b, rest>>) = Oldest(r)
    <3>1. Len(a) + Len(b) = n /\ Len(a) + Len(b) + Len(rest) = FrameSize
      BY <1>3, <2>3, <2>4, <2>7
    <3>2. \A i \in 1..Len(a) : Oldest(r)[i] = a[i] BY <2>3, <2>5
    <3>3. \A i \in 1..Len(b) : Oldest(r)[Len(a) + i] = b[i] BY <2>3, <2>4, <2>6
    <3>4. \A i \in 1..Len(rest) : Oldest(r)[Len(a) + Len(b) + i] = rest[i]
      BY <1>3, <1>6, <3>1
    <3> DEFINE f == Oldest(r)
    <3> HIDE DEF f
    <3>5. f \in [1..FrameSize -> Sounds] BY <1>b DEF f
    <3>6. (a \o b) \o rest = f
      <4>1. /\ Len(a) + Len(b) + Len(rest) = FrameSize
            /\ \A i \in 1..Len(a) : f[i] = a[i]
            /\ \A i \in 1..Len(b) : f[Len(a) + i] = b[i]
            /\ \A i \in 1..Len(rest) : f[Len(a) + Len(b) + i] = rest[i]
        BY <3>1, <3>2, <3>3, <3>4 DEF f
      <4>2. a \in Seq(Sounds) /\ b \in Seq(Sounds) /\ rest \in Seq(Sounds) BY <1>3, <2>3, <2>4
      <4>3. QED BY <3>5, <4>1, <4>2, Join, ZenonT(60)
    <3>7. QED BY <3>6 DEF Flat, f
  <2>9. QED BY <1>3, <2>1, <2>3, <2>4, <2>8
<1>8. CASE ~(r.read + n > Size)
  <2> DEFINE a == Part(r, r.read, n)
  <2>1. iov = <<a, <<>>, rest>> BY <1>8 DEF Completed, rb_read_n_iov, rest
  <2>2. r.read \in 0..Size /\ r.read + n <= Size BY <1>1, <1>2, <1>8
  <2>3. /\ a \in Seq(Sounds) /\ Len(a) = n /\ \A i \in 1..n : a[i] = r.buf[r.read + i - 1]
    BY <1>2, <2>2, PartType
  <2> HIDE DEF a
  <2>4. \A i \in 1..n : Oldest(r)[i] = a[i]
    <3> TAKE i \in 1..n
    <3>1. At(r, i - 1) = r.read + i - 1 BY <1>1, <1>2, <2>2 DEF At, Wrapped
    <3>2. QED BY <1>5, <2>3, <3>1
  <2>5. <<>> \in Seq(Sounds) /\ Len(<<>>) = 0 OBVIOUS
  <2>6. n + 0 = n /\ n + 0 + (FrameSize - n) = FrameSize BY <1>1, <1>2
  <2>7. Flat(<<a, <<>>, rest>>) = Oldest(r)
    <3>1. Len(a) + Len(<<>>) = n /\ Len(a) + Len(<<>>) + Len(rest) = FrameSize
      BY <1>3, <2>3, <2>5, <2>6
    <3>2. \A i \in 1..Len(a) : Oldest(r)[i] = a[i] BY <2>3, <2>4
    <3>3. \A i \in 1..Len(<<>>) : Oldest(r)[Len(a) + i] = <<>>[i] BY <2>5
    <3>4. \A i \in 1..Len(rest) : Oldest(r)[Len(a) + Len(<<>>) + i] = rest[i]
      BY <1>3, <1>6, <3>1
    <3> DEFINE f == Oldest(r)
               e == <<>>
    <3> HIDE DEF f, e
    <3>5. f \in [1..FrameSize -> Sounds] BY <1>b DEF f
    <3>6. (a \o e) \o rest = f
      <4>1. e \in Seq(Sounds) BY <2>5 DEF e
      <4>2. /\ Len(a) + Len(e) + Len(rest) = FrameSize
            /\ \A i \in 1..Len(a) : f[i] = a[i]
            /\ \A i \in 1..Len(e) : f[Len(a) + i] = e[i]
            /\ \A i \in 1..Len(rest) : f[Len(a) + Len(e) + i] = rest[i]
        BY <3>1, <3>2, <3>3, <3>4 DEF f, e
      <4>3. a \in Seq(Sounds) /\ rest \in Seq(Sounds) BY <1>3, <2>3
      <4>4. QED BY <3>5, <4>1, <4>2, <4>3, Join, ZenonT(60)
    <3>7. QED BY <3>6 DEF Flat, f, e
  <2>8. QED BY <1>3, <2>1, <2>3, <2>5, <2>7
<1>9. QED BY <1>7, <1>8
(* the frame of a call that writes without the timer *)
LEMMA DirectFrame ==
  ASSUME NEW samples \in Words
  PROVE  LET len == Least(Len(samples), FrameSize)
             iov == <<SubSeq(Alone(samples), 1, len), <<>>, Silence(FrameSize - len)>>
         IN  /\ Flat(iov) = [i \in 1..FrameSize |-> IF i <= Len(samples) THEN {samples[i]} ELSE {}]
             /\ iov[1] \in Seq(Sounds) /\ iov[2] \in Seq(Sounds) /\ iov[3] \in Seq(Sounds)
<1> DEFINE len == Least(Len(samples), FrameSize)
           f == [i \in 1..FrameSize |-> IF i <= Len(samples) THEN {samples[i]} ELSE {}]
           alone == Alone(samples)
           a == SubSeq(alone, 1, len)
           e == <<>>
           c == Silence(FrameSize - len)
<1>1. Len(samples) \in Nat /\ FrameSize \in Nat BY SizeAssumption DEF Words
<1>2. /\ len \in Nat /\ len <= Len(samples) /\ len <= FrameSize
      /\ len = Len(samples) \/ len = FrameSize
  BY <1>1 DEF Least
<1>3. ASSUME NEW i \in 1..Len(samples) PROVE {samples[i]} \in Sounds
  BY DEF Words, Sounds
<1>4. /\ alone \in Seq(Sounds) /\ Len(alone) = Len(samples)
      /\ \A i \in 1..Len(samples) : alone[i] = {samples[i]}
  BY <1>1, <1>3 DEF Alone
<1>5. f \in [1..FrameSize -> Sounds]
  <2>1. {} \in Sounds BY DEF Sounds
  <2>2. ASSUME NEW i \in 1..FrameSize, i <= Len(samples) PROVE {samples[i]} \in Sounds
    BY <1>1, <1>3, <2>2
  <2>3. QED BY <2>1, <2>2
<1> HIDE DEF len, alone
<1>6. a \in Seq(Sounds) /\ Len(a) = len /\ \A i \in 1..len : a[i] = alone[i]
  BY <1>1, <1>2, <1>4
<1>7. FrameSize - len \in Nat BY <1>1, <1>2
<1>8. c \in Seq(Sounds) /\ Len(c) = FrameSize - len /\ \A i \in 1..(FrameSize - len) : c[i] = {}
  BY <1>7, SilenceType
<1>9. e \in Seq(Sounds) /\ Len(e) = 0 OBVIOUS
<1>10. \A i \in 1..FrameSize : f[i] = IF i <= Len(samples) THEN {samples[i]} ELSE {}
  OBVIOUS
<1> HIDE DEF a, e, c, f
<1>11. Len(a) + Len(e) = len /\ Len(a) + Len(e) + Len(c) = FrameSize
  BY <1>1, <1>2, <1>6, <1>8, <1>9
<1>12. \A i \in 1..Len(a) : f[i] = a[i]
  <2> TAKE i \in 1..Len(a)
  <2>1. i \in 1..len /\ i \in 1..FrameSize /\ i \in 1..Len(samples) /\ i <= Len(samples)
    BY <1>1, <1>2, <1>6
  <2>2. QED BY <1>4, <1>6, <1>10, <2>1
<1>13. \A i \in 1..Len(e) : f[Len(a) + i] = e[i] BY <1>9
<1>14. \A i \in 1..Len(c) : f[Len(a) + Len(e) + i] = c[i]
  <2> TAKE i \in 1..Len(c)
  <2>1. i \in 1..(FrameSize - len) BY <1>8
  <2>2. len + i \in 1..FrameSize /\ ~(len + i <= Len(samples)) BY <1>1, <1>2, <2>1
  <2>3. QED BY <1>8, <1>10, <1>11, <2>1, <2>2
<1>15. (a \o e) \o c = f
  <2>1. a \in Seq(Sounds) /\ e \in Seq(Sounds) /\ c \in Seq(Sounds) BY <1>6, <1>8, <1>9
  <2>2. Len(a) + Len(e) + Len(c) = FrameSize BY <1>11
  <2>3. QED BY <1>5, <1>12, <1>13, <1>14, <2>1, <2>2, Join, ZenonT(60)
<1>16. Flat(<<a, e, c>>) = f BY <1>15 DEF Flat
<1>17. a \in Seq(Sounds) /\ e \in Seq(Sounds) /\ c \in Seq(Sounds) BY <1>6, <1>8, <1>9
<1>18. QED BY <1>16, <1>17 DEF a, e, c, f, len, alone

(* whatever a short write does, the port gets samples of the frame *)
LEMMA WriteType ==
  ASSUME NEW iov, iov[1] \in Seq(Sounds), iov[2] \in Seq(Sounds), iov[3] \in Seq(Sounds),
         Flat(iov) \in [1..FrameSize -> Sounds], iov_write(iov)
  PROVE  /\ frame' = Flat(iov) /\ frame' \in Seq(Sounds) /\ Len(frame') = FrameSize
         /\ port' \in Seq(Sounds)
<1>1. FrameSize \in Nat BY SizeAssumption
<1>2. frame' = Flat(iov) BY DEF iov_write
<1>3. frame' \in Seq(Sounds) /\ Len(frame') = FrameSize BY <1>1, <1>2
<1>4. ASSUME NEW w \in Short
      PROVE  SubSeq(frame', 1, w) \in Seq(Sounds) /\ Rest(iov, w) \in Seq(Sounds)
  <2> DEFINE a == iov[1]
             b == iov[2]
             c == iov[3]
  <2>1. w \in Nat /\ 1 <= w /\ w <= FrameSize - 1 BY <1>1, ShortAssumption
  <2>2. SubSeq(frame', 1, w) \in Seq(Sounds) BY <1>1, <1>3, <2>1
  <2>3. a \in Seq(Sounds) /\ b \in Seq(Sounds) /\ c \in Seq(Sounds) OBVIOUS
  <2>4. Flat(iov) = (a \o b) \o c BY DEF Flat
  <2>e. a = iov[1] /\ b = iov[2] /\ c = iov[3] OBVIOUS
  <2> HIDE DEF a, b, c
  <2>5. a \o b \in Seq(Sounds) /\ Len(a \o b) = Len(a) + Len(b) BY <2>3, Concat, ZenonT(60)
  <2>6. Len((a \o b) \o c) = Len(a \o b) + Len(c) BY <2>3, <2>5, Concat, ZenonT(60)
  <2>7. /\ Len(a) \in Nat /\ Len(b) \in Nat /\ Len(c) \in Nat
        /\ Len(a) + Len(b) + Len(c) = FrameSize
    BY <1>2, <1>3, <2>3, <2>4, <2>5, <2>6
  <2>8. CASE w < Len(a)
    <3>1. SubSeq(a, 1, Len(a) - w) \in Seq(Sounds) BY <2>1, <2>3, <2>7, <2>8
    <3>2. (SubSeq(a, 1, Len(a) - w) \o b) \o c \in Seq(Sounds) BY <2>3, <3>1, Concat, ZenonT(60)
    <3>3. Rest(iov, w) = (SubSeq(a, 1, Len(a) - w) \o b) \o c BY <2>e, <2>8 DEF Rest
    <3>4. QED BY <2>2, <3>2, <3>3
  <2>9. CASE ~(w < Len(a)) /\ w < Len(a) + Len(b)
    <3> DEFINE d == SubSeq(b, 1, (Len(a) + Len(b)) - w)
    <3>1. d \in Seq(Sounds) BY <2>1, <2>3, <2>7, <2>9
    <3> HIDE DEF d
    <3>2. d \o c \in Seq(Sounds) BY <2>3, <3>1, Concat, ZenonT(60)
    <3>3. Rest(iov, w) = SubSeq(b, 1, (Len(a) + Len(b)) - w) \o c BY <2>e, <2>1, <2>7, <2>9 DEF Rest
    <3>4. QED BY <2>2, <3>2, <3>3 DEF d
  <2>10. CASE ~(w < Len(a)) /\ ~(w < Len(a) + Len(b))
    <3>1. Len(Flat(iov)) = FrameSize BY <1>2, <1>3
    <3>2. Rest(iov, w) = SubSeq(c, 1, FrameSize - w) BY <2>e, <2>10, <3>1 DEF Rest
    <3>3. FrameSize - w \in Nat /\ FrameSize - w <= Len(c) BY <1>1, <2>1, <2>7, <2>10
    <3>4. SubSeq(c, 1, FrameSize - w) \in Seq(Sounds) BY <2>3, <2>7, <3>3
    <3>5. QED BY <2>2, <3>2, <3>4
  <2>11. QED BY <2>8, <2>9, <2>10
<1>5. port' \in Seq(Sounds)
  <2>1. CASE port' = frame' BY <1>3, <2>1
  <2>2. CASE \E w \in Short : \/ port' = SubSeq(frame', 1, w)
                             \/ port' = SubSeq(frame', 1, w) \o Rest(iov, w)
    <3>1. PICK w \in Short : \/ port' = SubSeq(frame', 1, w)
                            \/ port' = SubSeq(frame', 1, w) \o Rest(iov, w)
      BY <2>2
    <3> DEFINE begun == SubSeq(frame', 1, w)
               rest == Rest(iov, w)
    <3>2. begun \in Seq(Sounds) /\ rest \in Seq(Sounds) BY <1>4
    <3>3. port' = begun \/ port' = begun \o rest BY <3>1
    <3> HIDE DEF begun, rest
    <3>4. begun \o rest \in Seq(Sounds) BY <3>2, Concat, ZenonT(60)
    <3>5. QED BY <3>2, <3>3, <3>4
  <2>3. QED BY <2>1, <2>2, Zenon DEF iov_write
<1>6. QED BY <1>2, <1>3, <1>5
-----------------------------------------------------------------------------
(* The inductive invariant: the positions of a buffer and of its streams   *)
(* belong together, and what was given to the audio port is a frame.       *)

Buffers(r, s) ==
  /\ RbOK(r)
  /\ DOMAIN s \subseteq Streams /\ s \in [DOMAIN s -> [used : 0..Size, write : Cells]]
  /\ \A st \in DOMAIN s : StOK(r, s[st])

Frames == frame \in Seq(Sounds) /\ Len(frame) \in {0, FrameSize} /\ port \in Seq(Sounds)

IInv == /\ Buffers(rb, stream) /\ Frames
        /\ timer \in BOOLEAN /\ sent \in [Streams -> 0..(Period - 1)]

LEMMA IInvImplies == IInv => TypeOK /\ PositionsAgree
<1> SUFFICES ASSUME IInv PROVE TypeOK /\ PositionsAgree OBVIOUS
<1>1. TypeOK BY DEF IInv, Buffers, RbOK, Frames, TypeOK, streams, Content, Sounds
<1>2. PositionsAgree BY DEF IInv, Buffers, RbOK, StOK, PositionsAgree, streams
<1>3. QED BY <1>1, <1>2

LEMMA ModType == ASSUME NEW a \in Nat PROVE a % Period \in 0..(Period - 1)
BY PeriodAssumption

LEMMA SamplesType ==
  ASSUME IInv, NEW st \in Streams, NEW n \in Nat
  PROVE  Samples(st, n) \in Words /\ Len(Samples(st, n)) = n
<1>1. ASSUME NEW i \in 1..n PROVE <<st, (sent[st] + i - 1) % Period>> \in Sample
  <2>1. sent[st] \in Nat BY PeriodAssumption DEF IInv
  <2>2. sent[st] + i - 1 \in Nat BY <2>1
  <2>3. (sent[st] + i - 1) % Period \in 0..(Period - 1) BY <2>2, ModType
  <2>4. QED BY <2>3 DEF Sample
<1>2. QED BY <1>1 DEF Samples, Words

LEMMA SpokenType ==
  ASSUME IInv, NEW st \in Streams, NEW n \in Nat, Spoken(st, n)
  PROVE  sent' \in [Streams -> 0..(Period - 1)]
<1>1. sent[st] \in Nat /\ sent \in [Streams -> 0..(Period - 1)] BY PeriodAssumption DEF IInv
<1>2. (sent[st] + n) % Period \in 0..(Period - 1) BY <1>1, ModType
<1>3. QED BY <1>1, <1>2 DEF Spoken

(* A read moves every stream along with the buffer. *)
LEMMA MixbReadUpd ==
  ASSUME Buffers(rb, stream), NEW n \in Nat
  PROVE  LET m == mixb_read_upd(n)
         IN  /\ m.r = rb_read_upd(rb, n) /\ Buffers(m.r, m.stream) /\ DOMAIN m.stream = streams
             /\ \A st \in streams : m.stream[st].used = Less(stream[st].used, n)
<1> DEFINE m == mixb_read_upd(n)
           r == rb_read_upd(rb, n)
           After(x) == [used |-> Less(x.used, n), write |-> Wrapped(r.read + Less(x.used, n))]
<1>1. RbOK(rb) BY DEF Buffers
<1>2. RbOK(r) /\ r.used = Less(rb.used, n) BY <1>1, ReadUpd
<1>3. m.r = r BY DEF mixb_read_upd
<1>4. m.stream = [st \in streams |-> After(stream[st])] BY DEF mixb_read_upd, Less
<1>5. rb.used \in Nat /\ rb.used <= Size /\ Size \in Nat BY <1>1, SizeAssumption DEF RbOK
<1> HIDE DEF m, r
<1>6. ASSUME NEW st \in streams
      PROVE  StOK(r, m.stream[st]) /\ m.stream[st].used = Less(stream[st].used, n)
  <2> DEFINE x == stream[st]
             u == Less(x.used, n)
  <2>1. StOK(rb, x) BY DEF Buffers, streams
  <2>2. x.used \in Nat /\ x.used <= rb.used BY <2>1, <1>5, SizeAssumption DEF StOK
  <2>3. m.stream[st] = [used |-> u, write |-> Wrapped(r.read + u)] BY <1>4
  <2>4. u \in 0..Size /\ u <= r.used BY <1>2, <1>5, <2>2 DEF Less
  <2> HIDE DEF u
  <2>5. Wrapped(r.read + u) = At(r, u) BY DEF At
  <2>6. At(r, u) \in Cells BY <1>2, <2>4, AtType
  <2>7. QED BY <2>3, <2>4, <2>5, <2>6 DEF StOK, u
<1>7. DOMAIN m.stream = streams BY <1>4
<1>8. DOMAIN m.stream \subseteq Streams BY <1>7 DEF Buffers, streams
<1>9. \A st \in streams : m.stream[st] \in [used : 0..Size, write : Cells] BY <1>6 DEF StOK
<1>10. m.stream \in [DOMAIN m.stream -> [used : 0..Size, write : Cells]]
  BY <1>4, <1>7, <1>9
<1>11. Buffers(m.r, m.stream) BY <1>2, <1>3, <1>6, <1>7, <1>8, <1>10 DEF Buffers
<1>12. QED BY <1>3, <1>6, <1>7, <1>11 DEF m, r
(* A call without room gives up the oldest samples for all. *)
Kept(st, n) == LET count == mixb_free(st)
               IN  IF count < n THEN mixb_read_upd(n - count) ELSE [r |-> rb, stream |-> stream]
Over(st, n) == Less(n, Size - stream[st].used)

LEMMA KeptOK ==
  ASSUME Buffers(rb, stream), NEW st \in streams, NEW n \in Nat
  PROVE  LET m == Kept(st, n)
         IN  /\ Buffers(m.r, m.stream) /\ DOMAIN m.stream = streams
             /\ m.r.used = Less(rb.used, Over(st, n))
             /\ \A x \in streams : m.stream[x].used = Less(stream[x].used, Over(st, n))
             /\ \A k \in 0..(m.r.used - 1) :
                  m.r.buf[At(m.r, k)] = rb.buf[At(rb, Least(Over(st, n), rb.used) + k)]
<1> DEFINE m == Kept(st, n)
           over == Over(st, n)
<1>1. /\ RbOK(rb) /\ rb.used \in Nat /\ rb.read \in Cells
      /\ \A x \in streams : stream[x].used \in Nat /\ stream[x].used <= Size
      /\ Size \in Nat
  BY SizeAssumption DEF Buffers, RbOK, StOK, streams
<1>2. mixb_free(st) = Size - stream[st].used BY DEF mixb_free
<1>3. CASE mixb_free(st) < n
  <2>1. n - mixb_free(st) \in Nat /\ over = n - mixb_free(st)
    BY <1>1, <1>2, <1>3 DEF Over, Less
  <2>2. m = mixb_read_upd(over) BY <1>3, <2>1 DEF Kept
  <2> HIDE DEF m, over
  <2>3. over \in Nat BY <2>1
  <2>4. /\ m.r = rb_read_upd(rb, over) /\ Buffers(m.r, m.stream) /\ DOMAIN m.stream = streams
        /\ \A x \in streams : m.stream[x].used = Less(stream[x].used, over)
    BY <2>2, <2>3, MixbReadUpd
  <2>5. /\ m.r.used = Less(rb.used, over)
        /\ \A k \in 0..(m.r.used - 1) : m.r.buf[At(m.r, k)] = rb.buf[At(rb, Least(over, rb.used) + k)]
    BY <1>1, <2>3, <2>4, ReadUpd
  <2>6. QED BY <2>4, <2>5, Zenon DEF m, over
<1>4. CASE ~(mixb_free(st) < n)
  <2>1. m = [r |-> rb, stream |-> stream] BY <1>4 DEF Kept
  <2>2. over = 0 BY <1>1, <1>2, <1>4 DEF Over, Less
  <2> HIDE DEF m, over
  <2>3. m.r = rb /\ m.stream = stream BY <2>1
  <2>4. Buffers(m.r, m.stream) /\ DOMAIN m.stream = streams BY <2>3 DEF streams
  <2>5. \A u \in Nat : Less(u, over) = u BY <2>2 DEF Less
  <2>6. m.r.used = Less(rb.used, over) BY <1>1, <2>3, <2>5
  <2>7. \A x \in streams : m.stream[x].used = Less(stream[x].used, over) BY <1>1, <2>3, <2>5
  <2>8. \A k \in 0..(m.r.used - 1) : m.r.buf[At(m.r, k)] = rb.buf[At(rb, Least(over, rb.used) + k)]
    <3>1. Least(over, rb.used) = 0 BY <1>1, <2>2 DEF Least
    <3> TAKE k \in 0..(m.r.used - 1)
    <3>2. Least(over, rb.used) + k = k BY <3>1
    <3>3. QED BY <2>3, <3>2
  <2>9. QED BY <2>4, <2>6, <2>7, <2>8, Zenon DEF m, over
<1>5. QED BY <1>3, <1>4

(* A write moves its own stream and leaves the others where they are. *)
LEMMA WriteKeeps ==
  ASSUME NEW r, NEW s, Buffers(r, s), NEW st \in DOMAIN s, NEW samples \in Words
  PROVE  LET w == mixb_write(r, s[st], samples)
         IN  Buffers(w.r, [s EXCEPT ![st] = w.x])
<1> DEFINE w == mixb_write(r, s[st], samples)
           s1 == [s EXCEPT ![st] = w.x]
<1>1. RbOK(r) /\ StOK(r, s[st]) /\ s \in [DOMAIN s -> [used : 0..Size, write : Cells]]
      /\ DOMAIN s \subseteq Streams /\ \A x \in DOMAIN s : StOK(r, s[x])
  BY DEF Buffers
<1>2. /\ RbOK(w.r) /\ w.r.read = r.read /\ w.r.used = Ends(r, s[st], samples)
      /\ StOK(w.r, w.x)
  BY <1>1, MixbWrite
<1> HIDE DEF w
<1>3. r.used <= w.r.used
  <2>1. r.used \in Nat /\ s[st].used \in Nat /\ Size \in Nat /\ s[st].used <= Size
    BY <1>1, SizeAssumption DEF RbOK, StOK
  <2>2. Len(samples) \in Nat BY DEF Words
  <2>3. Fits(s[st], samples) \in Nat BY <2>1, <2>2 DEF Fits, Least
  <2>4. QED BY <1>2, <2>1, <2>3 DEF Ends
<1>4. ASSUME NEW x \in DOMAIN s PROVE StOK(w.r, s1[x])
  <2>1. CASE x = st
    <3>1. s1[x] = w.x BY <1>1, <2>1
    <3>2. QED BY <1>2, <3>1
  <2>2. CASE x # st
    <3>1. s1[x] = s[x] BY <1>1, <2>2
    <3>2. StOK(r, s[x]) BY <1>1
    <3>3. At(w.r, s[x].used) = At(r, s[x].used) BY <1>2 DEF At
    <3>4. s[x].used <= w.r.used
      <4>1. s[x].used \in Nat /\ r.used \in Nat /\ w.r.used \in Nat /\ s[x].used <= r.used
        BY <1>1, <1>2, <3>2, SizeAssumption DEF RbOK, StOK
      <4>2. QED BY <1>3, <4>1
    <3>5. QED BY <3>1, <3>2, <3>3, <3>4 DEF StOK
  <2>3. QED BY <2>1, <2>2
<1>5. DOMAIN s1 = DOMAIN s BY <1>1
<1>6. s1 \in [DOMAIN s1 -> [used : 0..Size, write : Cells]]
  <2>1. w.x \in [used : 0..Size, write : Cells] BY <1>2 DEF StOK
  <2>2. QED BY <1>1, <1>5, <2>1
<1> HIDE DEF s1
<1>7. Buffers(w.r, s1) BY <1>1, <1>2, <1>4, <1>5, <1>6 DEF Buffers
<1>8. QED BY <1>7 DEF w, s1

-----------------------------------------------------------------------------
(* The invariant holds initially and every step keeps it.                  *)

LEMMA EmptyOK ==
  ASSUME NEW buf \in Content, NEW s, s = [st \in {} |-> {}]
  PROVE  Buffers(rb_init(buf), s)
<1>1. 0 \in Cells /\ 0 \in 0..Size /\ Wrapped(0 + 0) = 0 BY SizeAssumption DEF Cells, Wrapped
<1>2. RbOK(rb_init(buf)) BY <1>1 DEF RbOK, rb_init, At
<1>3. DOMAIN s = {} OBVIOUS
<1>4. QED BY <1>2, <1>3 DEF Buffers

LEMMA InitOK == Init => IInv
<1> SUFFICES ASSUME Init PROVE IInv OBVIOUS
<1>1. [i \in Cells |-> {}] \in Content BY DEF Content
<1>2. Buffers(rb, stream) BY <1>1, EmptyOK DEF Init
<1>3. Frames BY DEF Init, Frames
<1>4. 0 \in 0..(Period - 1) BY PeriodAssumption
<1>5. QED BY <1>2, <1>3, <1>4 DEF IInv, Init

LEMMA QuietOK == ASSUME Quiet PROVE Frames'
BY DEF Quiet, Frames

LEMMA StepOK == IInv /\ [Next]_vars => IInv'
<1> SUFFICES ASSUME IInv, [Next]_vars PROVE IInv' OBVIOUS
<1>0. /\ Buffers(rb, stream) /\ Frames /\ timer \in BOOLEAN
      /\ sent \in [Streams -> 0..(Period - 1)]
  BY DEF IInv
<1>1. ASSUME FirstCall PROVE IInv'
  <2>1. stream = [st \in {} |-> {}] BY <1>0, <1>1 DEF FirstCall, streams, Buffers
  <2>2. rb.buf \in Content BY <1>0 DEF Buffers, RbOK
  <2>3. Buffers(rb, stream)' BY <1>1, <2>1, <2>2, EmptyOK DEF FirstCall
  <2>4. Frames' BY <1>1, QuietOK DEF FirstCall
  <2>5. QED BY <1>0, <1>1, <2>3, <2>4 DEF IInv, FirstCall
<1>2. ASSUME NEW st \in Streams, mixb_attach(st) PROVE IInv'
  <2>1. /\ RbOK(rb) /\ streams \subseteq Streams
        /\ stream \in [streams -> [used : 0..Size, write : Cells]]
        /\ \A x \in streams : StOK(rb, stream[x])
    BY <1>0 DEF Buffers, streams
  <2>2. rb.read \in Cells /\ rb.used \in Nat /\ 0 \in 0..Size BY <2>1, SizeAssumption DEF RbOK
  <2>3. rb.read = At(rb, 0)
    <3>1. rb.read \in Nat /\ rb.read < Size /\ Size \in Nat BY <2>2, SizeAssumption DEF Cells
    <3>2. QED BY <3>1 DEF At, Wrapped
  <2> DEFINE new == [used |-> 0, write |-> rb.read]
  <2>4. StOK(rb, new) BY <2>2, <2>3 DEF StOK
  <2>5. rb' = rb /\ stream' = [x \in streams \cup {st} |-> IF x = st THEN new ELSE stream[x]]
    BY <1>2 DEF mixb_attach
  <2> HIDE DEF new
  <2>6. DOMAIN stream' = streams \cup {st} BY <2>5
  <2>7. \A x \in DOMAIN stream' : StOK(rb, stream'[x]) BY <2>1, <2>4, <2>5, <2>6
  <2>8. \A x \in DOMAIN stream' : stream'[x] \in [used : 0..Size, write : Cells]
    BY <2>7 DEF StOK
  <2>9. stream' \in [DOMAIN stream' -> [used : 0..Size, write : Cells]] BY <2>5, <2>6, <2>8
  <2>10. Buffers(rb', stream') BY <2>1, <2>5, <2>6, <2>7, <2>9 DEF Buffers
  <2>11. Frames' BY <1>2, QuietOK DEF mixb_attach
  <2>12. QED BY <1>0, <1>2, <2>10, <2>11 DEF IInv, mixb_attach
<1>3. ASSUME NEW st \in Streams, mixb_detach(st) PROVE IInv'
  <2>1. rb' = rb /\ stream' = [x \in streams \ {st} |-> stream[x]] BY <1>3 DEF mixb_detach
  <2>2. Buffers(rb', stream') BY <1>0, <2>1 DEF Buffers, streams
  <2>3. Frames' BY <1>3, QuietOK DEF mixb_detach
  <2>4. QED BY <1>0, <1>3, <2>2, <2>3 DEF IInv, mixb_detach
<1>4. ASSUME timing_write PROVE IInv'
  <2> DEFINE len == Least(rb.used, FrameSize)
             m == mixb_read_upd(len)
             iov == Completed(rb, len)
  <2>1. RbOK(rb) /\ rb.used \in Nat /\ FrameSize \in Nat
    BY <1>0, SizeAssumption DEF Buffers, RbOK
  <2>2. len \in Nat BY <2>1 DEF Least
  <2>3. Flat(iov) = Oldest(rb) /\ iov[1] \in Seq(Sounds) /\ iov[2] \in Seq(Sounds) /\ iov[3] \in Seq(Sounds)
    BY <2>1, TimedFrame
  <2>4. Oldest(rb) \in [1..FrameSize -> Sounds] BY <2>1, OldestType
  <2>5. rb' = m.r /\ stream' = m.stream /\ iov_write(iov) /\ UNCHANGED <<timer, sent>>
    BY <1>4 DEF timing_write
  <2> HIDE DEF len, m, iov
  <2>6. Buffers(m.r, m.stream) BY <1>0, <2>2, MixbReadUpd DEF m
  <2>7. frame' \in Seq(Sounds) /\ Len(frame') = FrameSize /\ port' \in Seq(Sounds)
    BY <2>3, <2>4, <2>5, WriteType
  <2>8. Frames' BY <2>7 DEF Frames
  <2>9. QED BY <1>0, <2>5, <2>6, <2>8 DEF IInv
<1>5. ASSUME NEW st \in Streams, NEW n \in Lengths, channel_write_mixed(st, n) PROVE IInv'
  <2> DEFINE kept == Kept(st, n)
             w == mixb_write(kept.r, kept.stream[st], Samples(st, n))
  <2>1. /\ st \in streams /\ rb' = w.r /\ stream' = [kept.stream EXCEPT ![st] = w.x]
        /\ Spoken(st, n) /\ Quiet /\ timer' = timer
    BY <1>5 DEF channel_write_mixed, Kept
  <2>2. n \in Nat BY LengthAssumption
  <2>3. Buffers(kept.r, kept.stream) /\ DOMAIN kept.stream = streams
    BY <1>0, <2>1, <2>2, KeptOK
  <2>4. Samples(st, n) \in Words BY <2>2, SamplesType
  <2> HIDE DEF kept
  <2>5. Buffers(w.r, [kept.stream EXCEPT ![st] = w.x]) BY <2>1, <2>3, <2>4, WriteKeeps
  <2> HIDE DEF w
  <2>6. Buffers(rb', stream') BY <2>1, <2>5
  <2>7. sent' \in [Streams -> 0..(Period - 1)] BY <2>1, <2>2, SpokenType
  <2>8. Frames' BY <2>1, QuietOK
  <2>9. QED BY <1>0, <2>1, <2>6, <2>7, <2>8 DEF IInv
<1>6. ASSUME NEW st \in Streams, NEW n \in Lengths, channel_write_direct(st, n) PROVE IInv'
  <2>1. Spoken(st, n) /\ UNCHANGED <<rb, stream, timer>> BY <1>6 DEF channel_write_direct
  <2>2. n \in Nat BY LengthAssumption
  <2>3. sent' \in [Streams -> 0..(Period - 1)] BY <2>1, <2>2, SpokenType
  <2>4. Frames'
    <3>1. CASE streams # {st}
      <4>1. Quiet BY <1>6, <3>1 DEF channel_write_direct
      <4>2. QED BY <4>1, QuietOK
    <3>2. CASE streams = {st}
      <4> DEFINE data == Samples(st, n)
                 len == Least(n, FrameSize)
                 iov == <<SubSeq(Alone(data), 1, len), <<>>, Silence(FrameSize - len)>>
                 f == [i \in 1..FrameSize |-> IF i <= Len(data) THEN {data[i]} ELSE {}]
      <4>1. iov_write(iov) BY <1>6, <3>2 DEF channel_write_direct
      <4>2. data \in Words /\ Len(data) = n BY <2>2, SamplesType
      <4>3. /\ Flat(iov) = f
            /\ iov[1] \in Seq(Sounds) /\ iov[2] \in Seq(Sounds) /\ iov[3] \in Seq(Sounds)
        <5> HIDE DEF data
        <5>1. QED BY <4>2, DirectFrame
      <4>4. f \in [1..FrameSize -> Sounds]
        <5>1. \A i \in 1..FrameSize : i <= Len(data) => {data[i]} \in Sounds
          <6> HIDE DEF data
          <6>1. FrameSize \in Nat BY SizeAssumption
          <6>2. QED BY <2>2, <4>2, <6>1 DEF Words, Sounds
        <5>2. {} \in Sounds BY DEF Sounds
        <5> HIDE DEF data
        <5>3. QED BY <5>1, <5>2
      <4> HIDE DEF iov, f
      <4>5. frame' \in Seq(Sounds) /\ Len(frame') = FrameSize /\ port' \in Seq(Sounds)
        BY <4>1, <4>3, <4>4, WriteType
      <4>6. QED BY <4>5 DEF Frames
    <3>3. QED BY <3>1, <3>2
  <2>5. QED BY <1>0, <2>1, <2>3, <2>4 DEF IInv
<1>7. ASSUME UNCHANGED vars PROVE IInv'
  BY <1>0, <1>7 DEF IInv, Frames, vars
<1>8. QED BY <1>1, <1>2, <1>3, <1>4, <1>5, <1>6, <1>7 DEF Next

(* The positions and the counts of the buffer stay valid, and every frame  *)
(* for the audio port is FrameSize samples long (ringbuffer.c, mixbuffer.c *)
(* and timing_write of channel.c).                                         *)
THEOREM TypeCorrect == Spec => []TypeOK
<1>1. Spec => []IInv BY InitOK, StepOK, PTL DEF Spec
<1>2. IInv => TypeOK BY IInvImplies
<1>3. QED BY <1>1, <1>2, PTL

(* The write positions of the buffer and of every call agree with their    *)
(* counts, whatever calls do and in whatever order (mixbuffer.c).          *)
THEOREM PositionsCorrect == Spec => []PositionsAgree
<1>1. Spec => []IInv BY InitOK, StepOK, PTL DEF Spec
<1>2. IInv => PositionsAgree BY IInvImplies
<1>3. QED BY <1>1, <1>2, PTL
-----------------------------------------------------------------------------
(* The queue of moments and what the operations do to it.                  *)

LEMMA MomentsType ==
  ASSUME NEW r, RbOK(r)
  PROVE  /\ Moments(r) \in Seq(Sounds) /\ Len(Moments(r)) = r.used
         /\ \A i \in 1..r.used : Moments(r)[i] = r.buf[At(r, i - 1)]
<1>1. r.used \in Nat /\ r.used <= Size /\ Size \in Nat /\ r.buf \in Content
  BY SizeAssumption DEF RbOK
<1>2. ASSUME NEW i \in 1..r.used PROVE r.buf[At(r, i - 1)] \in Sounds
  <2>1. i - 1 \in 0..Size BY <1>1
  <2>2. QED BY <1>1, <2>1, AtType DEF Content, Sounds
<1>3. QED BY <1>1, <1>2 DEF Moments

(* A read takes the oldest moments off. *)
LEMMA ForgetIs ==
  ASSUME NEW r, RbOK(r), NEW r1, RbOK(r1), NEW n \in Nat, r1.used = Less(r.used, n),
         \A k \in 0..(r1.used - 1) : r1.buf[At(r1, k)] = r.buf[At(r, Least(n, r.used) + k)]
  PROVE  Moments(r1) = SubSeq(Moments(r), Least(n, r.used) + 1, r.used)
<1> DEFINE q == Moments(r)
           q1 == Moments(r1)
           m == Least(n, r.used)
           rest == SubSeq(q, m + 1, r.used)
<1>1. r.used \in Nat /\ r1.used \in Nat BY SizeAssumption DEF RbOK
<1>2. m \in Nat /\ m <= r.used /\ r1.used = r.used - m BY <1>1 DEF Less, Least
<1>3. /\ q \in Seq(Sounds) /\ Len(q) = r.used
      /\ \A i \in 1..r.used : q[i] = r.buf[At(r, i - 1)]
  BY MomentsType
<1>4. /\ q1 \in Seq(Sounds) /\ Len(q1) = r1.used
      /\ \A i \in 1..r1.used : q1[i] = r1.buf[At(r1, i - 1)]
  BY MomentsType
<1> HIDE DEF q, q1, m
<1>5. /\ rest \in Seq(Sounds) /\ Len(rest) = r1.used
      /\ \A i \in 1..r1.used : rest[i] = q[m + i]
  BY <1>1, <1>2, <1>3
<1>6. ASSUME NEW i \in 1..r1.used PROVE rest[i] = q1[i]
  <2>1. i - 1 \in 0..(r1.used - 1) BY <1>1
  <2>2. r1.buf[At(r1, i - 1)] = r.buf[At(r, m + (i - 1))] BY <2>1 DEF m
  <2>3. m + i \in 1..r.used /\ (m + i) - 1 = m + (i - 1) BY <1>1, <1>2
  <2>4. q[m + i] = r.buf[At(r, m + (i - 1))] BY <1>3, <2>3
  <2>5. QED BY <1>4, <1>5, <2>2, <2>4
<1> HIDE DEF rest
<1>7. rest = q1 BY <1>1, <1>4, <1>5, <1>6
<1>8. QED BY <1>7 DEF rest, q1, q, m

(* A write lays its samples over the moments from its count on. *)
LEMMA OverlayIs ==
  ASSUME NEW r, RbOK(r), NEW x, StOK(r, x), NEW samples \in Words
  PROVE  Moments(mixb_write(r, x, samples).r) =
           M!Overlay(Moments(r), x.used, SubSeq(samples, 1, Fits(x, samples)))
<1> DEFINE w == mixb_write(r, x, samples)
           n == Fits(x, samples)
           cut == SubSeq(samples, 1, n)
           q == Moments(r)
           q1 == Moments(w.r)
           last == IF Len(q) <= x.used + Len(cut) THEN x.used + Len(cut) ELSE Len(q)
           new == [i \in 1..last |->
                     (IF i <= Len(q) THEN q[i] ELSE {})
                       \cup (IF x.used < i /\ i <= x.used + Len(cut) THEN {cut[i - x.used]} ELSE {})]
<1>1. /\ r.used \in Nat /\ r.used <= Size /\ Size \in Nat
      /\ x.used \in Nat /\ x.used <= r.used
  BY SizeAssumption DEF RbOK, StOK
<1>2. Len(samples) \in Nat BY DEF Words
<1>3. n \in Nat /\ n <= Len(samples) /\ n <= Size - x.used BY <1>1, <1>2 DEF Fits, Least
<1> HIDE DEF n
<1>4. /\ cut \in Words /\ Len(cut) = n /\ \A i \in 1..n : cut[i] = samples[i]
  BY <1>2, <1>3 DEF Words
<1>5. /\ RbOK(w.r) /\ w.r.read = r.read /\ w.r.used = Ends(r, x, samples)
      /\ \A k \in 0..(w.r.used - 1) : w.r.buf[At(r, k)] = Held(r, x, samples, k)
  BY MixbWrite
<1>6. \A k : At(w.r, k) = At(r, k) BY <1>5 DEF At
<1>7. Len(q) = r.used /\ \A i \in 1..r.used : q[i] = r.buf[At(r, i - 1)] BY MomentsType
<1>8. /\ q1 \in Seq(Sounds) /\ Len(q1) = w.r.used
      /\ \A i \in 1..w.r.used : q1[i] = w.r.buf[At(w.r, i - 1)]
  BY <1>5, MomentsType
<1> HIDE DEF w, q, q1, cut
<1>9. last \in Nat /\ w.r.used = last
  <2>1. w.r.used = IF x.used + n > r.used THEN x.used + n ELSE r.used BY <1>5 DEF Ends, n
  <2>2. Len(q) = r.used /\ Len(cut) = n BY <1>4, <1>7
  <2>3. QED BY <1>1, <1>3, <2>1, <2>2
<1>10. ASSUME NEW i \in 1..last PROVE q1[i] = new[i]
  <2> DEFINE k == i - 1
  <2>1. k \in Nat /\ k \in 0..(w.r.used - 1) /\ k + 1 = i BY <1>9
  <2>2. q1[i] = Held(r, x, samples, k) BY <1>5, <1>6, <1>8, <1>9, <2>1
  <2> HIDE DEF k
  <2>3. (IF k < r.used THEN r.buf[At(r, k)] ELSE {}) = (IF i <= Len(q) THEN q[i] ELSE {})
    <3>1. CASE k < r.used
      <4>1. i \in 1..r.used /\ i <= Len(q) BY <1>1, <1>7, <2>1, <3>1
      <4>2. QED BY <1>7, <3>1, <4>1 DEF k
    <3>2. CASE ~(k < r.used)
      <4>1. ~(i <= Len(q)) BY <1>1, <1>7, <2>1, <3>2
      <4>2. QED BY <3>2, <4>1
    <3>3. QED BY <3>1, <3>2
  <2>4. (IF x.used <= k /\ k < x.used + n THEN {samples[k - x.used + 1]} ELSE {}) =
          (IF x.used < i /\ i <= x.used + Len(cut) THEN {cut[i - x.used]} ELSE {})
    <3>1. CASE x.used <= k /\ k < x.used + n
      <4>1. x.used < i /\ i <= x.used + Len(cut) BY <1>1, <1>3, <1>4, <2>1, <3>1
      <4>2. i - x.used \in 1..n
        <5>1. i \in Nat /\ x.used < i /\ i <= x.used + n BY <1>1, <1>3, <1>4, <2>1, <4>1
        <5>2. QED BY <1>1, <1>3, <5>1, SMTT(30)
      <4>3. k - x.used + 1 = i - x.used BY <1>1, <2>1
      <4>4. QED BY <1>4, <3>1, <4>1, <4>2, <4>3
    <3>2. CASE ~(x.used <= k /\ k < x.used + n)
      <4>1. ~(x.used < i /\ i <= x.used + Len(cut)) BY <1>1, <1>3, <1>4, <2>1, <3>2
      <4>2. QED BY <3>2, <4>1
    <3>3. QED BY <3>1, <3>2
  <2>5. Held(r, x, samples, k) =
          (IF k < r.used THEN r.buf[At(r, k)] ELSE {})
            \cup (IF x.used <= k /\ k < x.used + n THEN {samples[k - x.used + 1]} ELSE {})
    BY DEF Held, n
  <2>6. new[i] = (IF i <= Len(q) THEN q[i] ELSE {})
            \cup (IF x.used < i /\ i <= x.used + Len(cut) THEN {cut[i - x.used]} ELSE {})
    OBVIOUS
  <2> HIDE DEF new, last
  <2>7. QED BY <2>2, <2>3, <2>4, <2>5, <2>6
<1>11. new = M!Overlay(q, x.used, cut) BY DEF M!Overlay
<1>12. q1 = new
  <2>1. q1 = [i \in 1..last |-> q1[i]]
    <3> HIDE DEF last, new
    <3>1. QED BY <1>8, <1>9
  <2>2. QED BY <1>10, <2>1
<1> HIDE DEF new
<1>13. q1 = M!Overlay(q, x.used, cut) BY <1>11, <1>12
<1>14. QED BY <1>13, Zenon DEF w, n, cut, q, q1
-----------------------------------------------------------------------------
(* Every step of the buffer is a step of the mixer.                        *)

Ahead(s) == [st \in DOMAIN s |-> s[st].used]

LEMMA LessIs == ASSUME NEW a \in Nat, NEW b \in Nat PROVE M!Minus(a, b) = Less(a, b)
BY DEF M!Minus, Less

LEMMA LeastIs == \A a, b : M!Least(a, b) = Least(a, b)
BY DEF M!Least, Least

LEMMA SamplesIs == \A st, n : M!Samples(st, n) = Samples(st, n)
BY DEF M!Samples, Samples

(* the queue without its n oldest moments, and the counts less n *)
LEMMA NearerIs ==
  ASSUME Buffers(rb, stream), NEW s, DOMAIN s = streams, NEW n \in Nat,
         \A x \in streams : s[x].used = Less(stream[x].used, n)
  PROVE  M!Nearer(n) = Ahead(s)
<1>1. \A x \in streams : stream[x].used \in Nat
  BY SizeAssumption DEF Buffers, StOK, streams
<1>2. \A x \in streams : M!Minus(stream[x].used, n) = s[x].used BY <1>1, LessIs
<1>3. QED BY <1>2 DEF M!Nearer, Ahead

LEMMA ForgottenIs ==
  ASSUME Buffers(rb, stream), NEW r, RbOK(r), NEW n \in Nat, r.used = Less(rb.used, n),
         \A k \in 0..(r.used - 1) : r.buf[At(r, k)] = rb.buf[At(rb, Least(n, rb.used) + k)]
  PROVE  Moments(r) = M!Forget(n)
<1>1. RbOK(rb) BY DEF Buffers
<1>2. Len(Moments(rb)) = rb.used BY <1>1, MomentsType
<1>3. Moments(r) = SubSeq(Moments(rb), Least(n, rb.used) + 1, rb.used) BY <1>1, ForgetIs
<1>4. QED BY <1>2, <1>3, LeastIs DEF M!Forget

LEMMA PaddedIs ==
  ASSUME RbOK(rb) PROVE M!Padded(Moments(rb)) = Oldest(rb)
<1>1. Len(Moments(rb)) = rb.used /\ \A i \in 1..rb.used : Moments(rb)[i] = rb.buf[At(rb, i - 1)]
  BY MomentsType
<1>2. rb.used \in Nat BY SizeAssumption DEF RbOK
<1>3. \A i \in 1..FrameSize : i <= rb.used => i \in 1..rb.used BY <1>2, SizeAssumption
<1>4. QED BY <1>1, <1>3 DEF M!Padded, Oldest

LEMMA InitRefines == Init => M!Init
<1> SUFFICES ASSUME Init PROVE M!Init OBVIOUS
<1>1. rb.used = 0 /\ stream = [st \in {} |-> {}] BY DEF Init, rb_init
<1>2. Moments(rb) = <<>> BY <1>1 DEF Moments
<1>3. [st \in streams |-> stream[st].used] = [st \in {} |-> 0] BY <1>1 DEF streams
<1>4. QED BY <1>2, <1>3 DEF Init, M!Init

LEMMA StepRefines == IInv /\ [Next]_vars => [M!Next]_M!vars
<1> SUFFICES ASSUME IInv, [Next]_vars PROVE [M!Next]_M!vars OBVIOUS
<1>0. Buffers(rb, stream) /\ RbOK(rb) BY DEF IInv, Buffers
<1>a. [st \in streams |-> stream[st].used] = Ahead(stream) BY DEF Ahead, streams
<1>b. [st \in streams |-> stream[st].used]' = Ahead(stream') BY DEF Ahead, streams
<1>c. Moments(rb)' = Moments(rb') BY DEF Moments, At, Wrapped
<1>d. DOMAIN Ahead(stream) = streams BY DEF Ahead, streams
<1>1. ASSUME FirstCall PROVE M!FirstCall(timer')
  <2>1. Ahead(stream) = [st \in {} |-> 0] BY <1>1 DEF FirstCall, Ahead, streams
  <2>2. Moments(rb') = <<>> BY <1>1 DEF FirstCall, rb_init, Moments
  <2>3. frame' = <<>> /\ stream' = stream /\ sent' = sent BY <1>1 DEF FirstCall, Quiet
  <2>4. Ahead(stream') = Ahead(stream) BY <2>3
  <2>5. QED BY <1>a, <1>b, <1>c, <2>1, <2>2, <2>3, <2>4 DEF M!FirstCall
<1>2. ASSUME NEW st \in Streams, mixb_attach(st) PROVE M!Attach(st)
  <2>1. /\ st \notin streams /\ rb' = rb /\ timer' = timer /\ sent' = sent /\ frame' = <<>>
        /\ stream' = [x \in streams \cup {st} |-> IF x = st THEN [used |-> 0, write |-> rb.read]
                                                            ELSE stream[x]]
    BY <1>2 DEF mixb_attach, Quiet
  <2>2. Ahead(stream') = [x \in streams \cup {st} |-> IF x = st THEN 0 ELSE Ahead(stream)[x]]
    BY <2>1 DEF Ahead, streams
  <2>3. Moments(rb') = Moments(rb) BY <2>1
  <2>4. QED BY <1>a, <1>b, <1>c, <1>d, <2>1, <2>2, <2>3 DEF M!Attach
<1>3. ASSUME NEW st \in Streams, mixb_detach(st) PROVE M!Detach(st)
  <2>1. /\ st \in streams /\ rb' = rb /\ timer' = timer /\ sent' = sent /\ frame' = <<>>
        /\ stream' = [x \in streams \ {st} |-> stream[x]]
    BY <1>3 DEF mixb_detach, Quiet
  <2>2. Ahead(stream') = [x \in streams \ {st} |-> Ahead(stream)[x]]
    BY <2>1 DEF Ahead, streams
  <2>3. Moments(rb') = Moments(rb) BY <2>1
  <2>4. QED BY <1>a, <1>b, <1>c, <1>d, <2>1, <2>2, <2>3 DEF M!Detach
<1>4. ASSUME timing_write PROVE M!Play
  <2> DEFINE len == Least(rb.used, FrameSize)
             m == mixb_read_upd(len)
  <2>1. rb.used \in Nat /\ FrameSize \in Nat BY <1>0, SizeAssumption DEF RbOK
  <2>2. len \in Nat BY <2>1 DEF Least
  <2>3. /\ timer /\ streams # {} /\ rb' = m.r /\ stream' = m.stream
        /\ iov_write(Completed(rb, len)) /\ timer' = timer /\ sent' = sent
    BY <1>4 DEF timing_write
  <2>4. frame' = Oldest(rb)
    <3>1. Flat(Completed(rb, len)) = Oldest(rb) BY <1>0, TimedFrame
    <3>2. QED BY <2>3, <3>1 DEF iov_write
  <2> HIDE DEF m
  <2>5. /\ m.r = rb_read_upd(rb, len) /\ Buffers(m.r, m.stream) /\ DOMAIN m.stream = streams
        /\ \A x \in streams : m.stream[x].used = Less(stream[x].used, len)
    BY <1>0, <2>2, MixbReadUpd DEF m
  <2>6. /\ m.r.used = Less(rb.used, len)
        /\ \A k \in 0..(m.r.used - 1) : m.r.buf[At(m.r, k)] = rb.buf[At(rb, Least(len, rb.used) + k)]
    <3> HIDE DEF len
    <3>1. QED BY <1>0, <2>2, <2>5, ReadUpd
  <2>7. Less(rb.used, len) = Less(rb.used, FrameSize) /\ Least(len, rb.used) = Least(FrameSize, rb.used)
    BY <2>1 DEF Least, Less
  <2>8. \A x \in streams : Less(stream[x].used, len) = Less(stream[x].used, FrameSize)
    <3> TAKE x \in streams
    <3>1. stream[x].used \in Nat /\ stream[x].used <= rb.used
      BY <1>0, SizeAssumption DEF Buffers, StOK, streams
    <3>2. QED BY <2>1, <3>1 DEF Least, Less
  <2>9. Moments(rb') = M!Forget(FrameSize)
    <3>1. RbOK(m.r) BY <2>5 DEF Buffers
    <3>2. /\ m.r.used = Less(rb.used, FrameSize)
          /\ \A k \in 0..(m.r.used - 1) :
               m.r.buf[At(m.r, k)] = rb.buf[At(rb, Least(FrameSize, rb.used) + k)]
      BY <2>6, <2>7
    <3>3. Moments(m.r) = M!Forget(FrameSize) BY <1>0, <2>1, <3>1, <3>2, ForgottenIs
    <3>4. QED BY <2>3, <3>3
  <2>10. Ahead(stream') = M!Nearer(FrameSize)
    <3>1. \A x \in streams : m.stream[x].used = Less(stream[x].used, FrameSize) BY <2>5, <2>8
    <3>2. M!Nearer(FrameSize) = Ahead(m.stream) BY <1>0, <2>1, <2>5, <3>1, NearerIs
    <3>3. QED BY <2>3, <3>2
  <2>11. QED
    BY <1>0, <1>a, <1>b, <1>c, <1>d, <2>3, <2>4, <2>9, <2>10, PaddedIs DEF M!Play
<1>5. ASSUME NEW st \in Streams, NEW n \in Lengths, channel_write_mixed(st, n) PROVE M!Write(st, n)
  <2> DEFINE kept == Kept(st, n)
             data == Samples(st, n)
             over == Over(st, n)
             x == kept.stream[st]
             w == mixb_write(kept.r, x, data)
             cut == Least(n, Size)
  <2>1. /\ timer /\ st \in streams /\ rb' = w.r /\ stream' = [kept.stream EXCEPT ![st] = w.x]
        /\ Spoken(st, n) /\ frame' = <<>> /\ timer' = timer
    BY <1>5 DEF channel_write_mixed, Kept, Quiet
  <2>2. n \in Nat BY LengthAssumption
  <2>3. data \in Words /\ Len(data) = n BY <2>2, SamplesType
  <2>4. /\ Buffers(kept.r, kept.stream) /\ DOMAIN kept.stream = streams
        /\ kept.r.used = Less(rb.used, over)
        /\ \A y \in streams : kept.stream[y].used = Less(stream[y].used, over)
        /\ \A k \in 0..(kept.r.used - 1) :
             kept.r.buf[At(kept.r, k)] = rb.buf[At(rb, Least(over, rb.used) + k)]
    BY <1>0, <2>1, <2>2, KeptOK
  <2> HIDE DEF kept, data
  <2>5. stream[st].used \in Nat /\ stream[st].used <= Size /\ Size \in Nat
    BY <1>0, <2>1, SizeAssumption DEF Buffers, StOK, streams
  <2>6. over \in Nat /\ over = Less(n, Size - stream[st].used) BY <2>2, <2>5 DEF Over, Less
  <2> HIDE DEF over
  <2>7. RbOK(kept.r) /\ StOK(kept.r, x) BY <2>1, <2>4 DEF Buffers
  <2>8. x.used = Less(stream[st].used, over) BY <2>1, <2>4
  <2> HIDE DEF x
  <2>9. Fits(x, data) = cut
    <3>1. Fits(x, data) = Least(n, Size - x.used) BY <2>3 DEF Fits
    <3>2. QED BY <2>2, <2>5, <2>6, <2>8, <3>1 DEF Less, Least
  <2>10. M!Forget(over) = Moments(kept.r) BY <1>0, <2>4, <2>6, <2>7, ForgottenIs
  <2>11. M!Nearer(over) = Ahead(kept.stream) BY <1>0, <2>4, <2>6, NearerIs
  <2>12. /\ w.x.used = x.used + cut
         /\ Moments(w.r) = M!Overlay(Moments(kept.r), x.used, SubSeq(data, 1, cut))
    BY <2>3, <2>7, <2>9, MixbWrite, OverlayIs
  <2> HIDE DEF w
  <2>13. Ahead(kept.stream)[st] = x.used BY <2>1, <2>4 DEF Ahead, x
  <2>14. Ahead(stream') = [Ahead(kept.stream) EXCEPT ![st] = @ + cut]
    <3>1. DOMAIN stream' = streams BY <2>1, <2>4
    <3>2. stream'[st].used = x.used + cut BY <2>1, <2>4, <2>12
    <3>3. \A y \in streams : y # st => stream'[y] = kept.stream[y] BY <2>1, <2>4
    <3>4. QED BY <2>1, <2>4, <2>13, <3>1, <3>2, <3>3 DEF Ahead
  <2>15. M!Minus(n, Size - Ahead(stream)[st]) = over
    <3>1. Ahead(stream)[st] = stream[st].used BY <2>1 DEF Ahead, streams
    <3>2. Size - stream[st].used \in Nat BY <2>5
    <3>3. QED BY <2>2, <2>6, <3>1, <3>2, LessIs
  <2>16. M!Samples(st, n) = data /\ M!Least(n, Size) = cut BY SamplesIs, LeastIs DEF data
  <2>17. M!Spoken(st, n) BY <2>1 DEF Spoken, M!Spoken
  <2>18. Moments(rb') = M!Overlay(M!Forget(over), M!Nearer(over)[st], SubSeq(M!Samples(st, n), 1, cut))
    BY <2>1, <2>10, <2>11, <2>12, <2>13, <2>16
  <2>19. Ahead(stream') = [M!Nearer(over) EXCEPT ![st] = @ + cut] BY <2>11, <2>14
  <2> HIDE DEF cut
  <2>20. QED
    BY <1>a, <1>b, <1>c, <1>d, <2>1, <2>15, <2>16, <2>17, <2>18, <2>19 DEF M!Write
<1>6. ASSUME NEW st \in Streams, NEW n \in Lengths, channel_write_direct(st, n)
      PROVE  M!WriteDirect(st, n)
  <2> DEFINE data == Samples(st, n)
             len == Least(n, FrameSize)
             iov == <<SubSeq(Alone(data), 1, len), <<>>, Silence(FrameSize - len)>>
             f == [i \in 1..FrameSize |-> IF i <= Len(data) THEN {data[i]} ELSE {}]
  <2>1. /\ ~timer /\ st \in streams /\ Spoken(st, n) /\ rb' = rb /\ stream' = stream
        /\ timer' = timer
        /\ streams # {st} => frame' = <<>>
        /\ streams = {st} => iov_write(iov)
    BY <1>6 DEF channel_write_direct, Quiet
  <2>2. n \in Nat BY LengthAssumption
  <2>3. data \in Words /\ Len(data) = n BY <2>2, SamplesType
  <2> HIDE DEF data
  <2>4. streams = {st} => frame' = f
    <3>1. Flat(iov) = f BY <2>3, DirectFrame
    <3>2. QED BY <2>1, <3>1 DEF iov_write
  <2>5. M!Padded(M!Alone(data)) = f
    <3>1. Len(M!Alone(data)) = n /\ \A i \in 1..n : M!Alone(data)[i] = {data[i]}
      BY <2>2, <2>3 DEF M!Alone
    <3>2. \A i \in 1..FrameSize : i <= n => i \in 1..n BY <2>2, SizeAssumption
    <3>3. QED BY <2>3, <3>1, <3>2 DEF M!Padded
  <2>6. M!Samples(st, n) = data BY SamplesIs DEF data
  <2>7. M!Spoken(st, n) BY <2>1 DEF Spoken, M!Spoken
  <2>8. Moments(rb') = Moments(rb) /\ Ahead(stream') = Ahead(stream) BY <2>1
  <2> HIDE DEF f, iov
  <2>9. QED
    BY <1>a, <1>b, <1>c, <1>d, <2>1, <2>4, <2>5, <2>6, <2>7, <2>8 DEF M!WriteDirect
<1>7. ASSUME UNCHANGED vars PROVE UNCHANGED M!vars
  <2>1. rb' = rb /\ stream' = stream /\ timer' = timer /\ sent' = sent /\ frame' = frame
    BY <1>7 DEF vars
  <2>2. Moments(rb') = Moments(rb) /\ Ahead(stream') = Ahead(stream) BY <2>1
  <2>3. QED BY <1>a, <1>b, <1>c, <2>1, <2>2 DEF M!vars
<1>8. CASE Next
  <2>1. timer' \in BOOLEAN
    <3>1. IInv' BY StepOK
    <3>2. QED BY <3>1 DEF IInv
  <2>2. M!Next BY <1>1, <1>2, <1>3, <1>4, <1>5, <1>6, <1>8, <2>1 DEF Next, M!Next
  <2>3. QED BY <2>2
<1>9. QED BY <1>7, <1>8

(* What calls hear of each other: the circular buffer with its write       *)
(* positions behaves as a queue of moments, whatever its size and the      *)
(* length of the frames: nothing is lost, doubled, reordered or mixed into *)
(* another moment, except the oldest moments when a call has no room, and  *)
(* of a frame longer than the whole buffer its end (ringbuffer.c,          *)
(* mixbuffer.c, channel_write and timing_write of channel.c).              *)
THEOREM MixingCorrect == Spec => Mixed
<1>1. Spec => []IInv BY InitOK, StepOK, PTL DEF Spec
<1>2. Init => M!Init BY InitRefines
<1>3. IInv /\ [Next]_vars => [M!Next]_M!vars BY StepRefines
<1>4. QED BY <1>1, <1>2, <1>3, PTL DEF Spec, Mixed, M!Spec
=============================================================================
