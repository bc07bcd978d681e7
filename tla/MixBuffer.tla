------------------------------ MODULE MixBuffer ------------------------------
(***************************************************************************)
(* The audio that calls send to one device: mixbuffer.c on ringbuffer.c,   *)
(* with channel_write and timing_write of channel.c that use them.  All of *)
(* it runs under pvt->lock, so every operation is one step.  A cell of the *)
(* buffer is one sample of two bytes; its content is the set of samples    *)
(* added up in it.                                                         *)
(***************************************************************************)
EXTENDS Naturals, Sequences

CONSTANTS
  Streams,   (* the calls of the device                                     *)
  Size,      (* samples in a_write_buf                                      *)
  FrameSize, (* FRAME_SIZE in samples                                       *)
  Lengths,   (* samples in the frames that Asterisk writes                  *)
  Period,    (* bound: samples are numbered modulo Period                   *)
  Short      (* the samples a short writev() may write                      *)

ASSUME SizeAssumption == Size \in Nat /\ FrameSize \in 1..Size
ASSUME LengthAssumption == Lengths \subseteq Nat \ {0}
ASSUME PeriodAssumption == Period \in Nat \ {0}
ASSUME ShortAssumption == Short \subseteq 1..(FrameSize - 1)

Cells == 0..(Size - 1)

VARIABLES
  rb,        (* mb->rb                                                      *)
  stream,    (* the mixstream of each call in mb->streams                   *)
  timer,     (* pvt->a_timer is open                                        *)
  sent,      (* the number of the next sample of each call                  *)
  frame,     (* what this step gave to iov_write                            *)
  port       (* what the audio port got of it                               *)

vars == <<rb, stream, timer, sent, frame, port>>
streams == DOMAIN stream
Quiet == frame' = <<>> /\ port' = <<>>

Least(a, b) == IF a <= b THEN a ELSE b

(* a position that went beyond the last cell *)
Wrapped(n) == IF n >= Size THEN n - Size ELSE n

Silence(n) == [i \in 1..n |-> {}]
Samples(st, n) == [i \in 1..n |-> <<st, (sent[st] + i - 1) % Period>>]
Alone(samples) == [i \in 1..Len(samples) |-> {samples[i]}]

-----------------------------------------------------------------------------
(* The ring buffer.                                                        *)

rb_init(buf) == [buf |-> buf, used |-> 0, read |-> 0, write |-> 0]

rb_free(r) == Size - r.used

(* the method of rb_write_core: memmove, or saturated_sum if mix *)
Put(buf, at, samples, mix) ==
  [i \in Cells |-> IF at <= i /\ i < at + Len(samples)
                   THEN {samples[i - at + 1]} \cup (IF mix THEN buf[i] ELSE {})
                   ELSE buf[i]]

rb_write_core(r, samples, mix) ==
  LET len == Least(Len(samples), rb_free(r))
      s   == r.write + len
  IN  IF s > Size
      THEN [buf   |-> Put(Put(r.buf, r.write, SubSeq(samples, 1, Size - r.write), mix),
                          0, SubSeq(samples, Size - r.write + 1, len), mix),
            used  |-> r.used + len, read |-> r.read, write |-> s - Size]
      ELSE [buf   |-> Put(r.buf, r.write, SubSeq(samples, 1, len), mix),
            used  |-> r.used + len, read |-> r.read, write |-> IF s = Size THEN 0 ELSE s]

(* an empty buffer begins again at its first cell *)
rb_read_upd(r, len) ==
  LET n == Least(len, r.used)
  IN  IF n > 0 /\ n = r.used THEN rb_init(r.buf)
      ELSE [r EXCEPT !.used = @ - n, !.read = Wrapped(@ + n)]

(* the two vectors of the first len samples: rb_read_n_iov and, for all of *)
(* them, rb_read_all_iov.  A vector that is not used is empty.             *)
Part(r, at, n) == [i \in 1..n |-> r.buf[at + i - 1]]
rb_read_n_iov(r, len) ==
  IF r.read + len > Size
  THEN <<Part(r, r.read, Size - r.read), Part(r, 0, len - (Size - r.read))>>
  ELSE <<Part(r, r.read, len), <<>> >>

-----------------------------------------------------------------------------
(* The mixing buffer.                                                      *)

mixb_free(st) == Size - stream[st].used

(* Mutant: the streams do not follow a buffer that begins again. *)
ReadUpdKeepsStreams(len) ==
  LET r == rb_read_upd(rb, len)
  IN  [r |-> r,
       stream |-> [st \in streams |->
                    [stream[st] EXCEPT !.used = IF @ > len THEN @ - len ELSE 0]]]

(* the buffer and the streams after len samples were read *)
mixb_read_upd(len) ==
  LET r     == rb_read_upd(rb, len)
      After(x) == LET used == IF x.used > len THEN x.used - len ELSE 0
                  IN  [used |-> used, write |-> Wrapped(r.read + used)]
  IN  [r |-> r, stream |-> [st \in streams |-> After(stream[st])]]

(* rb_write_core at the position of the stream x; the buffer's own is kept *)
mixb_mix_write(r, x, samples) ==
  LET w == rb_write_core([r EXCEPT !.write = x.write, !.used = x.used], samples, TRUE)
  IN  [r |-> [r EXCEPT !.buf = w.buf], x |-> [used |-> w.used, write |-> w.write]]

(* samples are mixed as far as others have written, and copied beyond that *)
mixb_write(r, x, samples) ==
  LET len     == Least(Len(samples), Size - x.used)
      max_mix == r.used - x.used
      data    == SubSeq(samples, 1, len)
      mixed   == mixb_mix_write(r, x, SubSeq(data, 1, max_mix)).r
      w       == rb_write_core(mixed, SubSeq(data, max_mix + 1, len), FALSE)
  IN  IF len > max_mix
      THEN [r |-> w, x |-> [used |-> w.used, write |-> w.write]]
      ELSE mixb_mix_write(r, x, data)

-----------------------------------------------------------------------------
(* Writing to the audio port.                                              *)

(* two vectors of samples and one of silence *)
Flat(iov) == iov[1] \o iov[2] \o iov[3]

(* the len oldest samples of r, completed by silence *)
Completed(r, len) ==
  LET v == rb_read_n_iov(r, len) IN <<v[1], v[2], Silence(FrameSize - len)>>

(* After a short write of w samples the rest is written from the beginning *)
(* of the vector it ended in: its length is cut but iov_base stays.        *)
Rest(iov, w) ==
  LET end1 == Len(iov[1])
      end2 == end1 + Len(iov[2])
  IN  IF w < end1 THEN SubSeq(iov[1], 1, end1 - w) \o iov[2] \o iov[3]
      ELSE IF w < end2 THEN SubSeq(iov[2], 1, end2 - w) \o iov[3]
      ELSE SubSeq(iov[3], 1, Len(Flat(iov)) - w)

(* at most one short write per frame, followed by the rest or an error *)
iov_write(iov) ==
  /\ frame' = Flat(iov)
  /\ \/ port' = frame'
     \/ \E w \in Short : LET begun == SubSeq(frame', 1, w)
                         IN  port' = begun \/ port' = begun \o Rest(iov, w)

-----------------------------------------------------------------------------
Init == /\ rb = rb_init([i \in Cells |-> {}])
        /\ stream = [st \in {} |-> {}]
        /\ timer \in BOOLEAN
        /\ sent = [st \in Streams |-> 0]
        /\ frame = <<>> /\ port = <<>>

(* pvt_on_create_1st_channel, after pvt_on_remove_last_channel: no call is *)
(* left, so none is attached; the timer may be refused                     *)
FirstCall ==
  /\ streams = {}
  /\ rb' = rb_init(rb.buf)
  /\ timer' \in BOOLEAN
  /\ Quiet /\ UNCHANGED <<stream, sent>>

(* activate_call *)
mixb_attach(st) ==
  /\ st \notin streams
  /\ stream' = [x \in streams \cup {st} |-> IF x = st THEN [used |-> 0, write |-> rb.read]
                                                      ELSE stream[x]]
  /\ Quiet /\ UNCHANGED <<rb, timer, sent>>

(* disactivate_call *)
mixb_detach(st) ==
  /\ st \in streams
  /\ stream' = [x \in streams \ {st} |-> stream[x]]
  /\ Quiet /\ UNCHANGED <<rb, timer, sent>>

Spoken(st, n) == sent' = [sent EXCEPT ![st] = (@ + n) % Period]

(* channel_write with the timer.  Without room the oldest samples go. *)
channel_write_mixed(st, n) ==
  LET count == mixb_free(st)
      kept  == IF count < n THEN mixb_read_upd(n - count) ELSE [r |-> rb, stream |-> stream]
      w     == mixb_write(kept.r, kept.stream[st], Samples(st, n))
  IN  /\ timer /\ st \in streams
      /\ rb' = w.r
      /\ stream' = [kept.stream EXCEPT ![st] = w.x]
      /\ Spoken(st, n)
      /\ Quiet /\ UNCHANGED timer

(* channel_write without the timer, which a conference needs *)
channel_write_direct(st, n) ==
  /\ ~timer /\ st \in streams
  /\ IF streams # {st} THEN Quiet
     ELSE LET len == Least(n, FrameSize)
          IN  iov_write(<<SubSeq(Alone(Samples(st, n)), 1, len), <<>>, Silence(FrameSize - len)>>)
  /\ Spoken(st, n)
  /\ UNCHANGED <<rb, stream, timer>>

(* Mutant: the buffer is read before the vectors of it are taken. *)
TimingWriteLate ==
  LET len  == Least(rb.used, FrameSize)
      read == mixb_read_upd(len)
  IN  /\ timer /\ streams # {}
      /\ rb' = read.r /\ stream' = read.stream
      /\ iov_write(Completed(read.r, len))
      /\ UNCHANGED <<timer, sent>>

(* the timer of the channel that reads the audio port; silence completes   *)
(* the frame                                                               *)
timing_write ==
  LET len  == Least(rb.used, FrameSize)
      read == mixb_read_upd(len)
  IN  /\ timer /\ streams # {}
      /\ rb' = read.r /\ stream' = read.stream
      /\ iov_write(Completed(rb, len))
      /\ UNCHANGED <<timer, sent>>

Next == \/ FirstCall
        \/ \E st \in Streams : mixb_attach(st) \/ mixb_detach(st)
        \/ timing_write
        \/ \E st \in Streams, n \in Lengths : channel_write_mixed(st, n) \/ channel_write_direct(st, n)

Spec == Init /\ [][Next]_vars

-----------------------------------------------------------------------------
(* Properties.                                                             *)

Sample == Streams \X (0..(Period - 1))
TypeOK ==
  /\ rb \in [buf : [Cells -> SUBSET Sample], used : 0..Size, read : Cells, write : Cells]
  /\ streams \subseteq Streams /\ stream \in [streams -> [used : 0..Size, write : Cells]]
  /\ timer \in BOOLEAN
  /\ sent \in [Streams -> 0..(Period - 1)]
  /\ frame \in Seq(SUBSET Sample) /\ Len(frame) \in {0, FrameSize}
  /\ port \in Seq(SUBSET Sample)

(* the cell n samples after the read position *)
At(r, n) == Wrapped(r.read + n)

(* Every writer writes where its own count says: the positions kept apart  *)
(* from the counts agree with them, around the end of the buffer, after    *)
(* the buffer was emptied and begins again, and after samples were given   *)
(* up for room; no call is ahead of what can be read (mixbuffer.c).        *)
PositionsAgree ==
  /\ rb.write = At(rb, rb.used)
  /\ \A st \in streams : /\ stream[st].used <= rb.used
                         /\ stream[st].write = At(rb, stream[st].used)

(* The promise: the cells from the read position on are the queue of       *)
(* moments, the counts of the streams how far each is ahead.               *)
Moments(r) == [i \in 1..r.used |-> r.buf[At(r, i - 1)]]
M == INSTANCE Mixer WITH queue <- Moments(rb), ahead <- [st \in streams |-> stream[st].used]
Mixed == M!Spec

(* A short write does not change what the audio port gets (iov_write).     *)
PortGetsFrame == port = SubSeq(frame, 1, Len(port))
=============================================================================
