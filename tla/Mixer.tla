-------------------------------- MODULE Mixer --------------------------------
(***************************************************************************)
(* What the mixing buffer of a device promises to the calls that talk      *)
(* through it: one queue of moments, each with the samples to be heard     *)
(* together, and for each call how far into the queue it has written.      *)
(***************************************************************************)
EXTENDS Naturals, Sequences

CONSTANTS
  Streams,   (* the calls                                                   *)
  Size,      (* samples in the buffer                                       *)
  FrameSize, (* samples in a frame of the audio port                        *)
  Lengths,   (* samples in the frames that calls write                      *)
  Period     (* samples are numbered modulo Period                          *)

VARIABLES
  queue,     (* the moments not yet played                                  *)
  ahead,     (* of each attached stream, the moments it has filled          *)
  timer,     (* frames are played by a timer, not when they are written     *)
  sent,      (* the number of the next sample of each stream                *)
  frame      (* what this step gives to the audio port                      *)

vars == <<queue, ahead, timer, sent, frame>>

Least(a, b) == IF a <= b THEN a ELSE b
Minus(a, b) == IF a <= b THEN 0 ELSE a - b

(* a frame of q, completed by silence *)
Padded(q) == [i \in 1..FrameSize |-> IF i <= Len(q) THEN q[i] ELSE {}]
(* the next n samples of a stream *)
Samples(st, n) == [i \in 1..n |-> <<st, (sent[st] + i - 1) % Period>>]
Spoken(st, n) == sent' = [sent EXCEPT ![st] = (@ + n) % Period]
Alone(samples) == [i \in 1..Len(samples) |-> {samples[i]}]

Init == /\ queue = <<>> /\ ahead = [st \in {} |-> 0]
        /\ timer \in BOOLEAN /\ sent = [st \in Streams |-> 0] /\ frame = <<>>

FirstCall(t) == /\ ahead = [st \in {} |-> 0]
                /\ queue' = <<>> /\ timer' = t /\ frame' = <<>> /\ UNCHANGED <<ahead, sent>>

Attach(st) == /\ st \notin DOMAIN ahead
              /\ ahead' = [x \in DOMAIN ahead \cup {st} |-> IF x = st THEN 0 ELSE ahead[x]]
              /\ frame' = <<>> /\ UNCHANGED <<queue, timer, sent>>

Detach(st) == /\ st \in DOMAIN ahead
              /\ ahead' = [x \in DOMAIN ahead \ {st} |-> ahead[x]]
              /\ frame' = <<>> /\ UNCHANGED <<queue, timer, sent>>

(* The n oldest moments go, for all streams alike. *)
Forget(n) == SubSeq(queue, Least(n, Len(queue)) + 1, Len(queue))
Nearer(n) == [x \in DOMAIN ahead |-> Minus(ahead[x], n)]

(* the samples join the moments from the a-th on *)
Overlay(q, a, samples) ==
  [i \in 1..(IF Len(q) <= a + Len(samples) THEN a + Len(samples) ELSE Len(q)) |->
     (IF i <= Len(q) THEN q[i] ELSE {})
       \cup (IF a < i /\ i <= a + Len(samples) THEN {samples[i - a]} ELSE {})]

(* A call's samples follow its earlier ones and are heard together with    *)
(* what others wrote for these moments.  If there is no room for them the  *)
(* oldest moments are given up; what exceeds the whole queue is cut.       *)
Write(st, n) ==
  LET over == Minus(n, Size - ahead[st])
      near == Nearer(over)
      cut  == Least(n, Size)
  IN  /\ timer /\ st \in DOMAIN ahead
      /\ queue' = Overlay(Forget(over), near[st], SubSeq(Samples(st, n), 1, cut))
      /\ ahead' = [near EXCEPT ![st] = @ + cut]
      /\ Spoken(st, n) /\ frame' = <<>> /\ UNCHANGED timer

(* the oldest frame is played, completed by silence *)
Play == /\ timer /\ DOMAIN ahead # {}
        /\ frame' = Padded(queue)
        /\ queue' = Forget(FrameSize) /\ ahead' = Nearer(FrameSize)
        /\ UNCHANGED <<timer, sent>>

(* without a timer a call that is alone is played as it writes, and others *)
(* are not heard                                                           *)
WriteDirect(st, n) ==
  /\ ~timer /\ st \in DOMAIN ahead
  /\ frame' = IF DOMAIN ahead = {st} THEN Padded(Alone(Samples(st, n))) ELSE <<>>
  /\ Spoken(st, n) /\ UNCHANGED <<queue, ahead, timer>>

Next == \/ \E t \in BOOLEAN : FirstCall(t)
        \/ \E st \in Streams : Attach(st) \/ Detach(st)
        \/ Play
        \/ \E st \in Streams, n \in Lengths : Write(st, n) \/ WriteDirect(st, n)

Spec == Init /\ [][Next]_vars
=============================================================================
