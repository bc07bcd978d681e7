------------------------------- MODULE AtRead -------------------------------
(***************************************************************************)
(* How the monitor thread cuts the bytes of the data port into results:    *)
(* at_read.c on ringbuffer.c, and the read loop of do_monitor_phone.  The  *)
(* port gives any number of bytes at a time, so a read may end anywhere.   *)
(* A token of the model is one byte where the code looks at single bytes   *)
(* (CR, LF, "+", ">", " ", "O", "K") and otherwise the rest of a word: a   *)
(* read that ends inside such a word does what one ending before it does.  *)
(***************************************************************************)
EXTENDS Integers, Sequences, SequencesExt, FiniteSetsExt

CONSTANTS
  Size,      (* bytes in the buffer of do_monitor_phone                     *)
  Kinds,     (* the kinds of answers the modem gives                        *)
  Texts,     (* what the answers say, by their number                       *)
  MaxFrames, (* bound: answers in one run of the model                      *)
  Tails      (* what clean_read_data left of an answer: so many last bytes  *)

(* every answer but the long one fits in the buffer, which has two thousand *)
(* bytes in the code                                                       *)
ASSUME SizeAssumption == Size \in Nat /\ Size >= 16
ASSUME BoundAssumption == MaxFrames \in Nat \ {0}
ASSUME KindsAssumption ==
  Kinds \subseteq {"ok", "creg", "prompt", "cmgr", "clcc", "cssi", "cmgs", "long"}

VARIABLES
  frames,      (* the answers the modem gives, in order                     *)
  rest,        (* the bytes not read from the port yet                      *)
  rb,          (* the ring buffer of do_monitor_phone                       *)
  read_result, (* where the parser is: 0 before a line break, 1 after it    *)
  pc,          (* at_wait, the loop over the results, or disconnected       *)
  delivered,   (* the texts given to at_response                            *)
  damage,      (* the last answer that may have been damaged, or -1         *)
  cut          (* the answers inside which a read ended                     *)

readVars == <<frames, rest, rb, read_result, pc, delivered, damage, cut>>

CR == "CR"
LF == "LF"
Space == " "
Break == <<CR, LF>>
Prompt == <<">", Space>>
OkLine == <<LF, CR, LF, "O", "K", CR, LF>>
Tag(word) == <<"+", word>>
CssiLength == 3 (* eight bytes: two tokens for the tag and one for the rest *)

(* the words the parser compares with, and those it only passes on *)
Marks == {CR, LF, Space, "+", ">", "O", "K", "CREG:", "CMGR:", "CNUM:", "CLCC:", "CSSI:",
          "CSSU:", "CMS ERROR:", "CMGS:", "CUSD:"}
Tokens == Marks \cup {Texts[j] : j \in 1..MaxFrames}

ASSUME TextsAssumption == \A j \in 1..MaxFrames : Texts[j] \notin Marks

-----------------------------------------------------------------------------
(* What the modem sends.  The doubled line break before +CMGS and the      *)
(* missing one after +CSSI are the forms that at_read_result_iov expects.  *)

Frame(kind, j) ==
  CASE kind = "ok"     -> <<CR, LF, "O", "K", CR, LF>>
    [] kind = "creg"   -> <<CR, LF, "+", "CREG:", Texts[j], CR, LF>>
    [] kind = "prompt" -> <<CR, LF, ">", Space>>
    [] kind = "cmgr"   -> <<CR, LF, "+", "CMGR:", Texts[j], CR, LF, Texts[j], CR,
                            LF, CR, LF, "O", "K", CR, LF>>
    [] kind = "clcc"   -> <<CR, LF, "+", "CLCC:", Texts[j], CR, LF,
                            "+", "CLCC:", Texts[j], CR, LF, CR, LF, "O", "K", CR, LF>>
    [] kind = "cssi"   -> <<CR, LF, "+", "CSSI:", Texts[j]>>
    [] kind = "cmgs"   -> <<CR, LF, CR, LF, "+", "CMGS:", Texts[j], CR, LF>>
    [] kind = "long"   -> <<CR, LF, "+", "CUSD:">> \o [i \in 1..Size |-> Texts[j]] \o Break

(* the texts at_response must see for it: +CMGR comes with its OK          *)
Expected(kind, j) ==
  CASE kind = "ok"     -> << <<"O", "K">> >>
    [] kind = "creg"   -> << <<"+", "CREG:", Texts[j]>> >>
    [] kind = "prompt" -> << <<">">> >>
    [] kind = "cmgr"   -> << <<"+", "CMGR:", Texts[j], CR, LF, Texts[j]>> >>
    [] kind = "clcc"   -> << <<"+", "CLCC:", Texts[j], CR, LF, "+", "CLCC:", Texts[j]>>,
                             <<"O", "K">> >>
    [] kind = "cssi"   -> << <<"+", "CSSI:">> >>
    [] kind = "cmgs"   -> << <<"+", "CMGS:", Texts[j]>> >>
    [] kind = "long"   -> <<>>

(* answer j and those behind it                                            *)
Sent(fs, j) == FlattenSeq([i \in 1..(Len(fs) - j + 1) |-> Frame(fs[i + j - 1], i + j - 1)])

(* the last n bytes of an answer that began before                         *)
ASSUME TailsAssumption == 0 \in Tails /\ Tails \subseteq 0..Len(Frame("cmgr", 1))

Remainder(n) == LET f == Frame("cmgr", 1) IN SubSeq(f, Len(f) - n + 1, Len(f))

(* A read that ends behind the doubled line break of +CMGS, or inside its  *)
(* tag, makes the parser take the break for an empty result.               *)
TornBy(left) == {j \in DOMAIN frames :
                   frames[j] = "cmgs" /\ Len(Sent(frames, j)) - left \in {4, 5}}

CutBy(left) == {j \in DOMAIN frames :
                  Len(Sent(frames, j)) > left /\ left > Len(Sent(frames, j + 1))}

-----------------------------------------------------------------------------
(* The ring buffer.  rb_read_until_mem_iov looks in the part before the    *)
(* end of the buffer, across it, and in the part after it.                 *)

rb_init == [buf |-> [i \in 0..(Size - 1) |-> CR], used |-> 0, read |-> 0, write |-> 0]
rb_free == Size - rb.used
Wrap(i) == IF i >= Size THEN i - Size ELSE i
At(i) == rb.buf[Wrap(rb.read + i)]
Wrapped == rb.read + rb.used > Size
Upper == Size - rb.read (* bytes before the end of the buffer, if wrapped   *)

rb_memcmp(mem) ==
  IF rb.used > 0 /\ rb.used >= Len(mem)
  THEN IF \A i \in DOMAIN mem : At(i - 1) = mem[i] THEN 0 ELSE 1
  ELSE -1

Same(mem) == rb_memcmp(mem) = 0

(* the matches of mem that start at one of these offsets                   *)
Matches(mem, offsets) ==
  {o \in offsets : \A i \in DOMAIN mem : At(o + i - 1) = mem[i]}

BadUntilMem(mem) == (* a match across the end of the buffer is not seen *)
  LET ends == {o \in 0..(rb.used - Len(mem)) : Wrapped => o + Len(mem) <= Upper \/ o >= Upper}
      hits == Matches(mem, ends)
  IN  IF hits = {} THEN -1 ELSE Min(hits)

(* the offset of the first match, or -1                                    *)
rb_read_until_mem_iov(mem) ==
  LET len == Len(mem)
      before == 0..(Upper - len)
      across == {Upper - (len - i) : i \in {k \in 1..(len - 1) :
                   k >= len - Upper /\ Upper + k <= rb.used}}
      after == Upper..(rb.used - len)
      hits == CASE rb.used = 0 \/ rb.used < len -> {}
                [] ~Wrapped -> Matches(mem, 0..(rb.used - len))
                [] OTHER -> Matches(mem, before \cup across \cup after)
  IN  IF hits = {} THEN -1 ELSE Min(hits)

rb_read_upd(r, len) ==
  LET n == IF r.used < len THEN r.used ELSE len
  IN  IF n = r.used
      THEN [r EXCEPT !.used = 0, !.read = 0, !.write = 0]
      ELSE [r EXCEPT !.used = @ - n, !.read = Wrap(@ + n)]

(* readv() into the free part, which may wrap, then rb_write_upd           *)
rb_write(r, bytes) ==
  LET s == r.write + Len(bytes)
  IN  [r EXCEPT !.used = @ + Len(bytes),
                !.write = IF s > Size THEN s - Size ELSE s,
                !.buf = [i \in 0..(Size - 1) |->
                           LET k == Wrap(i + Size - Wrap(r.write))
                           IN  IF k < Len(bytes) THEN bytes[k + 1] ELSE @[i]]]

-----------------------------------------------------------------------------
ReadInit ==
  /\ frames \in SeqOf(Kinds, MaxFrames)
  /\ \A j \in DOMAIN frames : frames[j] = "prompt" /\ j < Len(frames)
                                => frames[j + 1] # "prompt"
  /\ \A j \in DOMAIN frames : frames[j] = "long" => j = Len(frames)
  /\ \E n \in Tails :
       /\ rest = Remainder(n) \o Sent(frames, 1)
       /\ damage = IF n > 0 THEN 0 ELSE -1
  /\ rb = rb_init
  /\ read_result = 0
  /\ pc = "wait"
  /\ delivered = <<>>
  /\ cut = {}

(* at_wait and at_read: some of the bytes the port has                     *)
Read ==
  /\ pc = "wait"
  /\ \E n \in 1..rb_free :
       /\ n <= Len(rest)
       /\ rb' = rb_write(rb, SubSeq(rest, 1, n))
       /\ rest' = SubSeq(rest, n + 1, Len(rest))
       /\ damage' = Max({damage} \cup TornBy(Len(rest) - n))
       /\ cut' = cut \cup CutBy(Len(rest) - n)
  /\ pc' = "parse"
  /\ UNCHANGED <<frames, read_result, delivered>>

(* no room is left: at_read fails and the thread disconnects the device    *)
Overflow ==
  /\ pc = "wait" /\ rest # <<>>
  /\ rb_free = 0
  /\ pc' = "disconnected"
  /\ UNCHANGED <<frames, rest, rb, read_result, delivered, damage, cut>>

-----------------------------------------------------------------------------
(* at_read_result_iov: one turn of it, which calls itself again (Skip),    *)
(* gives a result (Deliver) or wants more bytes (More).                    *)

Looking == pc = "parse" /\ rb.used > 0

Skip(n, result) ==
  /\ rb' = rb_read_upd(rb, n)
  /\ read_result' = result
  /\ UNCHANGED <<frames, rest, pc, delivered, damage, cut>>

(* the result, without its last byte, to at_response; the classification   *)
(* takes the bytes out of the buffer                                       *)
Deliver(len, taken) ==
  /\ delivered' = Append(delivered, [i \in 1..(len - 1) |-> At(i - 1)])
  /\ rb' = rb_read_upd(rb, taken)
  /\ read_result' = 0
  /\ UNCHANGED <<frames, rest, pc, damage, cut>>

More ==
  /\ pc' = "wait"
  /\ UNCHANGED <<frames, rest, rb, read_result, delivered, damage, cut>>

NothingLeft == pc = "parse" /\ rb.used = 0 /\ More

(* before a result                                                         *)
Opened == Looking /\ read_result = 0 /\ Same(Break) /\ Skip(2, 1)

BadHalfBreak == Looking /\ read_result = 0 /\ rb_memcmp(Break) < 0 /\ UNCHANGED readVars

HalfBreak == Looking /\ read_result = 0 /\ rb_memcmp(Break) < 0 /\ More

Multiline ==
  /\ Looking /\ read_result = 0
  /\ rb_memcmp(Break) > 0 /\ Same(<<LF>>)
  /\ Skip(1, 0)

BadGarbage == (* all the bytes are thrown away, not those of one line *)
  /\ Looking /\ read_result = 0
  /\ rb_memcmp(Break) > 0 /\ ~Same(<<LF>>)
  /\ Skip(rb.used, 0)

Garbage ==
  /\ Looking /\ read_result = 0
  /\ rb_memcmp(Break) > 0 /\ ~Same(<<LF>>)
  /\ LET p == rb_read_until_mem_iov(<<CR>>)
     IN  Skip(IF p >= 0 THEN p + 1 ELSE rb.used, 0)

(* in a result                                                             *)
Doubled == \E word \in {"CSSU:", "CMS ERROR:", "CMGS:"} : Same(<<CR, LF, "+", word>>)
Listing == \E word \in {"CMGR:", "CNUM:", "CLCC:"} : Same(Tag(word))

Cssi ==
  /\ Looking /\ read_result = 1 /\ Same(Tag("CSSI:"))
  /\ IF rb.used >= CssiLength THEN Deliver(CssiLength, CssiLength) ELSE More

BreakAgain == Looking /\ read_result = 1 /\ Doubled /\ Skip(2, 1)

SmsPrompt == Looking /\ read_result = 1 /\ Same(Prompt) /\ Deliver(2, 2)

(* at_read_result_classification: only +CMGR takes the OK with it          *)
Lines ==
  /\ Looking /\ read_result = 1 /\ Listing
  /\ LET p == rb_read_until_mem_iov(OkLine)
     IN  IF p < 0 THEN More
         ELSE Deliver(p, IF Same(Tag("CMGR:")) THEN p + Len(OkLine) ELSE p + 1)

Line ==
  /\ Looking /\ read_result = 1
  /\ ~Same(Tag("CSSI:")) /\ ~Doubled /\ ~Same(Prompt) /\ ~Listing
  /\ LET p == rb_read_until_mem_iov(Break)
     IN  IF p < 0 THEN More ELSE Deliver(p + 1, p + 2)

at_read_result_iov ==
  \/ Opened \/ HalfBreak \/ Multiline \/ Garbage
  \/ Cssi \/ BreakAgain \/ SmsPrompt \/ Lines \/ Line

ReadNext == Read \/ Overflow \/ NothingLeft \/ at_read_result_iov

ReadSpec == ReadInit /\ [][ReadNext]_readVars /\ WF_readVars(ReadNext)

-----------------------------------------------------------------------------
ExpectedOf(i, n) == FlattenSeq([j \in 1..(n - i + 1) |-> Expected(frames[i + j - 1], i + j - 1)])
AllRead == rest = <<>> /\ pc = "wait"

RingBuffer == [buf : [0..(Size - 1) -> Tokens], used : 0..Size, read : 0..(Size - 1),
               write : 0..Size]

(* The positions stay in the buffer and the parser has two places.         *)
ReadTypeOK ==
  /\ frames \in Seq(Kinds) /\ Len(frames) <= MaxFrames
  /\ rest \in Seq(Tokens) /\ delivered \in Seq(Seq(Tokens))
  /\ rb \in RingBuffer /\ Wrap(rb.read + rb.used) = Wrap(rb.write)
  /\ read_result \in {0, 1}
  /\ pc \in {"wait", "parse", "disconnected"}
  /\ damage \in -1..MaxFrames /\ cut \subseteq DOMAIN frames

(* However the reads cut the stream (ringbuffer.c's search over the end of *)
(* its buffer included), at_response sees the results of the answers, each *)
(* once, whole and in order, unless the stream began inside an answer or   *)
(* a read tore a doubled line break; and none is left in the buffer.  The  *)
(* buffer fills up, and the device is given up for it, only when a single  *)
(* answer is longer than the buffer.                                       *)
Framed ==
  /\ damage < 0 =>
       /\ IsPrefix(delivered, ExpectedOf(1, Len(frames)))
       /\ AllRead => delivered = ExpectedOf(1, Len(frames))
  /\ pc = "disconnected" => \E j \in DOMAIN frames : frames[j] = "long"

(* After damage the parser finds its way back at the first answer that     *)
(* ends with a line break and comes in one read: those behind it are       *)
(* delivered, each once, whole and in order, however they are cut.         *)
Resynchronised ==
  AllRead /\ damage >= 0 =>
    \A j \in DOMAIN frames \ cut :
      j >= damage /\ frames[j] \notin {"prompt", "cssi"} =>
        IsSuffix(ExpectedOf(j + 1, Len(frames)), delivered)

(* Not so without that one read (AtReadShifted.cfg): when each read ends   *)
(* just before the last line break of an answer, the parser takes that     *)
(* break for the first one of the next answer, and every answer is lost.   *)
FindsItsWay ==
  AllRead /\ damage >= 0 =>
    \A j \in DOMAIN frames :
      j >= damage /\ frames[j] \notin {"prompt", "cssi"} =>
        IsSuffix(ExpectedOf(j + 1, Len(frames)), delivered)

(* The parser never runs for ever on bytes it has: it comes back to wait   *)
(* for the port, or gives up, until all is read.                           *)
AllIsRead == <>[](AllRead \/ pc = "disconnected")
=============================================================================
