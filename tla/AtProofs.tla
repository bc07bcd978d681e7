----------------------------- MODULE AtProofs -----------------------------
(***************************************************************************)
(* Proofs about the data port of a device: the commands that go out        *)
(* (AtQueue), for every set of tasks, every set of command lists and every *)
(* bound on the read buffer; and the results that come in (AtRead), for    *)
(* every size of the ring buffer, every list of answers and every way the  *)
(* reads cut them.                                                         *)
(*                                                                         *)
(* AtQueue: the invariant is first stated for an arbitrary driver record s *)
(* and read buffer inb, so that each operation of at_queue.c has a lemma   *)
(* of its own; the proof of an action then follows the calls its handler   *)
(* makes.  The commands left are summed up by a function, for which        *)
(* induction up to the length of the queue is stated with a set in place   *)
(* of a predicate.                                                         *)
(*                                                                         *)
(* AtRead: the bytes the modem sends are one sequence, All(frames), in     *)
(* which answer k begins at Base(frames, k); the buffer shows the piece of *)
(* it from Here on.  What the parser does is first restated on that        *)
(* sequence (Turn), where it is followed answer by answer.                 *)
(***************************************************************************)
EXTENDS AtQueue, AtRead, SequenceTheorems, WellFoundedInduction, TLAPS

(* the shape of the queue, without the port *)
Shape(s) ==
  /\ s \in AtState
  /\ s.at_tasks = Len(s.queue)
  /\ \A i \in DOMAIN s.queue : s.queue[i].cindex < Len(s.queue[i].cmds)
  /\ \A i \in 2 .. Len(s.queue) : ~s.queue[i].sent

HeadKey(s) == CurrentKey(Head(s.queue))

(* what is on the line or read but not handled answers the head *)
LineOK(s) ==
  /\ Len(s.line) <= 1
  /\ \A i \in DOMAIN s.line : InFlight(s) /\ s.line[i] = HeadKey(s)
IsFinal(inb, i) == i \in DOMAIN inb /\ inb[i].to # Unsolicited
InboxOK(s, inb) ==
  /\ \A i \in DOMAIN inb : IsFinal(inb, i) => InFlight(s) /\ inb[i].to = HeadKey(s) /\ s.line = <<>>
  /\ \A i, j \in DOMAIN inb : IsFinal(inb, i) /\ IsFinal(inb, j) => i = j
Serial1(s, inb) == Shape(s) /\ LineOK(s) /\ inb \in Seq(Message) /\ InboxOK(s, inb)

-----------------------------------------------------------------------------
(* Induction over numbers, with sets in place of predicates.               *)

(* A set of numbers that is not empty has a least one. *)
LEMMA LeastNumber ==
  ASSUME NEW T, T \subseteq Nat, T # {}
  PROVE  \E n \in T : \A m \in T : n <= m
<1> DEFINE R == OpToRel(<, Nat)
<1>1. IsWellFoundedOn(R, Nat)
  BY NatLessThanWellFounded
<1>2. \A m, n \in Nat : m < n => <<m, n>> \in R
  BY DEF OpToRel
<1> HIDE DEF R
<1>3. PICK n \in T : \A m \in T : ~(<<m, n>> \in R)
  BY <1>1, WFMin
<1>4. ASSUME NEW m \in T PROVE n <= m
  <2>1. m \in Nat /\ n \in Nat
    OBVIOUS
  <2>2. ~(m < n)
    BY <1>2, <1>3, <2>1
  <2>. QED BY <2>1, <2>2
<1> QED BY <1>4

(* Induction up to a bound: a set that holds 0, and each n + 1 up to N with *)
(* n, holds every number up to N.                                          *)
LEMMA BoundedInduction ==
  ASSUME NEW N \in Nat, NEW T, 0 \in T,
         ASSUME NEW n \in 0 .. N, n + 1 <= N, n \in T PROVE n + 1 \in T
  PROVE  0 .. N \subseteq T
<1> SUFFICES ASSUME ~(0 .. N \subseteq T) PROVE FALSE
  OBVIOUS
<1>1. PICK n \in (0 .. N) \ T : \A m \in (0 .. N) \ T : n <= m
  <2>1. (0 .. N) \ T \subseteq Nat /\ (0 .. N) \ T # {}
    OBVIOUS
  <2>. QED BY <2>1, LeastNumber
<1>2. n # 0 /\ n - 1 \in 0 .. N /\ (n - 1) + 1 = n
  BY <1>1
<1>3. n - 1 \in T
  BY <1>1, <1>2
<1>4. (n - 1) + 1 \in T
  BY <1>1, <1>2, <1>3
<1> QED BY <1>1, <1>2, <1>4

-----------------------------------------------------------------------------
(* Sequences: inserting behind the head and replacing the head.            *)

LEMMA InsertSecond ==
  ASSUME NEW S, NEW q \in Seq(S), NEW t \in S, q # <<>>
  PROVE  LET r == <<Head(q), t>> \o Tail(q)
         IN  /\ r \in Seq(S) /\ Len(r) = Len(q) + 1
             /\ r[1] = q[1] /\ r[2] = t /\ Head(r) = Head(q)
             /\ \A i \in 3 .. Len(r) : r[i] = q[i - 1]
<1>1. /\ Tail(q) \in Seq(S) /\ Len(Tail(q)) = Len(q) - 1 /\ Head(q) \in S
      /\ \A i \in 1 .. Len(Tail(q)) : Tail(q)[i] = q[i + 1]
  BY HeadTailProperties
<1>2. <<Head(q), t>> \in Seq(S) /\ Len(<<Head(q), t>>) = 2
  BY <1>1
<1>. DEFINE r == <<Head(q), t>> \o Tail(q)
<1>3. /\ r \in Seq(S) /\ Len(r) = 2 + Len(Tail(q))
      /\ \A i \in 1 .. 2 + Len(Tail(q)) :
            r[i] = IF i <= 2 THEN <<Head(q), t>>[i] ELSE Tail(q)[i - 2]
  BY <1>1, <1>2, ConcatProperties
<1>4. Len(q) \in Nat /\ Len(q) >= 1 /\ Len(Tail(q)) \in Nat
  BY EmptySeq, <1>1
<1>5. r[1] = Head(q) /\ r[2] = t
  BY <1>3, <1>4
<1>6. Head(r) = r[1] /\ Head(q) = q[1]
  BY <1>3, <1>4
<1>7. \A i \in 3 .. Len(r) : r[i] = q[i - 1]
  BY <1>1, <1>3, <1>4
<1>. QED BY <1>1, <1>3, <1>4, <1>5, <1>6, <1>7

LEMMA ReplaceHead ==
  ASSUME NEW S, NEW q \in Seq(S), NEW t \in S, q # <<>>
  PROVE  LET r == <<t>> \o Tail(q)
         IN  /\ r \in Seq(S) /\ Len(r) = Len(q) /\ r # <<>>
             /\ r[1] = t /\ Head(r) = t /\ Tail(r) = Tail(q)
             /\ \A i \in 2 .. Len(r) : r[i] = q[i]
<1>1. /\ Tail(q) \in Seq(S) /\ Len(Tail(q)) = Len(q) - 1
      /\ \A i \in 1 .. Len(Tail(q)) : Tail(q)[i] = q[i + 1]
  BY HeadTailProperties
<1>2. <<t>> \in Seq(S) /\ Len(<<t>>) = 1
  OBVIOUS
<1>. DEFINE r == <<t>> \o Tail(q)
<1>3. /\ r \in Seq(S) /\ Len(r) = 1 + Len(Tail(q))
      /\ \A i \in 1 .. 1 + Len(Tail(q)) :
            r[i] = IF i <= 1 THEN <<t>>[i] ELSE Tail(q)[i - 1]
  BY <1>1, <1>2, ConcatProperties
<1>4. Len(q) \in Nat /\ Len(q) >= 1 /\ Len(Tail(q)) \in Nat
  BY EmptySeq, <1>1
<1>5. r[1] = t /\ r # <<>>
  BY <1>3, <1>4
<1>6. Head(r) = t
  BY <1>3, <1>4, <1>5
<1>7. \A i \in 2 .. Len(r) : r[i] = q[i]
  BY <1>1, <1>3, <1>4
<1>8. Tail(r) = Tail(q)
  <2>1. /\ Tail(r) \in Seq(S) /\ Len(Tail(r)) = Len(r) - 1
        /\ \A i \in 1 .. Len(Tail(r)) : Tail(r)[i] = r[i + 1]
    BY <1>3, <1>5, HeadTailProperties
  <2>2. \A i \in 1 .. Len(Tail(r)) : Tail(r)[i] = Tail(q)[i]
    BY <2>1, <1>1, <1>3, <1>4, <1>7
  <2>. QED BY <2>1, <2>2, <1>1, <1>3, <1>4, SeqEqual
<1>. QED BY <1>1, <1>3, <1>4, <1>5, <1>6, <1>7, <1>8

-----------------------------------------------------------------------------
(* The operations of at_queue.c.                                           *)

(* Updating a driver record: the four ways at_queue.c does it. *)
SetCounts(s, q, n, c) == [s EXCEPT !.queue = q, !.at_tasks = n, !.at_cmds = c]
SetCommand(s, q, c) == [s EXCEPT !.queue = q, !.at_cmds = c, !.expired = FALSE]
SetLine(s, q, ln) == [s EXCEPT !.queue = q, !.line = ln, !.expired = FALSE]
SetError(s) == [s EXCEPT !.werr = TRUE]

LEMMA UpdateCounts ==
  ASSUME NEW s \in AtState, NEW q \in Seq(Task), NEW n \in Nat, NEW c \in Int
  PROVE  /\ SetCounts(s, q, n, c) \in AtState
         /\ SetCounts(s, q, n, c).queue = q /\ SetCounts(s, q, n, c).at_tasks = n
         /\ SetCounts(s, q, n, c).line = s.line
  BY DEF AtState, SetCounts

LEMMA UpdateCommand ==
  ASSUME NEW s \in AtState, NEW q \in Seq(Task), NEW c \in Int
  PROVE  /\ SetCommand(s, q, c) \in AtState
         /\ SetCommand(s, q, c).queue = q /\ SetCommand(s, q, c).line = s.line
         /\ SetCommand(s, q, c).at_tasks = s.at_tasks
  BY DEF AtState, SetCommand

LEMMA UpdateLine ==
  ASSUME NEW s \in AtState, NEW q \in Seq(Task), NEW ln \in Seq(Key)
  PROVE  /\ SetLine(s, q, ln) \in AtState
         /\ SetLine(s, q, ln).queue = q /\ SetLine(s, q, ln).line = ln
         /\ SetLine(s, q, ln).at_tasks = s.at_tasks
  BY DEF AtState, SetLine

LEMMA UpdateError ==
  ASSUME NEW s \in AtState
  PROVE  /\ SetError(s) \in AtState
         /\ SetError(s).queue = s.queue /\ SetError(s).line = s.line
         /\ SetError(s).at_tasks = s.at_tasks
  BY DEF AtState, SetError

LEMMA TaskFields ==
  ASSUME NEW t \in Task
  PROVE  /\ t.id \in Ids /\ t.cmds \in AllScripts /\ t.cindex \in Nat /\ t.sent \in BOOLEAN
         /\ t.cmds \in Seq(Cmd) /\ Len(t.cmds) \in Nat /\ CurrentKey(t) \in Key
         /\ LET n == [t EXCEPT !.cindex = @ + 1, !.sent = FALSE]
            IN  n \in Task /\ ~n.sent /\ n.cmds = t.cmds /\ n.cindex = t.cindex + 1
         /\ LET n == [t EXCEPT !.sent = TRUE]
            IN  /\ n \in Task /\ n.sent /\ n.cmds = t.cmds /\ n.cindex = t.cindex
                /\ CurrentKey(n) = CurrentKey(t)
<1>1. t.id \in Ids /\ t.cmds \in AllScripts /\ t.cindex \in Nat /\ t.sent \in BOOLEAN
  BY DEF Task
<1>2. t.cmds \in Seq(Cmd) /\ Len(t.cmds) \in Nat
  BY <1>1, ScriptAssumption, LenProperties
<1>3. LET n == [t EXCEPT !.sent = TRUE]
      IN  n \in Task /\ n.sent /\ n.cmds = t.cmds /\ n.cindex = t.cindex /\ n.id = t.id
  BY DEF Task
<1>4. ASSUME NEW k \in Nat
      PROVE  LET n == [t EXCEPT !.cindex = k, !.sent = FALSE]
             IN  n \in Task /\ ~n.sent /\ n.cmds = t.cmds /\ n.cindex = k
  BY DEF Task
<1>5. t.cindex + 1 \in Nat
  BY <1>1
<1>. QED BY <1>1, <1>2, <1>3, <1>4, <1>5 DEF CurrentKey, Key

LEMMA NewTaskType ==
  ASSUME NEW id \in Ids, NEW cmds \in AllScripts
  PROVE  /\ NewTask(id, cmds) \in Task
         /\ NewTask(id, cmds).cindex < Len(NewTask(id, cmds).cmds)
         /\ ~NewTask(id, cmds).sent
         /\ Len(NewTask(id, cmds).cmds) \in Nat
<1>1. cmds \in Seq(Cmd) /\ cmds # <<>>
  BY ScriptAssumption
<1>2. Len(cmds) \in Nat \ {0}
  BY <1>1, EmptySeq
<1>. QED BY <1>2 DEF NewTask, Task

(* Adding a task keeps the head, or makes the new, unsent, task the head. *)
LEMMA AddShape ==
  ASSUME NEW s, Shape(s), NEW id \in Ids, NEW cmds \in AllScripts, NEW prio \in BOOLEAN,
         NEW r, r = at_queue_add(s, NewTask(id, cmds), prio)
  PROVE  /\ Shape(r) /\ r.queue # <<>> /\ r.line = s.line
         /\ s.queue # <<>> => Head(r.queue) = Head(s.queue)
         /\ s.queue = <<>> => ~InFlight(r)
<1>. DEFINE t == NewTask(id, cmds)
            q == s.queue
<1>1. t \in Task /\ t.cindex < Len(t.cmds) /\ ~t.sent /\ Len(t.cmds) \in Nat
  BY NewTaskType
<1>. HIDE DEF t
<1>2. s \in AtState /\ q \in Seq(Task) /\ s.at_tasks = Len(q) /\ Len(q) \in Nat
  BY DEF Shape, AtState
<1>3. ASSUME NEW a \in Seq(Task),
             r = SetCounts(s, a, s.at_tasks + 1, s.at_cmds + Len(t.cmds))
      PROVE  r \in AtState /\ r.queue = a /\ r.line = s.line /\ r.at_tasks = Len(q) + 1
  <2>. DEFINE n == s.at_tasks + 1
              c == s.at_cmds + Len(t.cmds)
  <2>1. n \in Nat /\ c \in Int
    BY <1>1, <1>2 DEF AtState
  <2>4. n = Len(q) + 1 /\ s \in AtState
    BY <1>2
  <2>2. r = SetCounts(s, a, n, c)
    BY <1>3
  <2>. HIDE DEF n, c
  <2>3. /\ SetCounts(s, a, n, c) \in AtState /\ SetCounts(s, a, n, c).queue = a
        /\ SetCounts(s, a, n, c).line = s.line /\ SetCounts(s, a, n, c).at_tasks = n
    <3>1. s \in AtState
      BY <1>2
    <3>. QED BY <3>1, <2>1, UpdateCounts
  <2>. QED BY <2>4, <2>2, <2>3
<1>4. CASE prio /\ q # <<>>
  <2>. DEFINE a == <<Head(q), t>> \o Tail(q)
  <2>1. /\ a \in Seq(Task) /\ Len(a) = Len(q) + 1
        /\ a[1] = q[1] /\ a[2] = t /\ Head(a) = Head(q)
        /\ \A i \in 3 .. Len(a) : a[i] = q[i - 1]
    BY <1>1, <1>2, <1>4, InsertSecond
  <2>2. r \in AtState /\ r.queue = a /\ r.line = s.line /\ r.at_tasks = Len(q) + 1
    <3>1. r = SetCounts(s, a, s.at_tasks + 1, s.at_cmds + Len(t.cmds))
      BY <1>4 DEF at_queue_add, SetCounts, t
    <3>. HIDE DEF a
    <3>. QED BY <1>3, <2>1, <3>1
  <2>. HIDE DEF a
  <2>3. ASSUME NEW i \in DOMAIN a
        PROVE  a[i].cindex < Len(a[i].cmds) /\ (i # 1 => ~a[i].sent)
    <3>1. CASE i = 1
      <4>1. 1 \in DOMAIN q
        BY <1>2, <1>4, EmptySeq
      <4>. QED BY <4>1, <3>1, <2>1 DEF Shape
    <3>2. CASE i = 2
      BY <3>2, <2>1, <1>1
    <3>3. CASE i \in 3 .. Len(a)
      <4>1. i - 1 \in 2 .. Len(q) /\ i - 1 \in DOMAIN q /\ a[i] = q[i - 1]
        BY <3>3, <2>1, <1>2
      <4>. QED BY <4>1 DEF Shape
    <3>. QED BY <3>1, <3>2, <3>3, <2>1, <1>2
  <2>4. \A i \in 2 .. Len(a) : i \in DOMAIN a /\ i # 1
    BY <2>1, <1>2
  <2>5. Shape(r)
    BY <2>1, <2>2, <2>3, <2>4 DEF Shape
  <2>6. r.queue # <<>> /\ Head(r.queue) = Head(q)
    BY <2>1, <2>2, <1>2
  <2>. QED BY <1>4, <2>2, <2>5, <2>6
<1>5. CASE ~(prio /\ q # <<>>)
  <2>. DEFINE a == Append(q, t)
  <2>1. /\ a \in Seq(Task) /\ Len(a) = Len(q) + 1 /\ a # <<>>
        /\ \A i \in 1 .. Len(q) : a[i] = q[i]
        /\ a[Len(q) + 1] = t
    BY <1>1, <1>2, AppendProperties
  <2>2. r \in AtState /\ r.queue = a /\ r.line = s.line /\ r.at_tasks = Len(q) + 1
    <3>1. r = SetCounts(s, a, s.at_tasks + 1, s.at_cmds + Len(t.cmds))
      BY <1>5 DEF at_queue_add, SetCounts, t
    <3>. HIDE DEF a
    <3>. QED BY <1>3, <2>1, <3>1
  <2>3. Head(a) = IF q = <<>> THEN t ELSE Head(q)
    BY <1>1, <1>2, HeadTailAppend
  <2>. HIDE DEF a
  <2>4. ASSUME NEW i \in DOMAIN a
        PROVE  a[i].cindex < Len(a[i].cmds) /\ (i # 1 => ~a[i].sent)
    <3>1. CASE i \in 1 .. Len(q)
      BY <3>1, <2>1, <1>2 DEF Shape
    <3>2. CASE i = Len(q) + 1
      BY <3>2, <2>1, <1>1
    <3>. QED BY <3>1, <3>2, <2>1, <1>2
  <2>5. \A i \in 2 .. Len(a) : i \in DOMAIN a /\ i # 1
    BY <2>1, <1>2
  <2>6. Shape(r)
    BY <2>1, <2>2, <2>4, <2>5 DEF Shape
  <2>. QED BY <1>1, <2>1, <2>2, <2>3, <2>6 DEF InFlight
<1>. QED BY <1>4, <1>5

(* Ending the current command leaves nothing of the queue in flight. *)
LEMMA RemoveShape ==
  ASSUME NEW s, Shape(s), s.queue # <<>>, NEW res
  PROVE  /\ Shape(at_queue_remove_cmd(s, res))
         /\ ~InFlight(at_queue_remove_cmd(s, res))
         /\ at_queue_remove_cmd(s, res).line = s.line
<1>. DEFINE q  == s.queue
            t  == Head(q)
            nx == [t EXCEPT !.cindex = @ + 1, !.sent = FALSE]
            s1 == [s EXCEPT !.queue = <<nx>> \o Tail(@), !.at_cmds = @ - 1, !.expired = FALSE]
            r  == at_queue_remove_cmd(s, res)
<1>1. /\ s \in AtState /\ q \in Seq(Task) /\ q # <<>> /\ s.at_tasks = Len(q)
      /\ Len(q) \in Nat /\ Len(q) >= 1
  BY EmptySeq DEF Shape, AtState
<1>2. t \in Task /\ t = q[1]
  BY <1>1, HeadTailProperties
<1>3. nx \in Task /\ ~nx.sent /\ nx.cmds = t.cmds
  BY <1>2, TaskFields
<1>4. /\ s1 \in AtState /\ s1.line = s.line /\ s1.at_tasks = s.at_tasks
      /\ s1.queue \in Seq(Task) /\ Len(s1.queue) = Len(q) /\ s1.queue # <<>>
      /\ Head(s1.queue) = nx /\ s1.queue[1] = nx /\ Tail(s1.queue) = Tail(q)
      /\ \A i \in 2 .. Len(q) : s1.queue[i] = q[i]
  <2>. DEFINE a == <<nx>> \o Tail(q)
  <2>. HIDE DEF nx
  <2>1. /\ a \in Seq(Task) /\ Len(a) = Len(q) /\ a # <<>>
        /\ a[1] = nx /\ Head(a) = nx /\ Tail(a) = Tail(q)
        /\ \A i \in 2 .. Len(a) : a[i] = q[i]
    BY <1>1, <1>3, ReplaceHead
  <2>2. s.at_cmds - 1 \in Int
    BY <1>1 DEF AtState
  <2>. HIDE DEF a
  <2>3. s1 = SetCommand(s, a, s.at_cmds - 1)
    BY DEF a, SetCommand
  <2>. HIDE DEF s1
  <2>4. s1 \in AtState /\ s1.queue = a /\ s1.line = s.line /\ s1.at_tasks = s.at_tasks
    BY <1>1, <2>1, <2>2, <2>3, UpdateCommand
  <2>. QED BY <2>1, <2>4
<1>6. CASE nx.cindex >= Len(t.cmds) \/ (CurrentCmd(t).res # res /\ ~CurrentCmd(t).ignore)
  <2>1. r = at_queue_remove(s1)
    BY <1>6 DEF at_queue_remove_cmd
  <2>2. /\ Tail(q) \in Seq(Task) /\ Len(Tail(q)) = Len(q) - 1
        /\ \A i \in 1 .. Len(Tail(q)) : Tail(q)[i] = q[i + 1]
    BY <1>1, HeadTailProperties
  <2>3. s1.at_tasks - 1 \in Nat /\ s1.at_cmds - (Len(nx.cmds) - nx.cindex) \in Int
    <3>1. Len(nx.cmds) \in Nat /\ nx.cindex \in Nat
      BY <1>3, TaskFields
    <3>2. s1.at_tasks = s.at_tasks /\ s1.at_cmds \in Int
      BY <1>4 DEF AtState
    <3>. HIDE DEF s1, nx
    <3>. QED BY <3>1, <3>2, <1>1
  <2>4. /\ r \in AtState /\ r.queue = Tail(q) /\ r.line = s.line
        /\ r.at_tasks = s.at_tasks - 1
    <3>. HIDE DEF s1, nx
    <3>. DEFINE n == s1.at_tasks - 1
                c == s1.at_cmds - (Len(nx.cmds) - nx.cindex)
    <3>1. r = SetCounts(s1, Tail(q), n, c)
      BY <2>1, <1>4 DEF at_queue_remove, SetCounts
    <3>2. n \in Nat /\ c \in Int
      BY <2>3
    <3>4. n = s.at_tasks - 1
      BY <1>4
    <3>. HIDE DEF r, n, c
    <3>. HIDE DEF s1
    <3>3. /\ SetCounts(s1, Tail(q), n, c) \in AtState
          /\ SetCounts(s1, Tail(q), n, c).queue = Tail(q)
          /\ SetCounts(s1, Tail(q), n, c).line = s1.line
          /\ SetCounts(s1, Tail(q), n, c).at_tasks = n
      <4>. DEFINE a == Tail(q)
      <4>1. s1 \in AtState /\ a \in Seq(Task)
        BY <1>4, <2>2
      <4>. HIDE DEF a
      <4>2. /\ SetCounts(s1, a, n, c) \in AtState /\ SetCounts(s1, a, n, c).queue = a
            /\ SetCounts(s1, a, n, c).line = s1.line
            /\ SetCounts(s1, a, n, c).at_tasks = n
        BY <4>1, <3>2, UpdateCounts
      <4>. QED BY <4>2 DEF a
    <3>. QED BY <3>1, <3>3, <3>4, <1>4
  <2>5. Shape(r)
    <3>1. \A i \in DOMAIN r.queue : i + 1 \in 2 .. Len(q) /\ i + 1 \in DOMAIN q /\ r.queue[i] = q[i + 1]
      <4>. HIDE DEF r
      <4>. QED BY <2>2, <2>4, <1>1
    <3>2. \A i \in DOMAIN r.queue : r.queue[i].cindex < Len(r.queue[i].cmds) /\ ~r.queue[i].sent
      <4>. HIDE DEF r
      <4>. QED BY <3>1 DEF Shape
    <3>. HIDE DEF r
    <3>3. r.at_tasks = Len(r.queue) /\ DOMAIN r.queue = 1 .. Len(r.queue)
      BY <2>2, <2>4, <1>1
    <3>4. 2 .. Len(r.queue) \subseteq DOMAIN r.queue
      BY <3>3, <2>2, <2>4, <1>1
    <3>. QED BY <3>2, <3>3, <3>4, <2>4 DEF Shape
  <2>6. ~InFlight(r)
    <3>. HIDE DEF r
    <3>1. ASSUME Tail(q) # <<>> PROVE ~Head(Tail(q)).sent
      <4>1. Len(Tail(q)) >= 1 /\ Head(Tail(q)) = Tail(q)[1]
        BY <3>1, <2>2, EmptySeq, HeadTailProperties
      <4>2. Tail(q)[1] = q[2] /\ 2 \in 2 .. Len(q)
        BY <4>1, <2>2, <1>1
      <4>. QED BY <4>1, <4>2 DEF Shape
    <3>. QED BY <3>1, <2>4 DEF InFlight
  <2>. QED BY <2>4, <2>5, <2>6
<1>7. CASE ~(nx.cindex >= Len(t.cmds) \/ (CurrentCmd(t).res # res /\ ~CurrentCmd(t).ignore))
  <2>1. r = s1
    BY <1>7 DEF at_queue_remove_cmd
  <2>2. nx.cindex < Len(nx.cmds)
    <3>1. Len(t.cmds) \in Nat /\ nx.cindex \in Nat
      BY <1>2, <1>3, TaskFields
    <3>. HIDE DEF nx
    <3>. QED BY <3>1, <1>3, <1>7
  <2>3. ~InFlight(s1)
    <3>. HIDE DEF s1, nx
    <3>. QED BY <1>3, <1>4 DEF InFlight
  <2>4. Shape(s1)
    <3>1. \A i \in DOMAIN s1.queue : i = 1 \/ (i \in 2 .. Len(q) /\ i \in DOMAIN q)
      <4>. HIDE DEF s1, nx
      <4>. QED BY <1>1, <1>4
    <3>. HIDE DEF s1, nx
    <3>. QED BY <3>1, <1>1, <1>4, <2>2 DEF Shape
  <2>5. Shape(r) /\ ~InFlight(r) /\ r.line = s.line
    <3>. HIDE DEF s1, r
    <3>. QED BY <2>1, <2>3, <2>4, <1>4
  <2>. QED BY <2>5
<1>. QED BY <1>6, <1>7

(* Writing puts the head, and only it, on the line. *)
LEMMA RunShape ==
  ASSUME NEW s, Shape(s), NEW w \in BOOLEAN,
         NEW r, r = at_queue_run(s, w)
  PROVE  /\ Shape(r)
         /\ ~Waiting(s) => r = s
         /\ Waiting(s) /\ ~w => ~InFlight(r) /\ r.line = s.line
         /\ Waiting(s) /\ w => InFlight(r) /\ r.line = Append(s.line, HeadKey(r))
<1>. DEFINE q == s.queue
<1>1. CASE ~Waiting(s)
  BY <1>1 DEF at_queue_run
<1>2. CASE Waiting(s) /\ ~w
  <2>. DEFINE u == at_queue_remove_cmd(s, "WRITE_ERROR")
  <2>1. Shape(u) /\ ~InFlight(u) /\ u.line = s.line
    BY <1>2, RemoveShape DEF Waiting
  <2>2. r = SetError(u)
    BY <1>2 DEF at_queue_run, SetError
  <2>. HIDE DEF u
  <2>3. r \in AtState /\ r.queue = u.queue /\ r.line = u.line /\ r.at_tasks = u.at_tasks
    BY <2>1, <2>2, UpdateError DEF Shape
  <2>. QED BY <2>1, <2>3, <1>2 DEF Shape, InFlight
<1>3. CASE Waiting(s) /\ w
  <2>. DEFINE t  == Head(q)
              nt == [t EXCEPT !.sent = TRUE]
  <2>1. /\ s \in AtState /\ q \in Seq(Task) /\ q # <<>> /\ s.at_tasks = Len(q)
        /\ Len(q) \in Nat /\ Len(q) >= 1
    BY <1>3, EmptySeq DEF Shape, AtState, Waiting
  <2>2. t \in Task /\ t = q[1]
    BY <2>1, HeadTailProperties
  <2>3. /\ nt \in Task /\ nt.sent /\ nt.cmds = t.cmds /\ nt.cindex = t.cindex
        /\ CurrentKey(nt) = CurrentKey(t) /\ CurrentKey(t) \in Key
    BY <2>2, TaskFields
  <2>. DEFINE a == <<nt>> \o Tail(q)
              l == Append(s.line, CurrentKey(t))
  <2>4. r = SetLine(s, a, l)
    BY <1>3 DEF at_queue_run, SetLine
  <2>. HIDE DEF nt
  <2>5. /\ a \in Seq(Task) /\ Len(a) = Len(q) /\ a # <<>>
        /\ Head(a) = nt /\ a[1] = nt
        /\ \A i \in 2 .. Len(a) : a[i] = q[i]
    BY <2>1, <2>3, ReplaceHead
  <2>6. l \in Seq(Key)
    BY <2>1, <2>3, AppendProperties DEF AtState
  <2>. HIDE DEF a, l
  <2>7. /\ r \in AtState /\ r.queue = a /\ r.line = l /\ r.at_tasks = s.at_tasks
    BY <2>1, <2>4, <2>5, <2>6, UpdateLine
  <2>8. Shape(r)
    <3>1. \A i \in DOMAIN r.queue : i = 1 \/ (i \in 2 .. Len(q) /\ i \in DOMAIN q)
      BY <2>1, <2>5, <2>7
    <3>2. nt.cindex < Len(nt.cmds) /\ 1 \in DOMAIN q
      BY <2>1, <2>2, <2>3 DEF Shape
    <3>. QED BY <3>1, <3>2, <2>1, <2>5, <2>7 DEF Shape
  <2>9. HeadKey(r) = CurrentKey(t) /\ InFlight(r)
    BY <2>3, <2>5, <2>7 DEF InFlight, HeadKey
  <2>. QED BY <1>3, <2>7, <2>8, <2>9 DEF l
<1>. QED BY <1>1, <1>2, <1>3

-----------------------------------------------------------------------------
(* The invariant through each operation.                                   *)

NoFinal(inb) == \A i \in DOMAIN inb : ~IsFinal(inb, i)

(* Without a command in flight nothing is on its way. *)
LEMMA NothingOnItsWay ==
  ASSUME NEW s, NEW inb, Serial1(s, inb), ~InFlight(s)
  PROVE  s.line = <<>> /\ NoFinal(inb)
<1>1. s.line \in Seq(Key)
  BY DEF Serial1, Shape, AtState
<1>2. DOMAIN s.line = {}
  BY DEF Serial1, LineOK
<1>3. s.line = <<>>
  <2>1. Len(s.line) \in Nat /\ DOMAIN s.line = 1 .. Len(s.line)
    BY <1>1, LenProperties
  <2>2. Len(s.line) = 0
    BY <2>1, <1>2, SMTT(30)
  <2>. QED BY <1>1, <2>2, EmptySeq
<1>. QED BY <1>3 DEF Serial1, InboxOK, NoFinal

LEMMA QuietSerial ==
  ASSUME NEW s, NEW inb \in Seq(Message), Shape(s), s.line = <<>>, NoFinal(inb)
  PROVE  Serial1(s, inb)
<1>1. DOMAIN s.line = {} /\ Len(s.line) = 0
  BY EmptySeq
<1>. QED BY <1>1 DEF Serial1, LineOK, InboxOK, NoFinal

LEMMA HeadKeyType ==
  ASSUME NEW s, Shape(s), InFlight(s)
  PROVE  HeadKey(s) \in Key
<1>1. s.queue \in Seq(Task) /\ s.queue # <<>>
  BY DEF Shape, AtState, InFlight
<1>2. Head(s.queue) \in Task
  BY <1>1, HeadTailProperties
<1>. QED BY <1>2, TaskFields DEF HeadKey

LEMMA AddSerial ==
  ASSUME NEW s, NEW inb, Serial1(s, inb), NEW id \in Ids, NEW cmds \in AllScripts,
         NEW prio \in BOOLEAN, NEW r, r = at_queue_add(s, NewTask(id, cmds), prio)
  PROVE  Serial1(r, inb) /\ r.queue # <<>>
<1>1. /\ Shape(r) /\ r.queue # <<>> /\ r.line = s.line
      /\ s.queue # <<>> => Head(r.queue) = Head(s.queue)
      /\ s.queue = <<>> => ~InFlight(r)
  BY AddShape DEF Serial1
<1>2. CASE s.queue = <<>>
  <2>1. ~InFlight(s)
    BY <1>2 DEF InFlight
  <2>. QED BY <2>1, <1>1, NothingOnItsWay, QuietSerial DEF Serial1
<1>3. CASE s.queue # <<>>
  <2>1. (InFlight(r) <=> InFlight(s)) /\ HeadKey(r) = HeadKey(s)
    BY <1>1, <1>3 DEF InFlight, HeadKey
  <2>. QED BY <2>1, <1>1 DEF Serial1, LineOK, InboxOK
<1>. QED BY <1>1, <1>2, <1>3

LEMMA RunSerial ==
  ASSUME NEW s, NEW inb, Serial1(s, inb), NEW w \in BOOLEAN,
         NEW r, r = at_queue_run(s, w)
  PROVE  Serial1(r, inb)
<1>1. /\ Shape(r)
      /\ ~Waiting(s) => r = s
      /\ Waiting(s) /\ ~w => ~InFlight(r) /\ r.line = s.line
      /\ Waiting(s) /\ w => InFlight(r) /\ r.line = Append(s.line, HeadKey(r))
  BY RunShape DEF Serial1
<1>2. ASSUME Waiting(s)
      PROVE  s.line = <<>> /\ NoFinal(inb) /\ inb \in Seq(Message)
  <2>1. ~InFlight(s)
    BY <1>2 DEF InFlight, Waiting
  <2>. QED BY <2>1, NothingOnItsWay DEF Serial1
<1>3. CASE ~Waiting(s)
  BY <1>1, <1>3
<1>4. CASE Waiting(s) /\ ~w
  BY <1>1, <1>2, <1>4, QuietSerial
<1>5. CASE Waiting(s) /\ w
  <2>1. HeadKey(r) \in Key
    BY <1>1, <1>5, HeadKeyType
  <2>2. /\ Len(r.line) = 1 /\ DOMAIN r.line = 1 .. 1
        /\ r.line[1] = HeadKey(r)
    <3>. DEFINE e == <<>>
                k == HeadKey(r)
    <3>1. e \in Seq(Key) /\ Len(e) = 0
      OBVIOUS
    <3>2. k \in Key
      BY <2>1
    <3>. HIDE DEF k
    <3>3. Append(e, k) \in Seq(Key) /\ Len(Append(e, k)) = 1 /\ Append(e, k)[1] = k
      BY <3>1, <3>2, AppendProperties
    <3>4. r.line = Append(e, k)
      BY <1>1, <1>2, <1>5 DEF k
    <3>. HIDE DEF e
    <3>. QED BY <3>3, <3>4 DEF k
  <2>3. LineOK(r)
    <3>1. \A i \in DOMAIN r.line : i = 1
      BY <2>2
    <3>2. InFlight(r)
      BY <1>1, <1>5
    <3>3. \A i \in DOMAIN r.line : r.line[i] = HeadKey(r)
      BY <3>1, <2>2
    <3>4. Len(r.line) <= 1
      BY <2>2
    <3>. QED BY <3>2, <3>3, <3>4 DEF LineOK
  <2>. QED BY <1>1, <1>2, <2>3 DEF Serial1, InboxOK, NoFinal
<1>. QED BY <1>3, <1>4, <1>5

LEMMA TailSerial ==
  ASSUME NEW s, NEW inb, Serial1(s, inb), inb # <<>>
  PROVE  /\ Serial1(s, Tail(inb))
         /\ Head(inb).to # Unsolicited => s.line = <<>> /\ NoFinal(Tail(inb))
<1>1. /\ inb \in Seq(Message) /\ Len(inb) \in Nat /\ Len(inb) >= 1
      /\ Tail(inb) \in Seq(Message) /\ Len(Tail(inb)) = Len(inb) - 1
      /\ Head(inb) = inb[1]
      /\ \A i \in 1 .. Len(Tail(inb)) : Tail(inb)[i] = inb[i + 1]
  BY HeadTailProperties, EmptySeq DEF Serial1
<1>2. ASSUME NEW i \in DOMAIN Tail(inb), IsFinal(Tail(inb), i)
      PROVE  /\ i + 1 \in DOMAIN inb /\ IsFinal(inb, i + 1)
             /\ Tail(inb)[i] = inb[i + 1] /\ i + 1 # 1 /\ i \in Nat
  <2>1. i \in 1 .. Len(Tail(inb)) /\ i + 1 \in DOMAIN inb /\ Tail(inb)[i] = inb[i + 1]
    BY <1>1
  <2>2. i \in Nat /\ i + 1 # 1
    BY <2>1, <1>1
  <2>. QED BY <1>2, <2>1, <2>2 DEF IsFinal
<1>3. InboxOK(s, Tail(inb))
  <2>1. ASSUME NEW i \in DOMAIN Tail(inb), IsFinal(Tail(inb), i)
        PROVE  InFlight(s) /\ Tail(inb)[i].to = HeadKey(s) /\ s.line = <<>>
    BY <2>1, <1>2 DEF Serial1, InboxOK
  <2>2. ASSUME NEW i \in DOMAIN Tail(inb), NEW j \in DOMAIN Tail(inb),
               IsFinal(Tail(inb), i), IsFinal(Tail(inb), j)
        PROVE  i = j
    <3>1. i \in Nat /\ j \in Nat /\ IsFinal(inb, i + 1) /\ IsFinal(inb, j + 1)
          /\ i + 1 \in DOMAIN inb /\ j + 1 \in DOMAIN inb
      BY <2>2, <1>2
    <3>2. i + 1 = j + 1
      BY <3>1 DEF Serial1, InboxOK
    <3>. QED BY <3>1, <3>2
  <2>. QED BY <2>1, <2>2 DEF InboxOK
<1>4. ASSUME Head(inb).to # Unsolicited
      PROVE  s.line = <<>> /\ NoFinal(Tail(inb))
  <2>1. 1 \in DOMAIN inb /\ IsFinal(inb, 1)
    BY <1>1, <1>4 DEF IsFinal
  <2>2. s.line = <<>>
    BY <2>1 DEF Serial1, InboxOK
  <2>3. ASSUME NEW i \in DOMAIN Tail(inb), IsFinal(Tail(inb), i)
        PROVE  FALSE
    BY <2>1, <2>3, <1>2 DEF Serial1, InboxOK
  <2>. QED BY <2>2, <2>3 DEF NoFinal
<1>. QED BY <1>1, <1>3, <1>4 DEF Serial1

LEMMA HandleSerial ==
  ASSUME NEW s, NEW inb, Serial1(s, inb), inb # <<>>,
         NEW r, r = HandleResult(s, Head(inb))
  PROVE  Serial1(r, Tail(inb))
<1>1. CASE r = s
  BY <1>1, TailSerial
<1>2. CASE /\ Head(inb).to # Unsolicited /\ s.queue # <<>>
           /\ r = at_queue_remove_cmd(s, Head(inb).res)
  <2>1. Shape(r) /\ r.line = s.line
    BY <1>2, RemoveShape DEF Serial1
  <2>2. s.line = <<>> /\ NoFinal(Tail(inb)) /\ Tail(inb) \in Seq(Message)
    BY <1>2, TailSerial DEF Serial1
  <2>. QED BY <2>1, <2>2, QuietSerial
<1>. QED BY <1>1, <1>2 DEF HandleResult

-----------------------------------------------------------------------------
(* The inductive invariant and the steps.                                  *)

IInv ==
  /\ Serial1(at, inbox)
  /\ Waiting(at) => at.werr
  /\ monitor \in {"down", "top", "cmd", "idle", "read"}
  /\ fetched \in 0 .. Len(inbox)
  /\ refused \subseteq Ids

(* after at_queue_run the head is on the line, or a write failed *)
LEMMA RunBusy ==
  ASSUME NEW s, Shape(s), NEW w \in BOOLEAN, NEW r, r = at_queue_run(s, w)
  PROVE  Waiting(r) => r.werr
<1>1. CASE ~Waiting(s)
  BY <1>1 DEF at_queue_run
<1>2. CASE Waiting(s) /\ w
  BY <1>2, RunShape DEF InFlight, Waiting
<1>3. CASE Waiting(s) /\ ~w
  <2>. DEFINE u == at_queue_remove_cmd(s, "WRITE_ERROR")
  <2>1. u \in AtState
    BY <1>3, RemoveShape DEF Waiting, Shape
  <2>2. r = [u EXCEPT !.werr = TRUE]
    BY <1>3 DEF at_queue_run
  <2>. HIDE DEF u
  <2>. QED BY <2>1, <2>2 DEF AtState
<1>. QED BY <1>1, <1>2, <1>3

LEMMA EmptySerial == Serial1(EmptyQueue, <<>>) /\ ~Waiting(EmptyQueue)
<1>1. EmptyQueue \in AtState
  BY DEF EmptyQueue, AtState
<1>2. /\ EmptyQueue.queue = <<>> /\ EmptyQueue.line = <<>> /\ EmptyQueue.at_tasks = 0
  BY DEF EmptyQueue
<1>. DEFINE e == <<>>
<1>3. e \in Seq(Message) /\ NoFinal(e)
  BY DEF NoFinal
<1>4. Shape(EmptyQueue)
  BY <1>1, <1>2 DEF Shape
<1>. QED BY <1>2, <1>3, <1>4, QuietSerial DEF Waiting

(* a step that takes the connection down, or the initial state *)
LEMMA DownInv ==
  ASSUME at' = EmptyQueue, inbox' = <<>>, monitor' \in {"down", "top", "cmd", "idle", "read"},
         fetched' = 0, refused' \subseteq Ids
  PROVE  IInv'
<1>1. Serial1(at', inbox') /\ ~Waiting(at')
  BY EmptySerial
<1>2. fetched' \in 0 .. Len(inbox')
  OBVIOUS
<1>. QED BY <1>1, <1>2 DEF IInv

(* a handler that leaves driver record s behind the first read result *)
LEMMA FinishInv ==
  ASSUME IInv, Handling, NEW s, Serial1(s, Tail(inbox)), NEW fresh,
         NEW fatal \in BOOLEAN, NEW w \in BOOLEAN, FinishResult(s, fresh, fatal, w)
  PROVE  IInv'
<1>1. CASE Disconnected
  BY <1>1, DownInv DEF Disconnected
<1>2. CASE /\ at' = at_queue_run(s, w) /\ inbox' = Tail(inbox)
           /\ fetched' = fetched - 1 /\ refused' = refused \ fresh
           /\ UNCHANGED monitor
  <2>1. Serial1(at', inbox')
    BY <1>2, RunSerial
  <2>2. Waiting(at') => at'.werr
    BY <1>2, RunBusy DEF Serial1
  <2>3. fetched' \in 0 .. Len(inbox')
    <3>1. inbox \in Seq(Message) /\ inbox # <<>> /\ fetched \in 1 .. Len(inbox)
      BY DEF IInv, Serial1, Handling
    <3>2. Len(Tail(inbox)) = Len(inbox) - 1 /\ Len(inbox) \in Nat
      BY <3>1, HeadTailProperties
    <3>. QED BY <3>1, <3>2, <1>2
  <2>. QED BY <1>2, <2>1, <2>2, <2>3 DEF IInv
<1>. QED BY <1>1, <1>2 DEF FinishResult

LEMMA InsertInv ==
  ASSUME IInv, NEW id \in Ids, NEW cmds \in AllScripts, NEW prio \in BOOLEAN,
         NEW stored \in BOOLEAN, NEW w \in BOOLEAN,
         at' = at_queue_run(IF stored THEN at_queue_add(at, NewTask(id, cmds), prio) ELSE at, w)
  PROVE  Serial1(at', inbox) /\ (Waiting(at') => at'.werr)
<1>. DEFINE s == IF stored THEN at_queue_add(at, NewTask(id, cmds), prio) ELSE at
<1>1. Serial1(s, inbox)
  BY AddSerial DEF IInv
<1>2. at' = at_queue_run(s, w)
  OBVIOUS
<1>. HIDE DEF s
<1>. QED BY <1>1, <1>2, RunSerial, RunBusy DEF Serial1

LEMMA ConnectInv ==
  ASSUME IInv, NEW id \in Ids, NEW w \in BOOLEAN, Connect(id, w)
  PROVE  IInv'
<1>. DEFINE s == at_queue_add(EmptyQueue, NewTask(id, InitScript), FALSE)
<1>1. Serial1(s, <<>>)
  BY EmptySerial, AddSerial DEF AllScripts
<1>2. at' = at_queue_run(s, w) /\ inbox' = <<>> /\ monitor' = "top" /\ fetched' = 0 /\ refused' = refused
  BY DEF Connect
<1>. HIDE DEF s
<1>3. Serial1(at', inbox') /\ (Waiting(at') => at'.werr)
  BY <1>1, <1>2, RunSerial, RunBusy DEF Serial1
<1>4. fetched' \in 0 .. Len(inbox')
  BY <1>2
<1>. QED BY <1>2, <1>3, <1>4 DEF IInv

LEMMA HandleInv ==
  ASSUME IInv, NEW w \in BOOLEAN, NEW fatal \in BOOLEAN,
         \/ HandleFinal(fatal, w)
         \/ HandleUnsolicited(fatal, w)
         \/ \E id \in Ids, cmds \in Scripts :
              \/ HandleErrorRequeue(id, cmds, w)
              \/ \E prio, w1 \in BOOLEAN : HandleUnsolicitedInsert(id, cmds, prio, w1, w)
  PROVE  IInv'
<1>1. Handling /\ inbox # <<>> /\ Serial1(at, inbox)
  <2>1. Handling /\ Serial1(at, inbox)
    BY DEF HandleFinal, HandleUnsolicited, HandleErrorRequeue, HandleUnsolicitedInsert, IInv
  <2>2. fetched \in 0 .. Len(inbox) /\ fetched > 0 /\ inbox \in Seq(Message)
    BY <2>1 DEF Handling, IInv, Serial1
  <2>. QED BY <2>1, <2>2
<1>2. CASE HandleFinal(fatal, w)
  <2>1. Serial1(HandleResult(at, Head(inbox)), Tail(inbox))
    BY <1>1, HandleSerial
  <2>. QED BY <1>1, <1>2, <2>1, FinishInv DEF HandleFinal
<1>3. CASE HandleUnsolicited(fatal, w)
  BY <1>1, <1>3, TailSerial, FinishInv DEF HandleUnsolicited
<1>4. ASSUME NEW id \in Ids, NEW cmds \in Scripts, HandleErrorRequeue(id, cmds, w)
      PROVE  IInv'
  <2>. DEFINE s == at_queue_add(at, NewTask(id, cmds), FALSE)
  <2>1. Serial1(s, inbox)
    BY <1>1, AddSerial DEF AllScripts
  <2>2. Serial1(HandleResult(s, Head(inbox)), Tail(inbox))
    <3>. HIDE DEF s
    <3>. QED BY <1>1, <2>1, HandleSerial
  <2>. QED BY <1>1, <1>4, <2>2, FinishInv DEF HandleErrorRequeue
<1>5. ASSUME NEW id \in Ids, NEW cmds \in Scripts, NEW prio \in BOOLEAN, NEW w1 \in BOOLEAN,
             HandleUnsolicitedInsert(id, cmds, prio, w1, w)
      PROVE  IInv'
  <2>. DEFINE s == at_queue_add(at, NewTask(id, cmds), prio)
              r == at_queue_run(s, w1)
  <2>1. Serial1(s, inbox)
    BY <1>1, AddSerial DEF AllScripts
  <2>2. Serial1(r, Tail(inbox))
    <3>. HIDE DEF s
    <3>1. Serial1(r, inbox)
      BY <2>1, RunSerial
    <3>. HIDE DEF r
    <3>. QED BY <1>1, <3>1, TailSerial
  <2>3. FinishResult(r, IF RunFails(s, w1) THEN {} ELSE {id}, FALSE, w)
    BY <1>5 DEF HandleUnsolicitedInsert
  <2>. HIDE DEF s, r
  <2>. QED BY <1>1, <2>2, <2>3, FinishInv
<1>. QED BY <1>2, <1>3, <1>4, <1>5

LEMMA ModemInv ==
  ASSUME IInv, NEW res \in Results, ModemAnswers(res)
  PROVE  IInv'
<1>. DEFINE k == Head(at.line)
            m == [to |-> k, res |-> res]
<1>1. /\ at.line \in Seq(Key) /\ at.line # <<>> /\ Len(at.line) <= 1 /\ Len(at.line) \in Nat
      /\ inbox \in Seq(Message) /\ at \in AtState
  BY DEF IInv, Serial1, Shape, LineOK, AtState, ModemAnswers
<1>2. k \in Key /\ k = at.line[1] /\ 1 \in DOMAIN at.line /\ Len(at.line) = 1 /\ Tail(at.line) = <<>>
  <2>1. ASSUME NEW l \in Seq(Key), l # <<>>, Len(l) <= 1, Len(l) \in Nat
        PROVE  /\ Head(l) \in Key /\ Head(l) = l[1] /\ 1 \in DOMAIN l
               /\ Len(l) = 1 /\ Tail(l) = <<>>
    <3>1. Len(l) = 1 /\ DOMAIN l = 1 .. Len(l)
      BY <2>1, EmptySeq, LenProperties
    <3>2. Tail(l) \in Seq(Key) /\ Len(Tail(l)) = 0
      BY <2>1, <3>1, HeadTailProperties
    <3>3. Tail(l) = <<>>
      BY <3>2, EmptySeq
    <3>. QED BY <2>1, <3>1, <3>3, HeadTailProperties
  <2>. QED BY <1>1, <2>1
<1>3. InFlight(at) /\ k = HeadKey(at) /\ NoFinal(inbox)
  BY <1>1, <1>2 DEF IInv, Serial1, LineOK, InboxOK, NoFinal
<1>5. /\ at' \in AtState /\ at'.line = <<>> /\ at'.queue = at.queue
      /\ at'.at_tasks = at.at_tasks /\ at'.werr = at.werr
  <2>. DEFINE e == <<>>
  <2>1. at' = [at EXCEPT !.line = e]
    BY <1>2 DEF ModemAnswers
  <2>2. e \in Seq(Key)
    OBVIOUS
  <2>. HIDE DEF e
  <2>3. /\ at' \in AtState /\ at'.line = e /\ at'.queue = at.queue
        /\ at'.at_tasks = at.at_tasks /\ at'.werr = at.werr
    BY <1>1, <2>1, <2>2 DEF AtState
  <2>. QED BY <2>3 DEF e
<1>6. /\ InFlight(at') /\ HeadKey(at') = k /\ ~Waiting(at') /\ Shape(at')
  BY <1>3, <1>5 DEF InFlight, HeadKey, Waiting, IInv, Serial1, Shape
<1>7. m \in Message
  BY <1>2 DEF Message
<1>8. inbox' = Append(inbox, m) /\ UNCHANGED <<monitor, fetched, refused>>
  BY DEF ModemAnswers
<1>. HIDE DEF m
<1>9. /\ inbox' \in Seq(Message) /\ Len(inbox') = Len(inbox) + 1 /\ Len(inbox) \in Nat
      /\ \A i \in 1 .. Len(inbox) : inbox'[i] = inbox[i]
      /\ inbox'[Len(inbox) + 1] = m
  BY <1>1, <1>7, <1>8, AppendProperties
<1>10. ASSUME NEW i \in DOMAIN inbox', IsFinal(inbox', i) PROVE i = Len(inbox) + 1
  <2>1. CASE i \in 1 .. Len(inbox)
    BY <2>1, <1>9, <1>3, <1>10 DEF NoFinal, IsFinal
  <2>. QED BY <2>1, <1>9
<1>11. InboxOK(at', inbox')
  <2>1. m.to = k
    BY DEF m
  <2>. QED BY <1>5, <1>6, <1>9, <1>10, <2>1 DEF InboxOK
<1>12. LineOK(at')
  BY <1>5 DEF LineOK
<1>13. fetched' \in 0 .. Len(inbox')
  BY <1>8, <1>9 DEF IInv
<1>. QED BY <1>6, <1>8, <1>9, <1>11, <1>12, <1>13 DEF IInv, Serial1

LEMMA ReportInv ==
  ASSUME IInv, ModemReports
  PROVE  IInv'
<1>. DEFINE m == [to |-> Unsolicited, res |-> "OK"]
<1>1. inbox \in Seq(Message) /\ m \in Message
  BY DEF IInv, Serial1, Message, Results
<1>2. inbox' = Append(inbox, m) /\ UNCHANGED <<at, monitor, fetched, refused>> /\ m.to = Unsolicited
  BY DEF ModemReports
<1>. HIDE DEF m
<1>3. /\ inbox' \in Seq(Message) /\ Len(inbox') = Len(inbox) + 1 /\ Len(inbox) \in Nat
      /\ \A i \in 1 .. Len(inbox) : inbox'[i] = inbox[i]
      /\ inbox'[Len(inbox) + 1] = m
  BY <1>1, <1>2, AppendProperties
<1>4. ASSUME NEW i \in DOMAIN inbox', IsFinal(inbox', i)
      PROVE  i \in DOMAIN inbox /\ IsFinal(inbox, i) /\ inbox'[i].to = inbox[i].to
  <2>1. i \in 1 .. Len(inbox)
    BY <1>2, <1>3, <1>4 DEF IsFinal
  <2>2. DOMAIN inbox = 1 .. Len(inbox)
    BY <1>1, LenProperties
  <2>. QED BY <2>1, <2>2, <1>3, <1>4 DEF IsFinal
<1>5. InboxOK(at', inbox')
  BY <1>2, <1>4 DEF IInv, Serial1, InboxOK
<1>6. fetched' \in 0 .. Len(inbox')
  BY <1>2, <1>3 DEF IInv
<1>. QED BY <1>2, <1>3, <1>5, <1>6 DEF IInv, Serial1

LEMMA TimerInv ==
  ASSUME IInv, TimerExpires
  PROVE  IInv'
<1>1. at \in AtState /\ at' = [at EXCEPT !.expired = TRUE] /\ UNCHANGED <<inbox, monitor, fetched, refused>>
  BY DEF IInv, Serial1, Shape, TimerExpires
<1>2. /\ at' \in AtState /\ at'.line = at.line /\ at'.queue = at.queue
      /\ at'.at_tasks = at.at_tasks /\ at'.werr = at.werr
  BY <1>1 DEF AtState
<1>3. /\ InFlight(at') <=> InFlight(at)
      /\ Waiting(at') <=> Waiting(at)
      /\ HeadKey(at') = HeadKey(at)
  BY <1>2 DEF InFlight, Waiting, HeadKey
<1>. QED BY <1>1, <1>2, <1>3 DEF IInv, Serial1, Shape, LineOK, InboxOK

LEMMA InitInv == Init => IInv
<1>. SUFFICES ASSUME Init PROVE IInv
  OBVIOUS
<1>1. at = EmptyQueue /\ inbox = <<>> /\ monitor = "down" /\ fetched = 0 /\ refused = {}
  BY DEF Init
<1>2. Serial1(at, inbox) /\ ~Waiting(at)
  BY <1>1, EmptySerial
<1>3. fetched \in 0 .. Len(inbox)
  BY <1>1
<1>. QED BY <1>1, <1>2, <1>3 DEF IInv

LEMMA NextInv == IInv /\ [Next]_vars => IInv'
<1>. SUFFICES ASSUME IInv, [Next]_vars PROVE IInv'
  OBVIOUS
<1>1. CASE UNCHANGED vars
  BY <1>1 DEF vars, IInv, Serial1, Shape, LineOK, InboxOK, IsFinal, InFlight, Waiting, HeadKey
<1>2. ASSUME NEW id \in Ids, NEW w \in BOOLEAN, Connect(id, w) PROVE IInv'
  BY <1>2, ConnectInv
<1>3. ASSUME NEW id \in Ids, NEW cmds \in Scripts, NEW prio \in BOOLEAN,
             NEW stored \in BOOLEAN, NEW w \in BOOLEAN, Insert(id, cmds, prio, stored, w)
      PROVE  IInv'
  <2>1. Serial1(at', inbox) /\ (Waiting(at') => at'.werr)
    BY <1>3, InsertInv DEF Insert, AllScripts
  <2>2. refused' \subseteq Ids /\ UNCHANGED <<inbox, monitor, fetched>>
    BY <1>3 DEF Insert, IInv
  <2>. QED BY <2>1, <2>2 DEF IInv
<1>4. CASE MonitorStep
  <2>1. CASE MonitorQuits \/ MonitorTimesOut \/ MonitorReadFails
    BY <2>1, DownInv DEF MonitorQuits, MonitorTimesOut, MonitorReadFails, Disconnected
  <2>2. CASE MonitorWaits \/ MonitorReadDone
    <3>1. UNCHANGED <<at, inbox, fetched, refused>> /\ monitor' \in {"top", "cmd", "idle"}
      BY <2>2 DEF MonitorWaits, MonitorReadDone, at_queue_timeout
    <3>. QED BY <3>1 DEF IInv
  <2>3. CASE MonitorReads
    <3>1. UNCHANGED <<at, inbox, refused>> /\ monitor' = "read" /\ fetched' = Len(inbox)
      BY <2>3 DEF MonitorReads
    <3>2. Len(inbox) \in Nat
      BY LenProperties DEF IInv, Serial1
    <3>. QED BY <3>1, <3>2 DEF IInv
  <2>4. ASSUME NEW w \in BOOLEAN, NEW id \in Ids, MonitorPings(id, w) PROVE IInv'
    <3>1. at' = at_queue_run(IF TRUE THEN at_queue_add(at, NewTask(id, PingScript), TRUE) ELSE at, w)
      BY <2>4 DEF MonitorPings
    <3>2. Serial1(at', inbox) /\ (Waiting(at') => at'.werr)
      BY <3>1, InsertInv DEF AllScripts
    <3>3. monitor' = "top" /\ refused' \subseteq Ids /\ UNCHANGED <<inbox, fetched>>
      BY <2>4 DEF MonitorPings, IInv
    <3>. QED BY <3>2, <3>3 DEF IInv
  <2>. QED BY <1>4, <2>1, <2>2, <2>3, <2>4, HandleInv DEF MonitorStep
<1>. QED BY <1>1, <1>2, <1>3, <1>4, ModemInv, ReportInv, TimerInv DEF Next

(* The inductive invariant: the queue's shape, and the head being the only *)
(* task a command or a result on its way can belong to.                    *)
THEOREM Invariance == Spec => []IInv
BY InitInv, NextInv, PTL DEF Spec

(* Type correctness. *)
THEOREM TypeCorrect == Spec => []TypeOK
<1>1. IInv => TypeOK
  BY DEF IInv, Serial1, Shape, TypeOK
<1>. QED BY <1>1, Invariance, PTL

(* A result is always given to the command that caused it, whatever the    *)
(* order in which threads insert tasks and the modem answers: see          *)
(* SerialInv.                                                              *)
THEOREM SerialCorrect == Spec => []SerialInv
<1>1. ASSUME IInv PROVE SerialInv
  <2>1. OnlyHeadSent /\ CurrentExists
    BY <1>1 DEF OnlyHeadSent, CurrentExists, IInv, Serial1, Shape
  <2>2. ResultsMatchHead
    <3>1. \A i \in DOMAIN at.line : InFlight(at) /\ at.line[i] = CurrentKey(Head(at.queue))
      BY <1>1 DEF IInv, Serial1, LineOK, HeadKey
    <3>2. \A i \in Finals : InFlight(at) /\ inbox[i].to = CurrentKey(Head(at.queue))
      BY <1>1 DEF IInv, Serial1, InboxOK, HeadKey, Finals, IsFinal
    <3>3. \A i, j \in Finals : i = j
      BY <1>1 DEF IInv, Serial1, InboxOK, Finals, IsFinal
    <3>4. at.line = <<>> \/ Finals = {}
      BY <1>1 DEF IInv, Serial1, InboxOK, Finals, IsFinal
    <3>5. Len(at.line) <= 1
      BY <1>1 DEF IInv, Serial1, LineOK
    <3>. QED BY <3>1, <3>2, <3>3, <3>4, <3>5 DEF ResultsMatchHead
  <2>. QED BY <2>1, <2>2 DEF SerialInv
<1>. QED BY <1>1, Invariance, PTL

(* The queue never sits idle with work in it unless a write failed.        *)
THEOREM NeverIdle == Spec => []NeverIdleWithWork
<1>1. IInv => NeverIdleWithWork
  BY DEF IInv, NeverIdleWithWork
<1>. QED BY <1>1, Invariance, PTL

-----------------------------------------------------------------------------
(* at_cmds: what the queue still has to do, added up task by task.         *)

(* the commands a task has left; g counts those of the first tasks of q *)
Left(t) == Len(t.cmds) - t.cindex
Sums(q, g) ==
  /\ g \in [0 .. Len(q) -> Int] /\ g[0] = 0
  /\ \A n \in 1 .. Len(q) : g[n] = g[n - 1] + Left(q[n])
Tally(q, c) == \E g : Sums(q, g) /\ g[Len(q)] = c
Counted(s) == Tally(s.queue, s.at_cmds)

LEMMA LeftType == ASSUME NEW t \in Task PROVE Left(t) \in Int
<1>1. t.cindex \in Nat /\ Len(t.cmds) \in Nat
  BY TaskFields
<1> QED BY <1>1 DEF Left

LEMMA SumsAt ==
  ASSUME NEW q \in Seq(Task), NEW g, Sums(q, g), NEW n \in 1 .. Len(q)
  PROVE  /\ g[n] = g[n - 1] + Left(q[n]) /\ g[n] \in Int /\ g[n - 1] \in Int
         /\ Left(q[n]) \in Int
<1>1. Len(q) \in Nat /\ n \in 0 .. Len(q) /\ n - 1 \in 0 .. Len(q) /\ q[n] \in Task
  BY LenProperties
<1>2. Left(q[n]) \in Int
  BY <1>1, LeftType
<1> QED BY <1>1, <1>2 DEF Sums

LEMMA TallyAppend ==
  ASSUME NEW q \in Seq(Task), NEW t \in Task, NEW c \in Int, Tally(q, c)
  PROVE  Tally(Append(q, t), c + Left(t))
<1> DEFINE a == Append(q, t)
<1>1. PICK g : Sums(q, g) /\ g[Len(q)] = c
  BY DEF Tally
<1>2. /\ a \in Seq(Task) /\ Len(a) = Len(q) + 1 /\ Len(q) \in Nat
      /\ \A i \in 1 .. Len(q) : a[i] = q[i]
      /\ a[Len(q) + 1] = t
  BY AppendProperties, LenProperties
<1> HIDE DEF a
<1>3. Left(t) \in Int
  BY LeftType
<1> DEFINE h == [n \in 0 .. Len(a) |-> IF n = Len(a) THEN c + Left(t) ELSE g[n]]
<1>4. h \in [0 .. Len(a) -> Int] /\ h[0] = 0 /\ h[Len(a)] = c + Left(t)
  BY <1>1, <1>2, <1>3 DEF Sums
<1>5. ASSUME NEW n \in 1 .. Len(a) PROVE h[n] = h[n - 1] + Left(a[n])
  <2>1. CASE n = Len(a)
    BY <1>1, <1>2, <2>1 DEF Sums
  <2>2. CASE n \in 1 .. Len(q)
    BY <1>1, <1>2, <2>2 DEF Sums
  <2>. QED BY <1>2, <2>1, <2>2
<1> HIDE DEF h
<1>6. Sums(a, h)
  BY <1>4, <1>5 DEF Sums
<1> QED BY <1>4, <1>6 DEF Tally, a

LEMMA TallySecond ==
  ASSUME NEW q \in Seq(Task), q # <<>>, NEW t \in Task, NEW c \in Int, Tally(q, c)
  PROVE  Tally(<<Head(q), t>> \o Tail(q), c + Left(t))
<1> DEFINE a == <<Head(q), t>> \o Tail(q)
<1>1. PICK g : Sums(q, g) /\ g[Len(q)] = c
  BY DEF Tally
<1>2. /\ a \in Seq(Task) /\ Len(a) = Len(q) + 1 /\ a[1] = q[1] /\ a[2] = t
      /\ \A i \in 3 .. Len(a) : a[i] = q[i - 1]
  BY InsertSecond
<1>3. Len(q) \in Nat \ {0}
  BY EmptySeq, LenProperties
<1> HIDE DEF a
<1>4. Left(t) \in Int
  BY LeftType
<1> DEFINE h == [n \in 0 .. Len(a) |-> IF n <= 1 THEN g[n] ELSE g[n - 1] + Left(t)]
<1>5. h \in [0 .. Len(a) -> Int] /\ h[0] = 0 /\ h[Len(a)] = c + Left(t)
  BY <1>1, <1>2, <1>3, <1>4 DEF Sums
<1>6. ASSUME NEW n \in 1 .. Len(a) PROVE h[n] = h[n - 1] + Left(a[n])
  <2>1. CASE n = 1
    BY <1>1, <1>2, <1>3, <2>1 DEF Sums
  <2>2. CASE n = 2
    BY <1>1, <1>2, <1>3, <2>2 DEF Sums
  <2>3. CASE n \in 3 .. Len(a)
    <3>1. /\ n - 1 \in 1 .. Len(q) /\ a[n] = q[n - 1]
          /\ h[n] = g[n - 1] + Left(t) /\ h[n - 1] = g[(n - 1) - 1] + Left(t)
      BY <1>2, <1>3, <2>3
    <3>2. /\ g[n - 1] = g[(n - 1) - 1] + Left(q[n - 1])
          /\ g[(n - 1) - 1] \in Int /\ Left(q[n - 1]) \in Int
      BY <1>1, <3>1, SumsAt
    <3>. QED BY <1>4, <3>1, <3>2
  <2>. QED BY <1>2, <2>1, <2>2, <2>3
<1> HIDE DEF h
<1>7. Sums(a, h)
  BY <1>5, <1>6 DEF Sums
<1> QED BY <1>5, <1>7 DEF Tally, a

LEMMA TallyHead ==
  ASSUME NEW q \in Seq(Task), q # <<>>, NEW t \in Task, NEW c \in Int, Tally(q, c),
         NEW k \in Int, Left(t) = Left(Head(q)) + k
  PROVE  Tally(<<t>> \o Tail(q), c + k)
<1> DEFINE a == <<t>> \o Tail(q)
<1>1. PICK g : Sums(q, g) /\ g[Len(q)] = c
  BY DEF Tally
<1>2. /\ a \in Seq(Task) /\ Len(a) = Len(q) /\ a[1] = t
      /\ \A i \in 2 .. Len(a) : a[i] = q[i]
  BY ReplaceHead
<1>3. Len(q) \in Nat \ {0} /\ Head(q) = q[1] /\ q[1] \in Task
  BY EmptySeq, LenProperties, HeadTailProperties
<1> HIDE DEF a
<1> DEFINE h == [n \in 0 .. Len(a) |-> IF n = 0 THEN 0 ELSE g[n] + k]
<1>4. h \in [0 .. Len(a) -> Int] /\ h[0] = 0 /\ h[Len(a)] = c + k
  BY <1>1, <1>2, <1>3 DEF Sums
<1>5. ASSUME NEW n \in 1 .. Len(a) PROVE h[n] = h[n - 1] + Left(a[n])
  <2>1. CASE n = 1
    <3>1. g[1] = g[0] + Left(q[1]) /\ g[0] = 0 /\ Left(q[1]) \in Int
      BY <1>1, <1>3, LeftType DEF Sums
    <3>. QED BY <1>2, <1>3, <2>1, <3>1
  <2>2. CASE n \in 2 .. Len(a)
    <3>1. /\ a[n] = q[n] /\ n \in 1 .. Len(q) /\ h[n] = g[n] + k /\ h[n - 1] = g[n - 1] + k
      BY <1>2, <1>3, <2>2
    <3>2. g[n] = g[n - 1] + Left(q[n]) /\ g[n - 1] \in Int /\ Left(q[n]) \in Int
      BY <1>1, <3>1, SumsAt
    <3>. QED BY <3>1, <3>2
  <2>. QED BY <1>2, <2>1, <2>2
<1> HIDE DEF h
<1>6. Sums(a, h)
  BY <1>4, <1>5 DEF Sums
<1> QED BY <1>4, <1>6 DEF Tally, a

LEMMA TallyTail ==
  ASSUME NEW q \in Seq(Task), q # <<>>, NEW c \in Int, Tally(q, c)
  PROVE  Tally(Tail(q), c - Left(Head(q)))
<1> DEFINE a == Tail(q)
           k == Left(Head(q))
<1>1. PICK g : Sums(q, g) /\ g[Len(q)] = c
  BY DEF Tally
<1>2. /\ a \in Seq(Task) /\ Len(a) = Len(q) - 1
      /\ \A i \in 1 .. Len(a) : a[i] = q[i + 1]
  BY HeadTailProperties
<1>3. Len(q) \in Nat \ {0} /\ Head(q) = q[1] /\ q[1] \in Task
  BY EmptySeq, LenProperties, HeadTailProperties
<1>4. k \in Int /\ g[1] = k
  <2>1. g[1] = g[0] + Left(q[1]) /\ g[0] = 0 /\ Left(q[1]) \in Int
    BY <1>1, <1>3, LeftType DEF Sums
  <2>. QED BY <1>3, <2>1
<1> HIDE DEF a, k
<1> DEFINE h == [n \in 0 .. Len(a) |-> g[n + 1] - k]
<1>5. h \in [0 .. Len(a) -> Int] /\ h[0] = 0 /\ h[Len(a)] = c - k
  BY <1>1, <1>2, <1>3, <1>4 DEF Sums
<1>6. ASSUME NEW n \in 1 .. Len(a) PROVE h[n] = h[n - 1] + Left(a[n])
  <2>1. /\ a[n] = q[n + 1] /\ n + 1 \in 1 .. Len(q) /\ h[n] = g[n + 1] - k
        /\ h[n - 1] = g[n] - k
    BY <1>2, <1>3
  <2>2. /\ g[n + 1] = g[(n + 1) - 1] + Left(q[n + 1]) /\ g[(n + 1) - 1] \in Int
        /\ Left(q[n + 1]) \in Int
    BY <1>1, <2>1, SumsAt
  <2>3. (n + 1) - 1 = n
    OBVIOUS
  <2>. QED BY <1>4, <2>1, <2>2, <2>3
<1> HIDE DEF h
<1>7. Sums(a, h)
  BY <1>5, <1>6 DEF Sums
<1> QED BY <1>5, <1>7 DEF Tally, a, k

(* what the updates do to at_cmds *)
LEMMA CountsCmds ==
  ASSUME NEW s \in AtState, NEW q, NEW n, NEW c
  PROVE  SetCounts(s, q, n, c).queue = q /\ SetCounts(s, q, n, c).at_cmds = c
BY DEF AtState, SetCounts

LEMMA CommandCmds ==
  ASSUME NEW s \in AtState, NEW q, NEW c
  PROVE  /\ SetCommand(s, q, c).queue = q /\ SetCommand(s, q, c).at_cmds = c
         /\ SetCommand(s, q, c).at_tasks = s.at_tasks
BY DEF AtState, SetCommand

LEMMA LineCmds ==
  ASSUME NEW s \in AtState, NEW q, NEW ln
  PROVE  SetLine(s, q, ln).queue = q /\ SetLine(s, q, ln).at_cmds = s.at_cmds
BY DEF AtState, SetLine

LEMMA ErrorCmds ==
  ASSUME NEW s \in AtState
  PROVE  SetError(s).queue = s.queue /\ SetError(s).at_cmds = s.at_cmds
BY DEF AtState, SetError

LEMMA AddCounted ==
  ASSUME NEW s, Shape(s), Counted(s), NEW id \in Ids, NEW cmds \in AllScripts, NEW prio \in BOOLEAN
  PROVE  Counted(at_queue_add(s, NewTask(id, cmds), prio))
<1> DEFINE t == NewTask(id, cmds)
           q == s.queue
           r == at_queue_add(s, t, prio)
<1> SUFFICES Counted(r)
  OBVIOUS
<1>1. t \in Task /\ Len(t.cmds) \in Nat /\ Left(t) = Len(t.cmds)
  <2>1. t \in Task /\ Len(t.cmds) \in Nat /\ t.cindex = 0
    BY NewTaskType DEF NewTask
  <2>. QED BY <2>1 DEF Left
<1>2. s \in AtState /\ q \in Seq(Task) /\ s.at_tasks \in Nat /\ s.at_cmds \in Int
  BY DEF Shape, AtState
<1>3. Tally(q, s.at_cmds)
  BY DEF Counted
<1>4. ASSUME NEW a, Tally(a, s.at_cmds + Left(t)),
             r = SetCounts(s, a, s.at_tasks + 1, s.at_cmds + Len(t.cmds))
      PROVE  Counted(r)
  <2>1. r.queue = a /\ r.at_cmds = s.at_cmds + Len(t.cmds)
    <3> DEFINE n == s.at_tasks + 1
               c == s.at_cmds + Len(t.cmds)
    <3>1. SetCounts(s, a, n, c).queue = a /\ SetCounts(s, a, n, c).at_cmds = c
      <4> HIDE DEF n, c, q, t
      <4>. QED BY <1>2, CountsCmds
    <3>2. r = SetCounts(s, a, n, c)
      BY <1>4
    <3> HIDE DEF r, t
    <3>. QED BY <3>1, <3>2
  <2> HIDE DEF r, t
  <2>2. Tally(r.queue, r.at_cmds)
    BY <1>1, <1>4, <2>1
  <2>. QED BY <2>2 DEF Counted
<1>5. CASE prio /\ q # <<>>
  <2> DEFINE a == <<Head(q), t>> \o Tail(q)
  <2>1. r = SetCounts(s, a, s.at_tasks + 1, s.at_cmds + Len(t.cmds))
    BY <1>5 DEF at_queue_add, SetCounts
  <2>2. Tally(a, s.at_cmds + Left(t))
    <3> HIDE DEF t, q, r
    <3>. QED BY <1>1, <1>2, <1>3, <1>5, TallySecond
  <2> HIDE DEF a, t, r
  <2>. QED BY <1>4, <2>1, <2>2
<1>6. CASE ~(prio /\ q # <<>>)
  <2> DEFINE a == Append(q, t)
  <2>1. r = SetCounts(s, a, s.at_tasks + 1, s.at_cmds + Len(t.cmds))
    BY <1>6 DEF at_queue_add, SetCounts
  <2>2. Tally(a, s.at_cmds + Left(t))
    <3> HIDE DEF t, q, r
    <3>. QED BY <1>1, <1>2, <1>3, TallyAppend
  <2> HIDE DEF a, t, r
  <2>. QED BY <1>4, <2>1, <2>2
<1> QED BY <1>5, <1>6

LEMMA RemoveCounted ==
  ASSUME NEW s, Shape(s), Counted(s), s.queue # <<>>, NEW res
  PROVE  Counted(at_queue_remove_cmd(s, res))
<1> DEFINE q  == s.queue
           t  == Head(q)
           nx == [t EXCEPT !.cindex = @ + 1, !.sent = FALSE]
           a  == <<nx>> \o Tail(q)
           c  == s.at_cmds - 1
           s1 == [s EXCEPT !.queue = <<nx>> \o Tail(@), !.at_cmds = @ - 1, !.expired = FALSE]
           r  == at_queue_remove_cmd(s, res)
<1> SUFFICES Counted(r)
  OBVIOUS
<1>1. /\ s \in AtState /\ q \in Seq(Task) /\ q # <<>> /\ s.at_cmds \in Int
      /\ s.at_tasks \in Nat \ {0} /\ Tally(q, s.at_cmds)
  BY EmptySeq, LenProperties DEF Shape, AtState, Counted
<1>2. t \in Task
  BY <1>1, HeadTailProperties
<1>3. nx \in Task /\ nx.cmds = t.cmds /\ nx.cindex = t.cindex + 1 /\ t.cindex \in Nat /\ Len(t.cmds) \in Nat
  BY <1>2, TaskFields
<1>4. r = s1 \/ r = at_queue_remove(s1)
  BY DEF at_queue_remove_cmd
<1>5. s1 = SetCommand(s, a, c)
  BY DEF SetCommand
<1> HIDE DEF s1, nx, r
<1>6. Left(nx) = Left(t) + (-1)
  BY <1>3 DEF Left
<1> HIDE DEF t
<1>7. /\ a \in Seq(Task) /\ a # <<>> /\ Head(a) = nx /\ Tail(a) = Tail(q)
      /\ Tail(q) \in Seq(Task)
  BY <1>1, <1>3, ReplaceHead, HeadTailProperties
<1>8. c \in Int /\ c = s.at_cmds + (-1) /\ -1 \in Int
  BY <1>1
<1>9. Tally(a, c)
  BY <1>1, <1>3, <1>6, <1>8, TallyHead DEF t
<1> HIDE DEF a, c
<1>10. s1 \in AtState /\ s1.queue = a /\ s1.at_cmds = c /\ s1.at_tasks = s.at_tasks
  <2>1. s1 \in AtState
    BY <1>1, <1>5, <1>7, <1>8, UpdateCommand
  <2>2. /\ SetCommand(s, a, c).queue = a /\ SetCommand(s, a, c).at_cmds = c
        /\ SetCommand(s, a, c).at_tasks = s.at_tasks
    BY <1>1, CommandCmds
  <2>. QED BY <1>5, <2>1, <2>2
<1>11. CASE r = s1
  <2>1. Tally(r.queue, r.at_cmds)
    BY <1>9, <1>10, <1>11
  <2>. QED BY <2>1 DEF Counted
<1>12. CASE r = at_queue_remove(s1)
  <2> DEFINE n == s1.at_tasks - 1
             e == s1.at_cmds - (Len(Head(s1.queue).cmds) - Head(s1.queue).cindex)
  <2>1. r = SetCounts(s1, Tail(a), n, e)
    BY <1>10, <1>12 DEF at_queue_remove, SetCounts
  <2>2. n \in Nat
    BY <1>1, <1>10
  <2>3. e = c - Left(nx) /\ e \in Int
    <3>1. e = c - Left(nx)
      BY <1>7, <1>10 DEF Left
    <3>. QED BY <1>3, <1>8, <3>1, LeftType
  <2> HIDE DEF n, e
  <2>4. Tail(a) \in Seq(Task) /\ Tally(Tail(a), e)
    BY <1>7, <1>8, <1>9, <2>3, TallyTail
  <2>5. r.queue = Tail(a) /\ r.at_cmds = e
    <3>1. /\ SetCounts(s1, Tail(a), n, e).queue = Tail(a)
          /\ SetCounts(s1, Tail(a), n, e).at_cmds = e
      <4> DEFINE b == Tail(a)
      <4> HIDE DEF b
      <4>1. SetCounts(s1, b, n, e).queue = b /\ SetCounts(s1, b, n, e).at_cmds = e
        BY <1>10, CountsCmds
      <4>. QED BY <4>1 DEF b
    <3>. QED BY <2>1, <3>1
  <2>6. Tally(r.queue, r.at_cmds)
    BY <2>4, <2>5
  <2>. QED BY <2>6 DEF Counted
<1> QED BY <1>4, <1>11, <1>12

LEMMA RunCounted ==
  ASSUME NEW s, Shape(s), Counted(s), NEW w \in BOOLEAN
  PROVE  Counted(at_queue_run(s, w))
<1> DEFINE r == at_queue_run(s, w)
<1>1. CASE ~Waiting(s)
  BY <1>1 DEF at_queue_run
<1>2. CASE Waiting(s) /\ ~w
  <2> DEFINE u == at_queue_remove_cmd(s, "WRITE_ERROR")
  <2>1. Counted(u) /\ u \in AtState
    BY <1>2, RemoveCounted, RemoveShape DEF Waiting, Shape
  <2>2. r = SetError(u)
    BY <1>2 DEF at_queue_run, SetError
  <2> HIDE DEF u, r
  <2>3. r.queue = u.queue /\ r.at_cmds = u.at_cmds
    BY <2>1, <2>2, ErrorCmds
  <2>4. Counted(r)
    <3>1. Tally(u.queue, u.at_cmds)
      BY <2>1 DEF Counted
    <3>2. Tally(r.queue, r.at_cmds)
      BY <2>3, <3>1
    <3>. QED BY <3>2 DEF Counted
  <2>. QED BY <2>4 DEF r
<1>3. CASE Waiting(s) /\ w
  <2> DEFINE q  == s.queue
             t  == Head(q)
             nt == [t EXCEPT !.sent = TRUE]
             a  == <<nt>> \o Tail(q)
             l  == Append(s.line, CurrentKey(t))
  <2>1. /\ s \in AtState /\ q \in Seq(Task) /\ q # <<>> /\ s.at_cmds \in Int
        /\ Tally(q, s.at_cmds)
    BY <1>3 DEF Shape, AtState, Counted, Waiting
  <2>2. t \in Task
    BY <2>1, HeadTailProperties
  <2>3. /\ nt \in Task /\ nt.cmds = t.cmds /\ nt.cindex = t.cindex /\ t.cindex \in Nat
        /\ Len(t.cmds) \in Nat /\ CurrentKey(t) \in Key
    BY <2>2, TaskFields
  <2>4. r = SetLine(s, a, l)
    BY <1>3 DEF at_queue_run, SetLine
  <2> HIDE DEF nt
  <2>5. Left(nt) = Left(t) + 0
    BY <2>3 DEF Left
  <2> HIDE DEF t
  <2>6. a \in Seq(Task) /\ l \in Seq(Key)
    BY <2>1, <2>3, ReplaceHead, AppendProperties DEF AtState
  <2>7. Tally(a, s.at_cmds)
    <3>1. Tally(a, s.at_cmds + 0)
      BY <2>1, <2>3, <2>5, TallyHead DEF t
    <3>2. s.at_cmds + 0 = s.at_cmds
      BY <2>1
    <3>. QED BY <3>1, <3>2
  <2> HIDE DEF a, l, r
  <2>8. r.queue = a /\ r.at_cmds = s.at_cmds
    BY <2>1, <2>4, LineCmds
  <2>9. Counted(r)
    <3>1. Tally(r.queue, r.at_cmds)
      BY <2>7, <2>8
    <3>. QED BY <3>1 DEF Counted
  <2>. QED BY <2>9 DEF r
<1> QED BY <1>1, <1>2, <1>3

LEMMA EmptyCounted == Counted(EmptyQueue)
<1> DEFINE g == [n \in 0 .. 0 |-> 0]
<1>1. EmptyQueue.queue = <<>> /\ EmptyQueue.at_cmds = 0 /\ Len(<<>>) = 0
  BY DEF EmptyQueue
<1>2. g \in [0 .. 0 -> Int] /\ g[0] = 0
  OBVIOUS
<1> HIDE DEF g
<1>3. Sums(<<>>, g)
  BY <1>1, <1>2 DEF Sums
<1> QED BY <1>1, <1>2, <1>3 DEF Counted, Tally

LEMMA HandleCounted ==
  ASSUME NEW s, Shape(s), Counted(s), NEW m
  PROVE  Counted(HandleResult(s, m))
<1>1. CASE HandleResult(s, m) = s
  BY <1>1
<1>2. CASE s.queue # <<>> /\ HandleResult(s, m) = at_queue_remove_cmd(s, m.res)
  BY <1>2, RemoveCounted
<1> QED BY <1>1, <1>2 DEF HandleResult

LEMMA HandleShape ==
  ASSUME NEW s, Shape(s), NEW m
  PROVE  Shape(HandleResult(s, m))
<1>1. CASE HandleResult(s, m) = s
  BY <1>1
<1>2. CASE s.queue # <<>> /\ HandleResult(s, m) = at_queue_remove_cmd(s, m.res)
  BY <1>2, RemoveShape
<1> QED BY <1>1, <1>2 DEF HandleResult

(* a step that changes nothing of the queue but its side of the port *)
LEMMA SameCounted ==
  ASSUME NEW s, NEW r, Counted(s), r.queue = s.queue, r.at_cmds = s.at_cmds
  PROVE  Counted(r)
<1>1. Tally(s.queue, s.at_cmds)
  BY DEF Counted
<1>2. Tally(r.queue, r.at_cmds)
  BY <1>1
<1> QED BY <1>2 DEF Counted

LEMMA FinishCounted ==
  ASSUME NEW s, Shape(s), Counted(s), NEW fresh, NEW fatal \in BOOLEAN, NEW w \in BOOLEAN,
         FinishResult(s, fresh, fatal, w)
  PROVE  Counted(at')
<1>1. CASE Disconnected
  BY <1>1, EmptyCounted DEF Disconnected
<1>2. CASE at' = at_queue_run(s, w)
  BY <1>2, RunCounted
<1> QED BY <1>1, <1>2 DEF FinishResult

(* a queued task, and what the queue does next *)
LEMMA AddRunCounted ==
  ASSUME NEW s, Shape(s), Counted(s), NEW id \in Ids, NEW cmds \in AllScripts,
         NEW prio \in BOOLEAN, NEW w \in BOOLEAN
  PROVE  LET r == at_queue_run(at_queue_add(s, NewTask(id, cmds), prio), w)
         IN  Shape(r) /\ Counted(r)
<1> DEFINE a == at_queue_add(s, NewTask(id, cmds), prio)
<1>1. Shape(a) /\ Counted(a)
  BY AddShape, AddCounted
<1> HIDE DEF a
<1>2. Shape(at_queue_run(a, w)) /\ Counted(at_queue_run(a, w))
  BY <1>1, RunShape, RunCounted
<1> QED BY <1>2 DEF a

LEMMA HandlersCounted ==
  ASSUME Shape(at), Counted(at), NEW w \in BOOLEAN, NEW fatal \in BOOLEAN,
         \/ HandleFinal(fatal, w)
         \/ HandleUnsolicited(fatal, w)
         \/ \E id \in Ids, cmds \in Scripts :
              \/ HandleErrorRequeue(id, cmds, w)
              \/ \E prio, w1 \in BOOLEAN : HandleUnsolicitedInsert(id, cmds, prio, w1, w)
  PROVE  Counted(at')
<1>1. CASE HandleFinal(fatal, w)
  BY <1>1, HandleShape, HandleCounted, FinishCounted DEF HandleFinal
<1>2. CASE HandleUnsolicited(fatal, w)
  BY <1>2, FinishCounted DEF HandleUnsolicited
<1>3. ASSUME NEW id \in Ids, NEW cmds \in Scripts, HandleErrorRequeue(id, cmds, w)
      PROVE  Counted(at')
  <2> DEFINE a == at_queue_add(at, NewTask(id, cmds), FALSE)
  <2>1. FinishResult(HandleResult(a, Head(inbox)), {id}, FALSE, w)
    BY <1>3 DEF HandleErrorRequeue
  <2>2. Shape(a) /\ Counted(a)
    BY AddShape, AddCounted DEF AllScripts
  <2> HIDE DEF a
  <2>3. /\ Shape(HandleResult(a, Head(inbox))) /\ Counted(HandleResult(a, Head(inbox)))
    BY <2>2, HandleShape, HandleCounted
  <2>. QED BY <2>1, <2>3, FinishCounted
<1>4. ASSUME NEW id \in Ids, NEW cmds \in Scripts, NEW prio \in BOOLEAN, NEW w1 \in BOOLEAN,
             HandleUnsolicitedInsert(id, cmds, prio, w1, w)
      PROVE  Counted(at')
  <2> DEFINE a == at_queue_add(at, NewTask(id, cmds), prio)
             r == at_queue_run(a, w1)
             f == IF RunFails(a, w1) THEN {} ELSE {id}
  <2>1. FinishResult(r, f, FALSE, w)
    BY <1>4 DEF HandleUnsolicitedInsert
  <2>2. Shape(r) /\ Counted(r)
    BY AddRunCounted DEF AllScripts
  <2> HIDE DEF r, f
  <2>. QED BY <2>1, <2>2, FinishCounted
<1> QED BY <1>1, <1>2, <1>3, <1>4

LEMMA NextCounted == IInv /\ Counted(at) /\ [Next]_vars => Counted(at')
<1> SUFFICES ASSUME IInv, Counted(at), [Next]_vars PROVE Counted(at')
  OBVIOUS
<1>1. Shape(at) /\ at \in AtState
  BY DEF IInv, Serial1, Shape
<1>2. CASE at' = at
  BY <1>2
<1>3. CASE at' = EmptyQueue
  BY <1>3, EmptyCounted
<1>4. ASSUME NEW id \in Ids, NEW w \in BOOLEAN, Connect(id, w) PROVE Counted(at')
  <2>1. Shape(EmptyQueue)
    BY EmptySerial DEF Serial1
  <2>2. at' = at_queue_run(at_queue_add(EmptyQueue, NewTask(id, InitScript), FALSE), w)
    BY <1>4 DEF Connect
  <2>. QED BY <2>1, <2>2, EmptyCounted, AddRunCounted DEF AllScripts
<1>5. ASSUME NEW id \in Ids, NEW cmds \in Scripts, NEW prio \in BOOLEAN,
             NEW stored \in BOOLEAN, NEW w \in BOOLEAN, Insert(id, cmds, prio, stored, w)
      PROVE  Counted(at')
  <2>1. CASE stored
    <3>1. at' = at_queue_run(at_queue_add(at, NewTask(id, cmds), prio), w)
      BY <1>5, <2>1 DEF Insert
    <3>. QED BY <1>1, <3>1, AddRunCounted DEF AllScripts
  <2>2. CASE ~stored
    <3>1. at' = at_queue_run(at, w)
      BY <1>5, <2>2 DEF Insert
    <3>. QED BY <1>1, <3>1, RunCounted
  <2>. QED BY <2>1, <2>2
<1>6. CASE MonitorStep
  <2>1. CASE MonitorQuits \/ MonitorTimesOut \/ MonitorReadFails
    BY <1>3, <2>1 DEF MonitorQuits, MonitorTimesOut, MonitorReadFails, Disconnected
  <2>2. CASE MonitorWaits \/ MonitorReads \/ MonitorReadDone
    BY <1>2, <2>2 DEF MonitorWaits, MonitorReads, MonitorReadDone
  <2>3. ASSUME NEW w \in BOOLEAN, NEW id \in Ids, MonitorPings(id, w) PROVE Counted(at')
    <3>1. at' = at_queue_run(at_queue_add(at, NewTask(id, PingScript), TRUE), w)
      BY <2>3 DEF MonitorPings
    <3>. QED BY <1>1, <3>1, AddRunCounted DEF AllScripts
  <2>. QED BY <1>1, <1>6, <2>1, <2>2, <2>3, HandlersCounted DEF MonitorStep
<1>7. ASSUME NEW res \in Results, ModemAnswers(res) PROVE Counted(at')
  <2>1. at'.queue = at.queue /\ at'.at_cmds = at.at_cmds
    <3>1. at' = [at EXCEPT !.line = Tail(@)]
      BY <1>7 DEF ModemAnswers
    <3>. QED BY <1>1, <3>1 DEF AtState
  <2>. QED BY <2>1, SameCounted
<1>8. CASE TimerExpires
  <2>1. at'.queue = at.queue /\ at'.at_cmds = at.at_cmds
    <3>1. at' = [at EXCEPT !.expired = TRUE]
      BY <1>8 DEF TimerExpires
    <3>. QED BY <1>1, <3>1 DEF AtState
  <2>. QED BY <2>1, SameCounted
<1>9. CASE UNCHANGED vars \/ ModemReports
  BY <1>2, <1>9 DEF vars, ModemReports
<1> QED BY <1>4, <1>5, <1>6, <1>7, <1>8, <1>9 DEF Next

(* CmdsLeft is what g of Sums counts: the equation CmdsLeft is defined by  *)
(* has a solution, and only one.                                           *)
LEMMA LeftCounted ==
  ASSUME at \in AtState, Counted(at)
  PROVE  CmdsCounted
<1> DEFINE q == at.queue
           Body(f) == [n \in 0 .. Len(q) |-> IF n = 0 THEN 0
                        ELSE f[n - 1] + Len(q[n].cmds) - q[n].cindex]
<1>1. q \in Seq(Task) /\ Len(q) \in Nat /\ DOMAIN q = 1 .. Len(q)
  BY LenProperties DEF AtState
<1>2. PICK g : Sums(q, g) /\ g[Len(q)] = at.at_cmds
  BY DEF Counted, Tally
<1>3. g \in [0 .. Len(q) -> Int] /\ g[0] = 0
  BY <1>2 DEF Sums
<1>4. CmdsLeft = CHOOSE f : f = Body(f)
  BY DEF CmdsLeft
<1>5. ASSUME NEW n \in 1 .. Len(q)
      PROVE  /\ n - 1 \in 0 .. Len(q) /\ g[n] = g[n - 1] + Left(q[n])
             /\ g[n - 1] \in Int /\ Len(q[n].cmds) \in Int /\ q[n].cindex \in Int
  <2>1. q[n] \in Task
    BY <1>1
  <2>2. q[n].cindex \in Int /\ Len(q[n].cmds) \in Int
    <3>1. \A t \in Task : t.cindex \in Nat /\ Len(t.cmds) \in Nat
      BY TaskFields
    <3>. QED BY <2>1, <3>1
  <2>3. g[n] = g[n - 1] + Left(q[n]) /\ g[n - 1] \in Int
    BY <1>1, <1>2, SumsAt
  <2>. QED BY <1>1, <2>2, <2>3
<1> HIDE DEF q
<1>6. g = Body(g)
  <2>1. ASSUME NEW n \in 0 .. Len(q)
        PROVE  g[n] = (IF n = 0 THEN 0 ELSE g[n - 1] + Len(q[n].cmds) - q[n].cindex)
    <3>1. CASE n = 0
      BY <1>3, <3>1
    <3>2. CASE n # 0
      <4>1. n \in 1 .. Len(q)
        BY <1>1, <3>2
      <4>. QED BY <1>5, <4>1 DEF Left
    <3>. QED BY <3>1, <3>2
  <2>. QED BY <1>3, <2>1
<1>7. CmdsLeft = Body(CmdsLeft)
  BY <1>4, <1>6
<1> DEFINE T == {n \in 0 .. Len(q) : CmdsLeft[n] = g[n]}
<1>8. 0 \in T
  BY <1>1, <1>3, <1>7
<1>9. ASSUME NEW n \in 0 .. Len(q), n + 1 <= Len(q), n \in T PROVE n + 1 \in T
  <2>1. n + 1 \in 1 .. Len(q) /\ (n + 1) - 1 = n /\ n + 1 \in 0 .. Len(q) /\ n + 1 # 0
    BY <1>1, <1>9
  <2>2. CmdsLeft[n + 1] = CmdsLeft[n] + Len(q[n + 1].cmds) - q[n + 1].cindex
    BY <1>7, <2>1
  <2>3. g[n + 1] = g[n] + Left(q[n + 1])
    BY <1>5, <2>1
  <2>4. g[n] \in Int /\ Len(q[n + 1].cmds) \in Int /\ q[n + 1].cindex \in Int
    BY <1>5, <2>1
  <2>5. CmdsLeft[n + 1] = g[n + 1]
    BY <1>9, <2>2, <2>3, <2>4 DEF Left
  <2>. QED BY <2>1, <2>5
<1> HIDE DEF T
<1>10. 0 .. Len(q) \subseteq T
  BY <1>1, <1>8, <1>9, BoundedInduction
<1>11. Len(q) \in 0 .. Len(q)
  BY <1>1
<1>12. CmdsLeft[Len(q)] = g[Len(q)]
  BY <1>10, <1>11 DEF T
<1> QED BY <1>2, <1>12 DEF q, CmdsCounted

(* at_tasks and at_cmds are the number of queued tasks and of commands not *)
(* yet done, through every way a task may end: see CountersMatch.          *)
THEOREM CountersCorrect == Spec => []CountersMatch
<1> DEFINE CmdsTallied == Counted(at)
<1>1. Init => CmdsTallied
  BY EmptyCounted DEF Init
<1>2. IInv /\ CmdsTallied => CountersMatch
  <2>1. IInv => at \in AtState /\ TasksCounted
    BY DEF IInv, Serial1, Shape, TasksCounted
  <2>. QED BY <2>1, LeftCounted DEF CountersMatch
<1>3. IInv /\ CmdsTallied /\ [Next]_vars => CmdsTallied'
  BY NextCounted
<1> HIDE DEF CmdsTallied
<1>. QED BY <1>1, <1>2, <1>3, Invariance, PTL DEF Spec

-----------------------------------------------------------------------------
(* That AtQueue implements AtSerial, that tasks never overtake each other  *)
(* and that only an answer or a failed write advances a task.              *)
(*                                                                         *)
(* Every handler does the same three things in the same order, some of     *)
(* them not at all: it puts a task in the queue, it ends the head command, *)
(* it writes the head command.  What each of the three does to a queue is  *)
(* said by position (Grown, Ended, Written); the properties follow from    *)
(* their composition, Moves, and each action has a lemma that names its    *)
(* own Moves.                                                              *)

(* Tasks have different names, and those behind the head have not begun. *)
Orderly(q) ==
  /\ q \in Seq(Task)
  /\ \A i \in 2 .. Len(q) : q[i].cindex = 0 /\ ~q[i].sent
  /\ \A i, j \in 1 .. Len(q) : q[i].id = q[j].id => i = j

IdsOf(q) == {q[i].id : i \in 1 .. Len(q)}
Fresh(q, t) == t \in Task /\ t.id \notin IdsOf(q) /\ t.cindex = 0 /\ ~t.sent

(* p is q with the task t at position k, first only if q is empty *)
Placed(q, p, t, k) ==
  /\ p \in Seq(Task) /\ k \in 1 .. Len(p) /\ Len(p) = Len(q) + 1
  /\ \A i \in 1 .. Len(p) : p[i] = IF i < k THEN q[i] ELSE IF i = k THEN t ELSE q[i - 1]
  /\ k = 1 <=> Len(q) = 0
(* p is q without its first task, or with n in its place *)
Shorter(q, p) ==
  /\ Len(q) >= 1 /\ p \in Seq(Task) /\ Len(p) = Len(q) - 1
  /\ \A i \in 1 .. Len(p) : p[i] = q[i + 1]
Renewed(q, p, n) ==
  /\ Len(q) >= 1 /\ p \in Seq(Task) /\ Len(p) = Len(q) /\ p[1] = n
  /\ \A i \in 2 .. Len(q) : p[i] = q[i]

Following(t) == [t EXCEPT !.cindex = @ + 1, !.sent = FALSE]
AsSent(t) == [t EXCEPT !.sent = TRUE]

Grown(q, p) == p = q \/ \E t, k : Fresh(q, t) /\ Placed(q, p, t, k)
Ended(q, p) == Shorter(q, p) \/ Renewed(q, p, Following(q[1]))
Written(q, p) == p = q \/ (~q[1].sent /\ Renewed(q, p, AsSent(q[1])))

LEMMA OtherTasks ==
  ASSUME NEW t \in Task
  PROVE  /\ Following(t) \in Task /\ Following(t).id = t.id
         /\ Following(t).cindex = t.cindex + 1 /\ ~Following(t).sent
         /\ AsSent(t) \in Task /\ AsSent(t).id = t.id
         /\ AsSent(t).cindex = t.cindex /\ AsSent(t).sent
         /\ t.id \in Ids /\ t.cindex \in Nat /\ t.id # None
<1>1. t.cindex + 1 \in Nat /\ t.id \in Ids /\ t.cindex \in Nat
  BY DEF Task
<1>2. ASSUME NEW n \in Nat
      PROVE  LET u == [t EXCEPT !.cindex = n, !.sent = FALSE]
             IN  u \in Task /\ u.id = t.id /\ u.cindex = n /\ ~u.sent
  BY DEF Task
<1>3. AsSent(t) \in Task /\ AsSent(t).id = t.id /\ AsSent(t).cindex = t.cindex /\ AsSent(t).sent
  BY DEF Task, AsSent
<1>. QED BY <1>1, <1>2, <1>3, IdsAssumption DEF Following

LEMMA TaskAt ==
  ASSUME NEW q \in Seq(Task)
  PROVE  /\ Len(q) \in Nat /\ DOMAIN q = 1 .. Len(q)
         /\ \A i \in 1 .. Len(q) : q[i] \in Task
         /\ q # <<>> <=> Len(q) >= 1
         /\ q # <<>> => Head(q) = q[1] /\ 1 \in 1 .. Len(q)
BY EmptySeq, LenProperties

-----------------------------------------------------------------------------
(* Orderly queues stay orderly.                                            *)

LEMMA PlacedOrderly ==
  ASSUME NEW q, Orderly(q), NEW p, NEW t, NEW k, Fresh(q, t), Placed(q, p, t, k)
  PROVE  Orderly(p)
<1>1. q \in Seq(Task) /\ Len(q) \in Nat /\ Len(p) = Len(q) + 1 /\ k \in 1 .. Len(p)
  BY TaskAt DEF Orderly, Placed
<1>2. \A i \in 1 .. Len(p) : /\ i < k => i \in 1 .. Len(q) /\ p[i] = q[i]
                             /\ i = k => p[i] = t
                             /\ i > k => i - 1 \in 1 .. Len(q) /\ p[i] = q[i - 1]
  BY <1>1 DEF Placed
<1>3. \A i \in 1 .. Len(q) : q[i].id # t.id
  BY DEF Fresh, IdsOf
<1>4. ASSUME NEW i \in 2 .. Len(p) PROVE p[i].cindex = 0 /\ ~p[i].sent
  <2>1. i \in 1 .. Len(p) /\ (i < k => i \in 2 .. Len(q)) /\ (i > k => i - 1 \in 1 .. Len(q))
    BY <1>1
  <2>2. i > k => i - 1 \in 2 .. Len(q)
    BY <1>1, <2>1 DEF Placed
  <2>. QED BY <1>1, <1>2, <2>1, <2>2 DEF Orderly, Fresh
<1>5. ASSUME NEW i \in 1 .. Len(p), NEW j \in 1 .. Len(p), p[i].id = p[j].id PROVE i = j
  <2>0. ASSUME NEW m \in 1 .. Len(p), m # k PROVE p[m].id # t.id
    <3>1. CASE m < k
      BY <1>2, <1>3, <3>1
    <3>2. CASE m > k
      BY <1>2, <1>3, <3>2
    <3>. QED BY <1>1, <2>0, <3>1, <3>2
  <2>1. i = k <=> j = k
    BY <1>2, <1>5, <2>0
  <2>2. ASSUME i # k, j # k PROVE i = j
    <3>. DEFINE a == IF i < k THEN i ELSE i - 1
                b == IF j < k THEN j ELSE j - 1
    <3>1. a \in 1 .. Len(q) /\ b \in 1 .. Len(q) /\ p[i] = q[a] /\ p[j] = q[b]
      BY <1>1, <1>2, <2>2
    <3>2. a = b
      <4>. HIDE DEF a, b
      <4>. QED BY <3>1, <1>5 DEF Orderly
    <3>. QED BY <3>2, <2>2, <1>1
  <2>. QED BY <2>1, <2>2
<1>. QED BY <1>4, <1>5 DEF Orderly, Placed

LEMMA ShorterOrderly ==
  ASSUME NEW q, Orderly(q), NEW p, Shorter(q, p)
  PROVE  Orderly(p) /\ IdsOf(p) \subseteq IdsOf(q)
<1>1. q \in Seq(Task) /\ Len(q) \in Nat /\ Len(p) = Len(q) - 1
  BY TaskAt DEF Orderly, Shorter
<1>2. \A i \in 1 .. Len(p) : i + 1 \in 2 .. Len(q) /\ i + 1 \in 1 .. Len(q) /\ p[i] = q[i + 1]
  BY <1>1 DEF Shorter
<1>3. \A i \in 2 .. Len(p) : p[i].cindex = 0 /\ ~p[i].sent
  BY <1>1, <1>2 DEF Orderly
<1>4. ASSUME NEW i \in 1 .. Len(p), NEW j \in 1 .. Len(p), p[i].id = p[j].id PROVE i = j
  <2>1. i + 1 = j + 1
    BY <1>2, <1>4 DEF Orderly
  <2>. QED BY <2>1
<1>. QED BY <1>2, <1>3, <1>4 DEF Orderly, Shorter, IdsOf

LEMMA RenewedOrderly ==
  ASSUME NEW q, Orderly(q), NEW p, NEW n, n.id = q[1].id, Renewed(q, p, n)
  PROVE  Orderly(p) /\ IdsOf(p) = IdsOf(q) /\ \A i \in 1 .. Len(q) : p[i].id = q[i].id
<1>1. q \in Seq(Task) /\ Len(q) \in Nat /\ Len(p) = Len(q)
  BY TaskAt DEF Orderly, Renewed
<1>2. \A i \in 1 .. Len(q) : p[i].id = q[i].id
  BY <1>1 DEF Renewed
<1>3. \A i \in 2 .. Len(p) : p[i].cindex = 0 /\ ~p[i].sent
  BY <1>1 DEF Orderly, Renewed
<1>. QED BY <1>1, <1>2, <1>3 DEF Orderly, Renewed, IdsOf

LEMMA GrownOrderly ==
  ASSUME NEW q, Orderly(q), NEW p, Grown(q, p)
  PROVE  Orderly(p)
BY PlacedOrderly DEF Grown

LEMMA EndedOrderly ==
  ASSUME NEW q, Orderly(q), NEW p, Ended(q, p)
  PROVE  Orderly(p) /\ IdsOf(p) \subseteq IdsOf(q)
<1>1. CASE Shorter(q, p)
  BY <1>1, ShorterOrderly
<1>2. CASE Renewed(q, p, Following(q[1]))
  <2>1. Following(q[1]).id = q[1].id
    BY <1>2, TaskAt, OtherTasks DEF Orderly, Renewed
  <2>. QED BY <1>2, <2>1, RenewedOrderly
<1>. QED BY <1>1, <1>2 DEF Ended

LEMMA WrittenOrderly ==
  ASSUME NEW q, Orderly(q), NEW p, Written(q, p)
  PROVE  /\ Orderly(p) /\ IdsOf(p) = IdsOf(q) /\ Len(p) = Len(q)
         /\ \A i \in 1 .. Len(q) : p[i].id = q[i].id /\ p[i].cindex = q[i].cindex
<1>1. CASE Renewed(q, p, AsSent(q[1]))
  <2>1. Len(q) \in Nat /\ 1 \in 1 .. Len(q) /\ q[1] \in Task
    BY <1>1, TaskAt DEF Orderly, Renewed
  <2>2. AsSent(q[1]).id = q[1].id /\ AsSent(q[1]).cindex = q[1].cindex
    BY <2>1, OtherTasks
  <2>3. \A i \in 1 .. Len(q) : p[i].cindex = q[i].cindex
    BY <1>1, <2>1, <2>2 DEF Renewed
  <2>. QED BY <1>1, <2>2, <2>3, RenewedOrderly DEF Renewed
<1>. QED BY <1>1 DEF Written

-----------------------------------------------------------------------------
(* The whole of a step: the queue q becomes p with the new task, r when    *)
(* the head command has ended, and z when the head command was written.    *)
Moves(q, p, r, z) == Grown(q, p) /\ (r = p \/ Ended(p, r)) /\ Written(r, z)

LEMMA MovesOrderly ==
  ASSUME NEW q, Orderly(q), NEW p, NEW r, NEW z, Moves(q, p, r, z)
  PROVE  Orderly(p) /\ Orderly(r) /\ Orderly(z) /\ IdsOf(r) \subseteq IdsOf(p)
<1>1. Orderly(p)
  BY GrownOrderly DEF Moves
<1>2. Orderly(r) /\ IdsOf(r) \subseteq IdsOf(p)
  BY <1>1, EndedOrderly DEF Moves
<1>. QED BY <1>1, <1>2, WrittenOrderly DEF Moves

(* Tasks of q that are in p as well stand there in the same order. *)
Kept(q, p) ==
  \A i, j \in 1 .. Len(p), m, n \in 1 .. Len(q) :
    i < j /\ q[m].id = p[i].id /\ q[n].id = p[j].id => m < n

LEMMA KeptSame ==
  ASSUME NEW q, Orderly(q), NEW p, Len(p) = Len(q), \A i \in 1 .. Len(q) : p[i].id = q[i].id
  PROVE  Kept(q, p)
BY DEF Kept, Orderly

LEMMA KeptTrans ==
  ASSUME NEW q, NEW p, NEW r, Kept(q, p), Kept(p, r), IdsOf(r) \subseteq IdsOf(p)
  PROVE  Kept(q, r)
<1>. SUFFICES ASSUME NEW i \in 1 .. Len(r), NEW j \in 1 .. Len(r),
                     NEW m \in 1 .. Len(q), NEW n \in 1 .. Len(q),
                     i < j, q[m].id = r[i].id, q[n].id = r[j].id
              PROVE  m < n
  BY DEF Kept
<1>1. r[i].id \in IdsOf(p) /\ r[j].id \in IdsOf(p)
  BY DEF IdsOf
<1>2. PICK a \in 1 .. Len(p), b \in 1 .. Len(p) : p[a].id = r[i].id /\ p[b].id = r[j].id
  BY <1>1 DEF IdsOf
<1>3. a < b
  BY <1>2 DEF Kept
<1>. QED BY <1>2, <1>3 DEF Kept

LEMMA KeptGrown ==
  ASSUME NEW q, Orderly(q), NEW p, Grown(q, p)
  PROVE  Kept(q, p)
<1>1. CASE p = q
  BY <1>1, KeptSame
<1>2. ASSUME NEW t, NEW k, Fresh(q, t), Placed(q, p, t, k) PROVE Kept(q, p)
  <2>1. Len(q) \in Nat /\ Len(p) = Len(q) + 1 /\ k \in 1 .. Len(p)
    BY <1>2, TaskAt DEF Orderly, Placed
  <2>2. \A i \in 1 .. Len(q) : q[i].id # t.id
    BY <1>2 DEF Fresh, IdsOf
  <2>3. ASSUME NEW i \in 1 .. Len(p), NEW m \in 1 .. Len(q), q[m].id = p[i].id
        PROVE  m = IF i < k THEN i ELSE i - 1
    <3>. DEFINE a == IF i < k THEN i ELSE i - 1
    <3>1. i # k /\ a \in 1 .. Len(q) /\ p[i] = q[a]
      BY <1>2, <2>1, <2>2, <2>3 DEF Placed
    <3>2. m = a
      <4>. HIDE DEF a
      <4>. QED BY <3>1, <2>3 DEF Orderly
    <3>. QED BY <3>2
  <2>4. \A i \in 1 .. Len(p), m \in 1 .. Len(q) : q[m].id = p[i].id => i # k
    BY <1>2, <2>1, <2>2 DEF Placed
  <2>. QED BY <2>1, <2>3, <2>4 DEF Kept
<1>. QED BY <1>1, <1>2 DEF Grown

LEMMA KeptEnded ==
  ASSUME NEW q, Orderly(q), NEW p, Ended(q, p)
  PROVE  Kept(q, p)
<1>1. Len(q) \in Nat
  BY TaskAt DEF Orderly
<1>2. CASE Shorter(q, p)
  <2>1. \A i \in 1 .. Len(p), m \in 1 .. Len(q) : q[m].id = p[i].id => m = i + 1
    <3>1. \A i \in 1 .. Len(p) : i + 1 \in 1 .. Len(q) /\ p[i] = q[i + 1]
      BY <1>1, <1>2 DEF Shorter
    <3>. QED BY <3>1 DEF Orderly
  <2>. QED BY <2>1, <1>1, <1>2 DEF Kept
<1>3. CASE Renewed(q, p, Following(q[1]))
  <2>1. Following(q[1]).id = q[1].id
    BY <1>3, TaskAt, OtherTasks DEF Orderly, Renewed
  <2>2. \A i \in 1 .. Len(q) : p[i].id = q[i].id
    BY <1>3, <2>1, RenewedOrderly
  <2>. QED BY <1>3, <2>2, KeptSame DEF Renewed
<1>. QED BY <1>2, <1>3 DEF Ended

LEMMA MovesKept ==
  ASSUME NEW q, Orderly(q), NEW p, NEW r, NEW z, Moves(q, p, r, z)
  PROVE  Kept(q, z)
<1>1. Orderly(p) /\ Orderly(r) /\ IdsOf(r) \subseteq IdsOf(p)
  BY MovesOrderly
<1>2. Kept(q, p)
  BY KeptGrown DEF Moves
<1>3. Kept(p, r)
  BY <1>1, KeptSame, KeptEnded DEF Moves
<1>4. Kept(r, z) /\ IdsOf(z) = IdsOf(r)
  BY <1>1, WrittenOrderly, KeptSame DEF Moves
<1>5. Kept(q, r)
  BY <1>1, <1>2, <1>3, KeptTrans
<1>. QED BY <1>4, <1>5, KeptTrans

(* A task gets ahead only if it is the head and its command has ended. *)
LEMMA MovesAdvance ==
  ASSUME NEW q, Orderly(q), NEW p, NEW r, NEW z, Moves(q, p, r, z),
         NEW i \in 1 .. Len(q), NEW j \in 1 .. Len(z),
         q[i].id = z[j].id, z[j].cindex > q[i].cindex
  PROVE  Renewed(p, r, Following(p[1])) /\ p[1] = q[i] /\ i = 1
<1>1. Orderly(p) /\ Orderly(r) /\ Orderly(z)
  BY MovesOrderly
<1>2. Len(z) = Len(r) /\ z[j].id = r[j].id /\ z[j].cindex = r[j].cindex /\ j \in 1 .. Len(r)
  BY <1>1, WrittenOrderly DEF Moves
<1>3. /\ Len(q) \in Nat /\ Len(p) \in Nat /\ Len(r) \in Nat
      /\ q[i] \in Task /\ q[i].cindex \in Nat /\ r[j] \in Task /\ r[j].cindex \in Nat
  BY <1>1, <1>2, TaskAt, OtherTasks DEF Orderly
<1>4. PICK a \in 1 .. Len(p) : p[a] = q[i] /\ (a = 1 => i = 1)
  <2>1. CASE p = q
    BY <2>1
  <2>2. ASSUME NEW t, NEW k, Fresh(q, t), Placed(q, p, t, k)
        PROVE  \E a \in 1 .. Len(p) : p[a] = q[i] /\ (a = 1 => i = 1)
    <3>1. Len(p) = Len(q) + 1 /\ k \in 1 .. Len(p)
      BY <2>2 DEF Placed
    <3>2. CASE i < k
      <4>1. i \in 1 .. Len(p) /\ p[i] = q[i]
        BY <3>1, <3>2, <2>2, <1>3 DEF Placed
      <4>. QED BY <4>1
    <3>3. CASE i >= k
      <4>1. i + 1 \in 1 .. Len(p) /\ p[i + 1] = q[i] /\ i + 1 # 1
        BY <3>1, <3>3, <2>2, <1>3 DEF Placed
      <4>. QED BY <4>1
    <3>. QED BY <3>1, <3>2, <3>3, <1>3
  <2>. QED BY <2>1, <2>2 DEF Moves, Grown
<1>5. CASE r = p
  <2>1. j = a
    BY <1>1, <1>2, <1>4, <1>5 DEF Orderly
  <2>. QED BY <2>1, <1>2, <1>3, <1>4, <1>5
<1>6. CASE Shorter(p, r)
  <2>1. j + 1 \in 1 .. Len(p) /\ r[j] = p[j + 1]
    BY <1>2, <1>3, <1>6 DEF Shorter
  <2>2. j + 1 = a
    BY <1>1, <1>2, <1>4, <2>1 DEF Orderly
  <2>. QED BY <2>1, <2>2, <1>2, <1>3, <1>4
<1>7. CASE Renewed(p, r, Following(p[1]))
  <2>1. /\ 1 \in 1 .. Len(p) /\ p[1] \in Task /\ Following(p[1]).id = p[1].id
    BY <1>1, <1>7, TaskAt, OtherTasks DEF Orderly, Renewed
  <2>2. \A b \in 1 .. Len(p) : r[b].id = p[b].id
    BY <1>1, <1>7, <2>1, RenewedOrderly
  <2>3. j = a
    BY <1>1, <1>2, <1>4, <1>7, <2>2 DEF Orderly, Renewed
  <2>4. j = 1
    <3>1. CASE j \in 2 .. Len(p)
      BY <3>1, <2>3, <1>2, <1>3, <1>4, <1>7 DEF Renewed
    <3>. QED BY <3>1, <1>2, <1>3, <1>7 DEF Renewed
  <2>. QED BY <2>3, <2>4, <1>4, <1>7
<1>. QED BY <1>5, <1>6, <1>7 DEF Moves, Ended

-----------------------------------------------------------------------------
(* The functions of at_queue.c in these terms.                             *)

LEMMA AddMoves ==
  ASSUME NEW s, Shape(s), NEW id \in Ids, NEW cmds \in AllScripts, NEW prio \in BOOLEAN,
         id \notin IdsOf(s.queue), NEW r, r = at_queue_add(s, NewTask(id, cmds), prio)
  PROVE  /\ Shape(r) /\ r.queue # <<>> /\ Grown(s.queue, r.queue) /\ r.werr = s.werr
         /\ s.queue # <<>> => Head(r.queue) = Head(s.queue)
         /\ s.queue = <<>> => ~InFlight(r)
<1>. DEFINE q == s.queue
            t == NewTask(id, cmds)
<1>1. /\ Shape(r) /\ r.queue # <<>>
      /\ s.queue # <<>> => Head(r.queue) = Head(s.queue)
      /\ s.queue = <<>> => ~InFlight(r)
  BY AddShape
<1>2. t \in Task /\ t.id = id /\ t.cindex = 0 /\ ~t.sent
  BY NewTaskType DEF NewTask
<1>3. Fresh(q, t)
  BY <1>2 DEF Fresh
<1>4. s \in AtState /\ q \in Seq(Task)
  BY DEF Shape, AtState
<1>. HIDE DEF t
<1>5. /\ r.queue = IF prio /\ q # <<>> THEN <<Head(q), t>> \o Tail(q) ELSE Append(q, t)
      /\ r.werr = s.werr
  BY <1>4 DEF at_queue_add, AtState, t
<1>6. CASE prio /\ q # <<>>
  <2>1. /\ r.queue \in Seq(Task) /\ Len(r.queue) = Len(q) + 1
        /\ r.queue[1] = q[1] /\ r.queue[2] = t
        /\ \A i \in 3 .. Len(r.queue) : r.queue[i] = q[i - 1]
    BY <1>2, <1>4, <1>5, <1>6, InsertSecond
  <2>2. Len(q) \in Nat /\ Len(q) >= 1
    BY <1>4, <1>6, TaskAt
  <2>3. Placed(q, r.queue, t, 2)
    BY <2>1, <2>2 DEF Placed
  <2>. QED BY <1>1, <1>3, <1>5, <2>3 DEF Grown
<1>7. CASE ~(prio /\ q # <<>>)
  <2>1. /\ r.queue \in Seq(Task) /\ Len(r.queue) = Len(q) + 1
        /\ \A i \in 1 .. Len(q) : r.queue[i] = q[i]
        /\ r.queue[Len(q) + 1] = t
    BY <1>2, <1>4, <1>5, <1>7, AppendProperties
  <2>2. Len(q) \in Nat
    BY <1>4, TaskAt
  <2>3. Placed(q, r.queue, t, Len(q) + 1)
    BY <2>1, <2>2 DEF Placed
  <2>. QED BY <1>1, <1>3, <1>5, <2>3 DEF Grown
<1>. QED BY <1>6, <1>7

LEMMA TailShorter ==
  ASSUME NEW q \in Seq(Task), q # <<>>
  PROVE  Shorter(q, Tail(q))
BY HeadTailProperties, TaskAt DEF Shorter

LEMMA HeadRenewed ==
  ASSUME NEW q \in Seq(Task), q # <<>>, NEW n \in Task
  PROVE  Renewed(q, <<n>> \o Tail(q), n)
BY ReplaceHead, TaskAt DEF Renewed

(* A command that is not the last ends its task only when it is mandatory  *)
(* and did not get the result it expects.                                  *)
LEMMA RemoveMoves ==
  ASSUME NEW s, Shape(s), s.queue # <<>>, NEW res, NEW r, r = at_queue_remove_cmd(s, res)
  PROVE  /\ Shape(r) /\ r.werr = s.werr
         /\ \/ Shorter(s.queue, r.queue)
            \/ /\ Renewed(s.queue, r.queue, Following(s.queue[1]))
               /\ CurrentCmd(s.queue[1]).res = res \/ CurrentCmd(s.queue[1]).ignore
<1>. DEFINE q == s.queue
            t == Head(q)
            s1 == [s EXCEPT !.queue = <<Following(t)>> \o Tail(@), !.at_cmds = @ - 1, !.expired = FALSE]
            ends == \/ Following(t).cindex >= Len(t.cmds)
                    \/ CurrentCmd(t).res # res /\ ~CurrentCmd(t).ignore
<1>1. s \in AtState /\ q \in Seq(Task) /\ t = q[1] /\ t \in Task
  BY TaskAt DEF Shape, AtState
<1>2. Following(t) \in Task
  BY <1>1, OtherTasks
<1>3. r = IF ends THEN at_queue_remove(s1) ELSE s1
  BY DEF at_queue_remove_cmd, Following
<1>4. /\ s1.queue = <<Following(t)>> \o Tail(q) /\ s1.werr = s.werr
      /\ DOMAIN s1 = DOMAIN s
  BY <1>1 DEF AtState
<1>5. Tail(s1.queue) = Tail(q) /\ Renewed(q, s1.queue, Following(t))
  BY <1>1, <1>2, <1>4, ReplaceHead, HeadRenewed
<1>6. Shape(r)
  BY RemoveShape
<1>7. CASE ends
  <2>. HIDE DEF s1
  <2>1. "queue" \in DOMAIN s /\ "werr" \in DOMAIN s
    BY <1>1 DEF AtState
  <2>2. at_queue_remove(s1).queue = Tail(s1.queue) /\ at_queue_remove(s1).werr = s1.werr
    BY <1>4, <2>1 DEF at_queue_remove
  <2>3. r.queue = Tail(q) /\ r.werr = s.werr
    BY <1>3, <1>4, <1>5, <1>7, <2>2
  <2>. QED BY <1>1, <1>6, <2>3, TailShorter
<1>8. CASE ~ends
  <2>1. r = s1
    BY <1>3, <1>8
  <2>. HIDE DEF s1
  <2>. QED BY <1>1, <1>4, <1>5, <1>6, <1>8, <2>1
<1>. QED BY <1>7, <1>8

LEMMA RunMoves ==
  ASSUME NEW s, Shape(s), NEW w \in BOOLEAN, NEW r, r = at_queue_run(s, w)
  PROVE  /\ Shape(r)
         /\ ~Waiting(s) => r = s
         /\ RunFails(s, w) => ~s.queue[1].sent /\ r.werr /\ Ended(s.queue, r.queue)
         /\ ~RunFails(s, w) => Written(s.queue, r.queue) /\ r.werr = s.werr /\ ~Waiting(r)
<1>1. Shape(r)
  BY RunShape
<1>2. CASE ~Waiting(s)
  BY <1>1, <1>2 DEF at_queue_run, RunFails, Written
<1>3. CASE Waiting(s) /\ w
  <2>1. /\ s \in AtState /\ s.queue \in Seq(Task) /\ s.queue # <<>>
        /\ Head(s.queue) = s.queue[1] /\ s.queue[1] \in Task /\ ~s.queue[1].sent
    BY <1>3, TaskAt DEF Shape, AtState, Waiting
  <2>2. r.queue = <<AsSent(s.queue[1])>> \o Tail(s.queue) /\ r.werr = s.werr
    BY <1>3, <2>1 DEF at_queue_run, AtState, AsSent
  <2>3. Renewed(s.queue, r.queue, AsSent(s.queue[1]))
    BY <2>1, <2>2, OtherTasks, HeadRenewed
  <2>4. ~Waiting(r)
    BY <1>3, RunShape DEF Waiting, InFlight
  <2>. QED BY <1>1, <1>3, <2>1, <2>2, <2>3, <2>4 DEF Written, RunFails
<1>4. CASE Waiting(s) /\ ~w
  <2>1. s.queue # <<>> /\ ~s.queue[1].sent
    BY <1>4, TaskAt DEF Shape, AtState, Waiting
  <2>. DEFINE u == at_queue_remove_cmd(s, "WRITE_ERROR")
  <2>2. u \in AtState /\ Ended(s.queue, u.queue)
    BY <2>1, RemoveMoves DEF Ended, Shape
  <2>3. r = [u EXCEPT !.werr = TRUE]
    BY <1>4 DEF at_queue_run
  <2>. HIDE DEF u
  <2>4. r.queue = u.queue /\ r.werr
    BY <2>2, <2>3 DEF AtState
  <2>. QED BY <1>1, <1>4, <2>1, <2>2, <2>4 DEF RunFails
<1>. QED BY <1>2, <1>3, <1>4

-----------------------------------------------------------------------------
(* The steps of the specification.                                         *)

RInv == Orderly(at.queue) /\ (monitor = "down" => at.queue = <<>>)
PInv == IInv /\ RInv

(* a reason for which the head command t may end with its task going on    *)
Reason(t) ==
  \/ ~t.sent /\ at'.werr
  \/ /\ inbox # <<>> /\ Head(inbox).to = CurrentKey(t)
     /\ CurrentCmd(t).res = Head(inbox).res \/ CurrentCmd(t).ignore

(* The head command goes on; it ends; a result it cannot have is dropped.  *)
Carries ==
  /\ AnswerPending' <=> AnswerPending
  /\ \E p : Moves(at.queue, p, p, at'.queue)
Ends ==
  /\ ~InFlight(at) \/ AnswerPending
  /\ ~AnswerPending'
  /\ \E p, r : /\ Moves(at.queue, p, r, at'.queue)
               /\ Shorter(p, r) \/ (Renewed(p, r, Following(p[1])) /\ Reason(p[1]))
Drops == at'.queue = at.queue /\ AnswerPending /\ ~AnswerPending'
Answers == \E res \in Results : ModemAnswers(res)

OneOfKinds == Disconnected \/ Carries \/ Ends \/ Drops \/ Answers

LEMMA Pending ==
  ASSUME PInv
  PROVE  /\ AnswerPending <=> ~NoFinal(inbox)
         /\ ~InFlight(at) => ~AnswerPending
         /\ Shape(at) /\ Orderly(at.queue) /\ at.queue \in Seq(Task) /\ inbox \in Seq(Message)
         /\ InFlight(at) => at.queue # <<>> /\ at.queue[1].sent /\ Head(at.queue) = at.queue[1]
<1>1. Serial1(at, inbox) /\ Shape(at) /\ Orderly(at.queue)
  BY DEF PInv, RInv, IInv, Serial1
<1>2. AnswerPending <=> ~NoFinal(inbox)
  BY DEF AnswerPending, NoFinal, IsFinal
<1>3. ~InFlight(at) => NoFinal(inbox)
  BY <1>1, NothingOnItsWay
<1>4. at.queue \in Seq(Task) /\ inbox \in Seq(Message)
  BY <1>1 DEF Orderly, Serial1
<1>. QED BY <1>1, <1>2, <1>3, <1>4, TaskAt DEF InFlight

(* s is the driver after an insertion, or before one *)
Inserted(s) ==
  /\ Shape(s) /\ Grown(at.queue, s.queue)
  /\ at.queue # <<>> => s.queue # <<>> /\ Head(s.queue) = Head(at.queue)
  /\ at.queue = <<>> => ~InFlight(s)

LEMMA InsertedAdd ==
  ASSUME PInv, NEW id \in Ids \ QueuedIds, NEW cmds \in AllScripts, NEW prio \in BOOLEAN
  PROVE  Inserted(at_queue_add(at, NewTask(id, cmds), prio))
<1>1. DOMAIN at.queue = 1 .. Len(at.queue)
  BY Pending, TaskAt
<1>2. id \notin IdsOf(at.queue)
  BY <1>1 DEF IdsOf, QueuedIds
<1>3. Shape(at)
  BY Pending
<1>. QED BY <1>2, <1>3, AddMoves DEF Inserted

LEMMA InsertedNothing ==
  ASSUME PInv
  PROVE  Inserted(at)
BY Pending DEF Inserted, Grown, InFlight

(* the queue is run after an insertion, and nothing is read *)
LEMMA RunKind ==
  ASSUME PInv, NEW s, Inserted(s), NEW w \in BOOLEAN, at' = at_queue_run(s, w),
         AnswerPending' <=> AnswerPending
  PROVE  Carries \/ Ends
<1>1. Shape(s)
  BY DEF Inserted
<1>2. CASE ~RunFails(s, w)
  <2>1. Written(s.queue, at'.queue)
    BY <1>1, <1>2, RunMoves
  <2>. QED BY <2>1 DEF Moves, Inserted, Carries
<1>3. CASE RunFails(s, w)
  <2>. DEFINE p == s.queue
              res == "WRITE_ERROR"
  <2>1. ~p[1].sent /\ at'.werr /\ Ended(p, at'.queue) /\ Waiting(s)
    BY <1>1, <1>3, RunMoves DEF RunFails
  <2>2. ~InFlight(at)
    BY <2>1 DEF Inserted, InFlight, Waiting
  <2>3. Moves(at.queue, p, at'.queue, at'.queue)
    BY <2>1 DEF Moves, Inserted, Written
  <2>4. Reason(p[1])
    BY <2>1 DEF Reason
  <2>5. ~AnswerPending'
    BY <2>2, Pending
  <2>. HIDE DEF p
  <2>. QED BY <2>1, <2>2, <2>3, <2>4, <2>5 DEF Ends, Ended
<1>. QED BY <1>2, <1>3

(* a handler that has left record s runs the queue, and reads on *)
LEMMA TailPending ==
  ASSUME PInv, Handling, inbox' = Tail(inbox)
  PROVE  /\ inbox # <<>>
         /\ Head(inbox).to = Unsolicited => (AnswerPending' <=> AnswerPending)
         /\ Head(inbox).to # Unsolicited =>
              AnswerPending /\ ~AnswerPending' /\ InFlight(at) /\ Head(inbox).to = CurrentKey(at.queue[1])
<1>1. inbox \in Seq(Message) /\ fetched \in 0 .. Len(inbox) /\ fetched > 0 /\ Serial1(at, inbox)
  BY DEF PInv, IInv, Serial1, Handling
<1>2. Len(inbox) \in Nat /\ Len(inbox) >= 1 /\ inbox # <<>> /\ DOMAIN inbox = 1 .. Len(inbox)
  BY <1>1, EmptySeq, LenProperties
<1>3. /\ Len(Tail(inbox)) = Len(inbox) - 1 /\ Head(inbox) = inbox[1]
      /\ \A i \in 1 .. Len(inbox) - 1 : Tail(inbox)[i] = inbox[i + 1]
      /\ Tail(inbox) \in Seq(Message) /\ DOMAIN Tail(inbox) = 1 .. Len(inbox) - 1
  BY <1>1, <1>2, HeadTailProperties, LenProperties
<1>4. AnswerPending' <=> ~NoFinal(Tail(inbox))
  BY DEF AnswerPending, NoFinal, IsFinal
<1>5. CASE Head(inbox).to = Unsolicited
  <2>1. ASSUME NEW i \in DOMAIN inbox, inbox[i].to # Unsolicited
        PROVE  \E j \in DOMAIN Tail(inbox) : Tail(inbox)[j].to # Unsolicited
    <3>1. i - 1 \in 1 .. Len(inbox) - 1 /\ (i - 1) + 1 = i
      BY <1>2, <1>3, <1>5, <2>1
    <3>2. Tail(inbox)[i - 1] = inbox[i]
      BY <1>3, <3>1
    <3>. QED BY <1>3, <2>1, <3>1, <3>2
  <2>2. ASSUME NEW j \in DOMAIN Tail(inbox), Tail(inbox)[j].to # Unsolicited
        PROVE  \E i \in DOMAIN inbox : inbox[i].to # Unsolicited
    <3>1. j + 1 \in DOMAIN inbox /\ Tail(inbox)[j] = inbox[j + 1]
      BY <1>2, <1>3, <2>2
    <3>. QED BY <3>1, <2>2
  <2>3. AnswerPending' <=> AnswerPending
    BY <2>1, <2>2, <1>4 DEF AnswerPending, NoFinal, IsFinal
  <2>. QED BY <2>3, <1>2, <1>5
<1>6. CASE Head(inbox).to # Unsolicited
  <2>1. NoFinal(Tail(inbox))
    BY <1>1, <1>2, <1>6, TailSerial
  <2>2. 1 \in DOMAIN inbox /\ IsFinal(inbox, 1) /\ inbox[1].to # Unsolicited
    BY <1>2, <1>3, <1>6 DEF IsFinal
  <2>3. InFlight(at) /\ inbox[1].to = HeadKey(at)
    BY <1>1, <2>2 DEF Serial1, InboxOK
  <2>4. AnswerPending
    BY <2>2 DEF AnswerPending
  <2>5. Head(at.queue) = at.queue[1]
    BY <2>3, Pending
  <2>. QED BY <1>2, <1>3, <1>4, <1>6, <2>1, <2>3, <2>4, <2>5 DEF HeadKey
<1>. QED BY <1>5, <1>6

LEMMA FinalKind ==
  ASSUME PInv, Handling, Head(inbox).to # Unsolicited, NEW s, Inserted(s),
         s.queue # at.queue => Head(inbox).res = "ERROR",
         NEW fresh, NEW fatal \in BOOLEAN, NEW w \in BOOLEAN,
         FinishResult(HandleResult(s, Head(inbox)), fresh, fatal, w)
  PROVE  Disconnected \/ Ends \/ Drops
<1>. DEFINE m == Head(inbox)
            u == HandleResult(s, m)
<1>1. CASE fatal \/ RunFails(u, w)
  BY <1>1 DEF FinishResult
<1>2. CASE ~(fatal \/ RunFails(u, w))
  <2>1. at' = at_queue_run(u, w) /\ inbox' = Tail(inbox) /\ ~RunFails(u, w)
    BY <1>2 DEF FinishResult
  <2>2. /\ AnswerPending /\ ~AnswerPending' /\ InFlight(at)
        /\ inbox # <<>> /\ m.to = CurrentKey(at.queue[1])
    BY <2>1, TailPending
  <2>3. /\ Shape(s) /\ s.queue # <<>> /\ Head(s.queue) = at.queue[1] /\ s.queue[1] = at.queue[1]
        /\ at.queue[1].sent
    BY <2>2, Pending, TaskAt DEF Inserted, InFlight, Shape, AtState
  <2>4. CASE Accepts(Head(s.queue), m.res)
    <3>1. u = at_queue_remove_cmd(s, m.res)
      BY <2>3, <2>4 DEF HandleResult
    <3>. HIDE DEF u
    <3>2. /\ Shape(u)
          /\ \/ Shorter(s.queue, u.queue)
             \/ /\ Renewed(s.queue, u.queue, Following(s.queue[1]))
                /\ CurrentCmd(s.queue[1]).res = m.res \/ CurrentCmd(s.queue[1]).ignore
      BY <3>1, <2>3, RemoveMoves
    <3>3. Written(u.queue, at'.queue)
      BY <2>1, <3>2, RunMoves
    <3>4. Moves(at.queue, s.queue, u.queue, at'.queue)
      BY <3>2, <3>3 DEF Moves, Inserted, Ended
    <3>5. Shorter(s.queue, u.queue) \/ (Renewed(s.queue, u.queue, Following(s.queue[1])) /\ Reason(s.queue[1]))
      BY <3>2, <2>2, <2>3 DEF Reason
    <3>. QED BY <2>2, <3>4, <3>5 DEF Ends
  <2>5. CASE ~Accepts(Head(s.queue), m.res)
    <3>1. u = s /\ s.queue = at.queue
      BY <2>5 DEF HandleResult, Accepts
    <3>2. at' = s
      <4>1. ~Waiting(s)
        BY <2>3 DEF Waiting
      <4>. QED BY <4>1, <3>1, <2>1 DEF at_queue_run
    <3>. QED BY <3>1, <3>2, <2>2 DEF Drops
  <2>. QED BY <2>4, <2>5
<1>. QED BY <1>1, <1>2

LEMMA UnsolicitedKind ==
  ASSUME PInv, Handling, Head(inbox).to = Unsolicited, NEW s, Inserted(s), NEW u,
         NEW v \in BOOLEAN, u = s \/ u = at_queue_run(s, v),
         NEW fresh, NEW fatal \in BOOLEAN, NEW w \in BOOLEAN,
         FinishResult(u, fresh, fatal, w)
  PROVE  Disconnected \/ Carries \/ Ends
<1>1. CASE fatal \/ RunFails(u, w)
  BY <1>1 DEF FinishResult
<1>2. CASE ~(fatal \/ RunFails(u, w))
  <2>1. at' = at_queue_run(u, w) /\ inbox' = Tail(inbox) /\ ~RunFails(u, w)
    BY <1>2 DEF FinishResult
  <2>2. AnswerPending' <=> AnswerPending
    BY <2>1, TailPending
  <2>3. Shape(s)
    BY DEF Inserted
  <2>4. CASE u = s
    BY <2>1, <2>2, <2>4, RunKind
  <2>5. CASE u = at_queue_run(s, v) /\ ~RunFails(s, v)
    <3>1. ~Waiting(u)
      BY <2>3, <2>5, RunMoves
    <3>2. at' = at_queue_run(s, v)
      BY <2>1, <2>5, <3>1 DEF at_queue_run
    <3>. QED BY <3>2, <2>2, RunKind
  <2>6. CASE u = at_queue_run(s, v) /\ RunFails(s, v)
    <3>1. Shape(u) /\ ~s.queue[1].sent /\ u.werr /\ Ended(s.queue, u.queue) /\ Waiting(s)
      BY <2>3, <2>6, RunMoves DEF RunFails
    <3>2. Written(u.queue, at'.queue) /\ at'.werr
      BY <3>1, <2>1, RunMoves
    <3>3. Moves(at.queue, s.queue, u.queue, at'.queue)
      BY <3>1, <3>2 DEF Moves, Inserted
    <3>4. ~InFlight(at)
      BY <3>1 DEF Inserted, InFlight, Waiting
    <3>5. ~AnswerPending'
      BY <3>4, <2>2, Pending
    <3>6. Reason(s.queue[1])
      BY <3>1, <3>2 DEF Reason
    <3>. QED BY <3>1, <3>3, <3>4, <3>5, <3>6 DEF Ends, Ended
  <2>. QED BY <2>4, <2>5, <2>6
<1>. QED BY <1>1, <1>2

LEMMA MonitorKind ==
  ASSUME PInv, MonitorStep
  PROVE  OneOfKinds
<1>1. CASE MonitorQuits \/ MonitorTimesOut \/ MonitorReadFails
  BY <1>1 DEF MonitorQuits, MonitorTimesOut, MonitorReadFails, OneOfKinds
<1>2. CASE MonitorWaits \/ MonitorReads \/ MonitorReadDone
  <2>1. UNCHANGED <<at, inbox>>
    BY <1>2 DEF MonitorWaits, MonitorReads, MonitorReadDone
  <2>. QED BY <2>1 DEF OneOfKinds, Carries, Moves, Grown, Written, AnswerPending
<1>3. ASSUME NEW w \in BOOLEAN, NEW id \in Ids, MonitorPings(id, w) PROVE OneOfKinds
  <2>. DEFINE s == at_queue_add(at, NewTask(id, PingScript), TRUE)
  <2>1. id \notin QueuedIds /\ PingScript \in AllScripts
    BY <1>3 DEF MonitorPings, QueuedIds, AllScripts
  <2>2. Inserted(s)
    BY <2>1, InsertedAdd
  <2>3. at' = at_queue_run(s, w) /\ inbox' = inbox
    BY <1>3 DEF MonitorPings
  <2>4. AnswerPending' <=> AnswerPending
    BY <2>3 DEF AnswerPending
  <2>. HIDE DEF s
  <2>. QED BY <2>2, <2>3, <2>4, RunKind DEF OneOfKinds
<1>4. ASSUME NEW w \in BOOLEAN, NEW fatal \in BOOLEAN, HandleFinal(fatal, w) PROVE OneOfKinds
  BY <1>4, InsertedNothing, FinalKind DEF HandleFinal, OneOfKinds
<1>5. ASSUME NEW w \in BOOLEAN, NEW fatal \in BOOLEAN, HandleUnsolicited(fatal, w) PROVE OneOfKinds
  BY <1>5, InsertedNothing, UnsolicitedKind DEF HandleUnsolicited, OneOfKinds
<1>6. ASSUME NEW w \in BOOLEAN, NEW id \in Ids, NEW cmds \in Scripts, HandleErrorRequeue(id, cmds, w)
      PROVE  OneOfKinds
  <2>. DEFINE s == at_queue_add(at, NewTask(id, cmds), FALSE)
  <2>1. Inserted(s)
    BY <1>6, InsertedAdd DEF HandleErrorRequeue, AllScripts
  <2>2. /\ Handling /\ Head(inbox).to # Unsolicited /\ Head(inbox).res = "ERROR"
        /\ FinishResult(HandleResult(s, Head(inbox)), {id}, FALSE, w)
    BY <1>6 DEF HandleErrorRequeue
  <2>. HIDE DEF s
  <2>. QED BY <2>1, <2>2, FinalKind DEF OneOfKinds
<1>7. ASSUME NEW w \in BOOLEAN, NEW id \in Ids, NEW cmds \in Scripts, NEW prio \in BOOLEAN,
             NEW w1 \in BOOLEAN, HandleUnsolicitedInsert(id, cmds, prio, w1, w)
      PROVE  OneOfKinds
  <2>. DEFINE s == at_queue_add(at, NewTask(id, cmds), prio)
  <2>1. Inserted(s)
    BY <1>7, InsertedAdd DEF HandleUnsolicitedInsert, AllScripts
  <2>2. /\ Handling /\ Head(inbox).to = Unsolicited
        /\ FinishResult(at_queue_run(s, w1), IF RunFails(s, w1) THEN {} ELSE {id}, FALSE, w)
    BY <1>7 DEF HandleUnsolicitedInsert
  <2>. HIDE DEF s
  <2>. QED BY <2>1, <2>2, UnsolicitedKind DEF OneOfKinds
<1>. QED BY <1>1, <1>2, <1>3, <1>4, <1>5, <1>6, <1>7 DEF MonitorStep

LEMMA StepKinds == PInv /\ [Next]_vars => OneOfKinds
<1>. SUFFICES ASSUME PInv, [Next]_vars PROVE OneOfKinds
  OBVIOUS
<1>1. CASE UNCHANGED <<at, inbox>>
  BY <1>1 DEF OneOfKinds, Carries, Moves, Grown, Written, AnswerPending
<1>2. ASSUME NEW id \in Ids, NEW w \in BOOLEAN, Connect(id, w) PROVE OneOfKinds
  <2>. DEFINE s == at_queue_add(EmptyQueue, NewTask(id, InitScript), FALSE)
  <2>1. at' = at_queue_run(s, w) /\ inbox' = <<>> /\ monitor = "down"
    BY <1>2 DEF Connect
  <2>2. at.queue = <<>> /\ ~InFlight(at)
    BY <2>1 DEF PInv, RInv, InFlight
  <2>3. Inserted(s)
    <3>1. Shape(EmptyQueue) /\ EmptyQueue.queue = <<>>
      BY EmptySerial DEF Serial1, EmptyQueue
    <3>2. id \notin IdsOf(EmptyQueue.queue)
      BY <3>1 DEF IdsOf
    <3>3. InitScript \in AllScripts
      BY DEF AllScripts
    <3>. QED BY <3>1, <3>2, <3>3, <2>2, AddMoves DEF Inserted
  <2>4. ~AnswerPending /\ ~AnswerPending'
    BY <2>1, <2>2, Pending DEF AnswerPending
  <2>. HIDE DEF s
  <2>. QED BY <2>1, <2>3, <2>4, RunKind DEF OneOfKinds
<1>3. ASSUME NEW id \in Ids, NEW cmds \in Scripts, NEW prio \in BOOLEAN,
             NEW stored \in BOOLEAN, NEW w \in BOOLEAN, Insert(id, cmds, prio, stored, w)
      PROVE  OneOfKinds
  <2>. DEFINE s == IF stored THEN at_queue_add(at, NewTask(id, cmds), prio) ELSE at
  <2>1. Inserted(s)
    BY <1>3, InsertedAdd, InsertedNothing DEF Insert, AllScripts
  <2>2. at' = at_queue_run(s, w) /\ inbox' = inbox
    BY <1>3 DEF Insert
  <2>3. AnswerPending' <=> AnswerPending
    BY <2>2 DEF AnswerPending
  <2>. HIDE DEF s
  <2>. QED BY <2>1, <2>2, <2>3, RunKind DEF OneOfKinds
<1>4. CASE ModemReports
  <2>. DEFINE m == [to |-> Unsolicited, res |-> "OK"]
  <2>1. inbox' = Append(inbox, m) /\ at' = at /\ m \in Message /\ m.to = Unsolicited
    BY <1>4 DEF ModemReports, Message, Results
  <2>2. inbox \in Seq(Message) /\ DOMAIN inbox = 1 .. Len(inbox) /\ Len(inbox) \in Nat
    BY Pending, LenProperties
  <2>. HIDE DEF m
  <2>3. /\ Len(inbox') = Len(inbox) + 1 /\ DOMAIN inbox' = 1 .. Len(inbox')
        /\ \A i \in 1 .. Len(inbox) : inbox'[i] = inbox[i]
        /\ inbox'[Len(inbox) + 1] = m
    BY <2>1, <2>2, AppendProperties, LenProperties
  <2>4. AnswerPending' <=> AnswerPending
    BY <2>1, <2>2, <2>3 DEF AnswerPending
  <2>. QED BY <2>1, <2>4 DEF OneOfKinds, Carries, Moves, Grown, Written
<1>5. CASE TimerExpires
  <2>1. at'.queue = at.queue /\ inbox' = inbox
    BY <1>5 DEF TimerExpires, PInv, IInv, Serial1, Shape, AtState
  <2>. QED BY <2>1 DEF OneOfKinds, Carries, Moves, Grown, Written, AnswerPending
<1>6. CASE \E res \in Results : ModemAnswers(res)
  BY <1>6 DEF OneOfKinds, Answers
<1>. QED BY <1>1, <1>2, <1>3, <1>4, <1>5, <1>6, MonitorKind DEF Next, vars

(* what the answer of the modem does to the driver *)
LEMMA AnswerEffect ==
  ASSUME PInv, Answers
  PROVE  at'.queue = at.queue /\ InFlight(at) /\ ~AnswerPending /\ AnswerPending'
<1>1. PICK res \in Results : ModemAnswers(res)
  BY DEF Answers
<1>. DEFINE k == Head(at.line)
            m == [to |-> k, res |-> res]
<1>2. at \in AtState /\ at.line \in Seq(Key) /\ at.line # <<>>
  BY <1>1 DEF PInv, IInv, Serial1, Shape, AtState, ModemAnswers
<1>3. k \in Key /\ 1 \in DOMAIN at.line
  BY <1>2, HeadTailProperties, EmptySeq, LenProperties
<1>4. InFlight(at) /\ NoFinal(inbox)
  BY <1>2, <1>3 DEF PInv, IInv, Serial1, LineOK, InboxOK, NoFinal
<1>5. k # Unsolicited
  BY <1>3 DEF Key, Unsolicited
<1>6. at'.queue = at.queue
  BY <1>1, <1>2 DEF ModemAnswers, AtState
<1>7. inbox \in Seq(Message) /\ m \in Message /\ inbox' = Append(inbox, m) /\ m.to = k
  BY <1>1, <1>3, Pending DEF ModemAnswers, Message
<1>. HIDE DEF m
<1>8. Len(inbox) + 1 \in DOMAIN inbox' /\ inbox'[Len(inbox) + 1] = m
  BY <1>7, AppendProperties, LenProperties
<1>9. AnswerPending'
  BY <1>5, <1>7, <1>8 DEF AnswerPending
<1>. QED BY <1>4, <1>6, <1>9, Pending

LEMMA EmptyOrderly == Orderly(<<>>)
<1>1. <<>> \in Seq(Task) /\ Len(<<>>) = 0
  OBVIOUS
<1>2. \A i \in 2 .. 0 : FALSE
  OBVIOUS
<1>3. \A i \in 1 .. 0 : FALSE
  OBVIOUS
<1>. QED BY <1>1, <1>2, <1>3 DEF Orderly

LEMMA KindOrderly ==
  ASSUME PInv, OneOfKinds
  PROVE  Orderly(at'.queue)
<1>1. CASE Disconnected
  BY <1>1, EmptyOrderly DEF Disconnected, EmptyQueue
<1>2. CASE Carries
  BY <1>2, Pending, MovesOrderly DEF Carries
<1>3. CASE Ends
  BY <1>3, Pending, MovesOrderly DEF Ends
<1>4. CASE Drops \/ Answers
  BY <1>4, Pending, AnswerEffect DEF Drops
<1>. QED BY <1>1, <1>2, <1>3, <1>4 DEF OneOfKinds

LEMMA DownEmpty ==
  ASSUME PInv, [Next]_vars
  PROVE  monitor' = "down" => at'.queue = <<>>
<1>1. monitor = "down" => at.queue = <<>>
  BY DEF PInv, RInv
<1>2. CASE UNCHANGED vars
  BY <1>1, <1>2 DEF vars
<1>3. ASSUME NEW s, NEW fresh, NEW fatal, NEW w, Handling, FinishResult(s, fresh, fatal, w)
      PROVE  monitor' = "down" => at'.queue = <<>>
  BY <1>3 DEF Handling, FinishResult, Disconnected, EmptyQueue
<1>4. CASE MonitorStep
  <2>1. CASE MonitorQuits \/ MonitorTimesOut \/ MonitorReadFails
    BY <2>1 DEF MonitorQuits, MonitorTimesOut, MonitorReadFails, Disconnected, EmptyQueue
  <2>2. CASE MonitorWaits \/ MonitorReads \/ MonitorReadDone
    BY <2>2 DEF MonitorWaits, MonitorReads, MonitorReadDone, at_queue_timeout
  <2>3. CASE \E id \in Ids, w \in BOOLEAN : MonitorPings(id, w)
    BY <2>3 DEF MonitorPings
  <2>. QED BY <1>3, <1>4, <2>1, <2>2, <2>3
       DEF MonitorStep, HandleFinal, HandleUnsolicited, HandleErrorRequeue, HandleUnsolicitedInsert
<1>5. CASE \E id \in Ids, w \in BOOLEAN : Connect(id, w)
  BY <1>5 DEF Connect
<1>6. CASE \E id \in Ids, cmds \in Scripts, prio, stored, w \in BOOLEAN :
             Insert(id, cmds, prio, stored, w)
  BY <1>6 DEF Insert
<1>7. CASE ModemReports
  BY <1>1, <1>7 DEF ModemReports
<1>8. CASE TimerExpires
  BY <1>1, <1>8 DEF TimerExpires, PInv, IInv, Serial1, Shape, AtState
<1>9. CASE \E res \in Results : ModemAnswers(res)
  <2>1. at'.queue = at.queue /\ monitor' = monitor
    BY <1>9, AnswerEffect DEF Answers, ModemAnswers
  <2>. QED BY <1>1, <2>1
<1>. QED BY <1>2, <1>4, <1>5, <1>6, <1>7, <1>8, <1>9 DEF Next

LEMMA PInvariance == Spec => []PInv
<1>1. Init => PInv
  <2>1. ASSUME Init PROVE RInv
    BY <2>1, EmptyOrderly DEF Init, EmptyQueue, RInv
  <2>. QED BY <2>1, InitInv DEF PInv
<1>2. PInv /\ [Next]_vars => PInv'
  <2>. SUFFICES ASSUME PInv, [Next]_vars PROVE PInv'
    OBVIOUS
  <2>1. IInv'
    BY NextInv DEF PInv
  <2>2. Orderly(at'.queue)
    BY StepKinds, KindOrderly
  <2>3. RInv'
    BY <2>2, DownEmpty DEF RInv
  <2>. QED BY <2>1, <2>3 DEF PInv
<1>. QED BY <1>1, <1>2, PTL DEF Spec

(* Tasks are served in the order they stand, whoever inserts, whatever is  *)
(* answered and whichever write fails: at_queue_add, at_queue_remove,      *)
(* at_queue_run.                                                           *)
THEOREM OrderCorrect == Spec => OrderKept
<1>. DEFINE Ordered == \A a, b \in Ids : Before(at.queue, a, b) => ~Before(at'.queue, b, a)
<1>1. PInv /\ [Next]_vars => [Ordered]_vars
  <2>. SUFFICES ASSUME PInv, [Next]_vars, NEW a \in Ids, NEW b \in Ids,
                       Before(at.queue, a, b), Before(at'.queue, b, a)
                PROVE  FALSE
    OBVIOUS
  <2>1. OneOfKinds /\ Orderly(at.queue) /\ Orderly(at'.queue)
    BY StepKinds, KindOrderly, Pending
  <2>2. Kept(at.queue, at'.queue)
    <3>1. CASE Disconnected
      <4>1. Len(at'.queue) = 0
        BY <3>1 DEF Disconnected, EmptyQueue
      <4>. QED BY <4>1 DEF Kept
    <3>2. CASE Carries \/ Ends
      BY <3>2, <2>1, MovesKept DEF Carries, Ends
    <3>3. CASE Drops \/ Answers
      BY <3>3, <2>1, AnswerEffect, KeptSame DEF Drops
    <3>. QED BY <2>1, <3>1, <3>2, <3>3 DEF OneOfKinds
  <2>3. DOMAIN at.queue = 1 .. Len(at.queue) /\ DOMAIN at'.queue = 1 .. Len(at'.queue)
    BY <2>1, TaskAt DEF Orderly
  <2>4. PICK m \in 1 .. Len(at.queue), n \in 1 .. Len(at.queue) :
               m < n /\ at.queue[m].id = a /\ at.queue[n].id = b
    BY <2>3 DEF Before
  <2>5. PICK i \in 1 .. Len(at'.queue), j \in 1 .. Len(at'.queue) :
               i < j /\ at'.queue[i].id = b /\ at'.queue[j].id = a
    BY <2>3 DEF Before
  <2>6. n < m
    BY <2>2, <2>4, <2>5 DEF Kept
  <2>. QED BY <2>4, <2>6
<1>. QED BY <1>1, PInvariance, PTL DEF Spec, OrderKept

(* A task advances only over the answer its current command expects, an    *)
(* answer to a command that may fail, or a failed write:                   *)
(* at_queue_remove_cmd, at_queue_run and the handlers of final results.    *)
THEOREM AdvanceCorrect == Spec => AdvanceNeedsResult
<1>. DEFINE Told(t) ==
              \/ ~t.sent /\ at'.werr
              \/ /\ inbox # <<>> /\ Head(inbox).to = CurrentKey(t)
                 /\ \/ CurrentCmd(t).res = Head(inbox).res
                    \/ CurrentCmd(t).ignore
            Justified ==
              \A i \in DOMAIN at.queue, j \in DOMAIN at'.queue :
                LET t == at.queue[i]  u == at'.queue[j]
                IN  (t.id = u.id /\ u.cindex > t.cindex) => Told(t)
<1>1. PInv /\ [Next]_vars => [Justified]_vars
  <2>. SUFFICES ASSUME PInv, [Next]_vars, NEW i \in DOMAIN at.queue, NEW j \in DOMAIN at'.queue,
                       at.queue[i].id = at'.queue[j].id, at'.queue[j].cindex > at.queue[i].cindex
                PROVE  Reason(at.queue[i])
    BY DEF Reason
  <2>1. OneOfKinds /\ Orderly(at.queue) /\ Orderly(at'.queue)
    BY StepKinds, KindOrderly, Pending
  <2>2. i \in 1 .. Len(at.queue) /\ j \in 1 .. Len(at'.queue) /\ at.queue[i].cindex \in Nat
    BY <2>1, TaskAt, OtherTasks DEF Orderly
  <2>3. CASE Disconnected
    <3>1. Len(at'.queue) = 0
      BY <2>3 DEF Disconnected, EmptyQueue
    <3>. QED BY <3>1, <2>2
  <2>4. CASE Carries
    <3>1. PICK p : Moves(at.queue, p, p, at'.queue)
      BY <2>4 DEF Carries
    <3>2. Renewed(p, p, Following(p[1]))
      BY <3>1, <2>1, <2>2, MovesAdvance
    <3>3. p[1] \in Task
      BY <3>1, <3>2, <2>1, MovesOrderly, TaskAt DEF Renewed, Orderly
    <3>. QED BY <3>2, <3>3, OtherTasks DEF Renewed
  <2>5. CASE Ends
    <3>1. PICK p, r : /\ Moves(at.queue, p, r, at'.queue)
                      /\ Shorter(p, r) \/ (Renewed(p, r, Following(p[1])) /\ Reason(p[1]))
      BY <2>5 DEF Ends
    <3>2. Renewed(p, r, Following(p[1])) /\ p[1] = at.queue[i]
      BY <3>1, <2>1, <2>2, MovesAdvance
    <3>3. Len(p) \in Nat
      BY <3>1, <2>1, MovesOrderly, TaskAt DEF Orderly
    <3>. QED BY <3>1, <3>2, <3>3 DEF Shorter, Renewed
  <2>6. CASE Drops \/ Answers
    <3>1. at'.queue = at.queue
      BY <2>6, AnswerEffect DEF Drops
    <3>2. i = j
      BY <3>1, <2>1, <2>2 DEF Orderly
    <3>. QED BY <3>1, <3>2, <2>2
  <2>. QED BY <2>1, <2>3, <2>4, <2>5, <2>6 DEF OneOfKinds
<1>. QED BY <1>1, PInvariance, PTL DEF Spec, AdvanceNeedsResult

-----------------------------------------------------------------------------
(* The queue as AtSerial sees it.                                          *)

Waits(q) == {q[i].id : i \in 2 .. Len(q)}
RunId(q) == IF q = <<>> THEN None ELSE Head(q).id
StepOf(q) == IF q = <<>> THEN 0 ELSE Head(q).cindex
NewOf(q) == {{}} \cup {{id} : id \in Ids \ (Waits(q) \cup {RunId(q)})}

(* the head goes on, another task takes over, nobody is left *)
GoesOn(q, z, new) ==
  q # <<>> /\ z # <<>> /\ RunId(z) = RunId(q) /\ Waits(z) = Waits(q) \cup new
TakesOver(q, z, new) ==
  /\ RunId(z) \in Waits(q) \cup new /\ Waits(z) = (Waits(q) \cup new) \ {RunId(z)}
  /\ StepOf(z) \in {0, 1}
NobodyLeft(q, z) == z = <<>> /\ Waits(q) = {}

LEMMA GrownView ==
  ASSUME NEW q, Orderly(q), NEW p, Grown(q, p)
  PROVE  \E new \in NewOf(q) :
           /\ q # <<>> => p # <<>> /\ p[1] = q[1] /\ Waits(p) = Waits(q) \cup new
           /\ q = <<>> => /\ Waits(q) = {} /\ Waits(p) = {}
                          /\ \/ p = <<>> /\ new = {}
                             \/ p # <<>> /\ new = {p[1].id} /\ p[1].cindex = 0 /\ ~p[1].sent
<1>1. q \in Seq(Task) /\ Len(q) \in Nat /\ (q # <<>> <=> Len(q) >= 1) /\ Orderly(p)
  BY TaskAt, GrownOrderly DEF Orderly
<1>2. p \in Seq(Task) /\ Len(p) \in Nat /\ (p # <<>> <=> Len(p) >= 1)
  BY <1>1, TaskAt DEF Orderly
<1>3. q = <<>> => Waits(q) = {}
  BY <1>1 DEF Waits
<1>4. CASE p = q
  BY <1>1, <1>3, <1>4 DEF NewOf
<1>5. ASSUME NEW t, NEW k, Fresh(q, t), Placed(q, p, t, k)
      PROVE  /\ {t.id} \in NewOf(q)
             /\ q # <<>> => p # <<>> /\ p[1] = q[1] /\ Waits(p) = Waits(q) \cup {t.id}
             /\ q = <<>> => Waits(p) = {} /\ p # <<>> /\ p[1] = t /\ t.cindex = 0 /\ ~t.sent
  <2>1. /\ Len(p) = Len(q) + 1 /\ k \in 1 .. Len(p) /\ (k = 1 <=> Len(q) = 0)
        /\ t.id \in Ids /\ t.id # None
    BY <1>5, OtherTasks DEF Placed, Fresh
  <2>2. \A i \in 1 .. Len(q) : q[i].id # t.id
    BY <1>5 DEF Fresh, IdsOf
  <2>3. {t.id} \in NewOf(q)
    <3>1. t.id \notin Waits(q)
      BY <1>1, <2>2 DEF Waits
    <3>2. t.id # RunId(q)
      BY <1>1, <2>1, <2>2, TaskAt DEF RunId
    <3>. QED BY <2>1, <3>1, <3>2 DEF NewOf
  <2>4. CASE q = <<>>
    <3>1. Len(p) = 1 /\ p[1] = t /\ Waits(p) = {}
      BY <1>1, <1>5, <2>1, <2>4 DEF Placed, Waits
    <3>. QED BY <2>3, <2>4, <3>1, <1>2, <1>5 DEF Fresh
  <2>5. CASE q # <<>>
    <3>1. k \in 2 .. Len(p) /\ p[1] = q[1] /\ p[k] = t
      BY <1>1, <1>5, <2>1, <2>5 DEF Placed
    <3>2. \A i \in 2 .. Len(p) : p[i] = IF i < k THEN q[i] ELSE IF i = k THEN t ELSE q[i - 1]
      BY <1>1, <1>5, <2>1 DEF Placed
    <3>3. ASSUME NEW i \in 2 .. Len(p) PROVE p[i].id \in Waits(q) \cup {t.id}
      <4>1. CASE i < k
        BY <4>1, <3>2, <2>1, <1>1 DEF Waits
      <4>2. CASE i > k
        <5>1. i - 1 \in 2 .. Len(q) /\ p[i] = q[i - 1]
          BY <4>2, <3>1, <3>2, <2>1, <1>1
        <5>. QED BY <5>1 DEF Waits
      <4>. QED BY <4>1, <4>2, <3>1, <3>2, <2>1
    <3>4. ASSUME NEW i \in 2 .. Len(q) PROVE q[i].id \in Waits(p)
      <4>1. CASE i < k
        BY <4>1, <3>2, <2>1, <1>1 DEF Waits
      <4>2. CASE i >= k
        <5>1. i + 1 \in 2 .. Len(p) /\ p[i + 1] = q[i]
          BY <4>2, <3>1, <3>2, <2>1, <1>1
        <5>. QED BY <5>1 DEF Waits
      <4>. QED BY <4>1, <4>2, <3>1, <2>1
    <3>5. t.id \in Waits(p)
      BY <3>1 DEF Waits
    <3>6. Waits(p) \subseteq Waits(q) \cup {t.id} /\ Waits(q) \subseteq Waits(p)
      BY <3>3, <3>4 DEF Waits
    <3>7. Waits(p) = Waits(q) \cup {t.id}
      BY <3>5, <3>6
    <3>8. p # <<>>
      BY <1>1, <1>2, <2>1
    <3>. QED BY <2>3, <2>5, <3>1, <3>7, <3>8
  <2>. QED BY <2>4, <2>5
<1>. QED BY <1>3, <1>4, <1>5 DEF Grown

LEMMA ShorterView ==
  ASSUME NEW q, Orderly(q), NEW p, Shorter(q, p)
  PROVE  \/ p = <<>> /\ Waits(q) = {}
         \/ /\ p # <<>> /\ RunId(p) \in Waits(q) /\ Waits(p) = Waits(q) \ {RunId(p)}
            /\ StepOf(p) = 0
<1>1. q \in Seq(Task) /\ Len(q) \in Nat /\ Len(q) >= 1 /\ p \in Seq(Task) /\ Len(p) = Len(q) - 1
  BY TaskAt DEF Orderly, Shorter
<1>2. p # <<>> <=> Len(p) >= 1
  BY <1>1, TaskAt
<1>3. \A i \in 1 .. Len(p) : i + 1 \in 2 .. Len(q) /\ p[i] = q[i + 1]
  BY <1>1 DEF Shorter
<1>4. \A i \in 2 .. Len(q) : i - 1 \in 1 .. Len(p) /\ p[i - 1] = q[i]
  BY <1>1, <1>3
<1>5. CASE p = <<>>
  BY <1>1, <1>2, <1>5 DEF Waits
<1>6. CASE p # <<>>
  <2>1. Head(p) = p[1] /\ p[1] = q[2] /\ 2 \in 2 .. Len(q) /\ RunId(p) = q[2].id /\ StepOf(p) = 0
    <3>1. Head(p) = p[1] /\ p[1] = q[2] /\ 2 \in 2 .. Len(q)
      BY <1>1, <1>2, <1>3, <1>6, TaskAt
    <3>. QED BY <3>1, <1>6 DEF RunId, StepOf, Orderly
  <2>2. RunId(p) \in Waits(q)
    BY <2>1 DEF Waits
  <2>3. ASSUME NEW i \in 2 .. Len(p) PROVE p[i].id \in Waits(q) /\ p[i].id # RunId(p)
    <3>1. i + 1 \in 2 .. Len(q) /\ p[i] = q[i + 1] /\ i + 1 # 2
      BY <1>1, <1>3
    <3>2. i + 1 \in 1 .. Len(q) /\ 2 \in 1 .. Len(q)
      BY <1>1, <2>1, <3>1
    <3>. QED BY <2>1, <3>1, <3>2 DEF Waits, Orderly
  <2>4. ASSUME NEW i \in 2 .. Len(q), q[i].id # RunId(p) PROVE q[i].id \in Waits(p)
    <3>1. i - 1 \in 2 .. Len(p) /\ p[i - 1] = q[i]
      BY <1>1, <1>4, <2>1, <2>4
    <3>. QED BY <3>1 DEF Waits
  <2>5. Waits(p) = Waits(q) \ {RunId(p)}
    BY <2>3, <2>4 DEF Waits
  <2>. QED BY <1>6, <2>1, <2>2, <2>5
<1>. QED BY <1>5, <1>6

LEMMA RenewedView ==
  ASSUME NEW q, Orderly(q), NEW p, NEW n, Renewed(q, p, n)
  PROVE  q # <<>> /\ p # <<>> /\ Head(p) = n /\ Waits(p) = Waits(q) /\ Head(q) = q[1] /\ q[1] \in Task
<1>1. /\ q \in Seq(Task) /\ Len(q) \in Nat /\ Len(q) >= 1 /\ p \in Seq(Task) /\ Len(p) = Len(q)
      /\ p[1] = n /\ \A i \in 2 .. Len(q) : p[i] = q[i]
  BY TaskAt DEF Orderly, Renewed
<1>2. q # <<>> /\ p # <<>> /\ Head(p) = p[1] /\ Head(q) = q[1] /\ q[1] \in Task
  BY <1>1, TaskAt
<1>3. Waits(p) = Waits(q)
  BY <1>1 DEF Waits
<1>. QED BY <1>1, <1>2, <1>3

LEMMA WrittenView ==
  ASSUME NEW q, Orderly(q), NEW p, Written(q, p)
  PROVE  /\ Waits(p) = Waits(q) /\ RunId(p) = RunId(q) /\ StepOf(p) = StepOf(q)
         /\ p = <<>> <=> q = <<>>
<1>1. CASE Renewed(q, p, AsSent(q[1]))
  BY <1>1, RenewedView, OtherTasks DEF RunId, StepOf
<1>. QED BY <1>1 DEF Written

(* the head command was not ended *)
LEMMA CarriesView ==
  ASSUME NEW q, Orderly(q), NEW p, NEW z, Moves(q, p, p, z)
  PROVE  \E new \in NewOf(q) :
           \/ GoesOn(q, z, new) /\ StepOf(z) = StepOf(q)
           \/ q = <<>> /\ TakesOver(q, z, new)
           \/ q = <<>> /\ NobodyLeft(q, z)
<1>1. /\ Orderly(p) /\ Waits(z) = Waits(p) /\ RunId(z) = RunId(p) /\ StepOf(z) = StepOf(p)
      /\ z = <<>> <=> p = <<>>
  BY MovesOrderly, WrittenView DEF Moves
<1>2. q \in Seq(Task) /\ p \in Seq(Task)
  BY <1>1 DEF Orderly
<1>3. /\ q # <<>> => Head(q) = q[1]
      /\ p # <<>> => Head(p) = p[1]
  BY <1>2, TaskAt
<1>4. PICK new \in NewOf(q) :
           /\ q # <<>> => p # <<>> /\ p[1] = q[1] /\ Waits(p) = Waits(q) \cup new
           /\ q = <<>> => /\ Waits(q) = {} /\ Waits(p) = {}
                          /\ \/ p = <<>> /\ new = {}
                             \/ p # <<>> /\ new = {p[1].id} /\ p[1].cindex = 0 /\ ~p[1].sent
  BY GrownView DEF Moves
<1>5. CASE q # <<>>
  <2>1. GoesOn(q, z, new) /\ StepOf(z) = StepOf(q)
    BY <1>1, <1>3, <1>4, <1>5 DEF GoesOn, RunId, StepOf
  <2>. QED BY <2>1
<1>6. CASE q = <<>> /\ p = <<>>
  BY <1>1, <1>4, <1>6 DEF NobodyLeft
<1>7. CASE q = <<>> /\ p # <<>>
  <2>1. RunId(z) = p[1].id /\ StepOf(z) = 0
    BY <1>1, <1>3, <1>4, <1>7 DEF RunId, StepOf
  <2>2. TakesOver(q, z, new)
    BY <2>1, <1>1, <1>4, <1>7 DEF TakesOver
  <2>. QED BY <1>7, <2>2
<1>. QED BY <1>5, <1>6, <1>7

(* the head command was ended *)
LEMMA EndsView ==
  ASSUME NEW q, Orderly(q), NEW p, NEW r, NEW z, Moves(q, p, r, z), Ended(p, r)
  PROVE  \E new \in NewOf(q) :
           \/ GoesOn(q, z, new) /\ StepOf(z) > StepOf(q)
           \/ TakesOver(q, z, new)
           \/ NobodyLeft(q, z)
<1>1. /\ Orderly(p) /\ Orderly(r)
      /\ Waits(z) = Waits(r) /\ RunId(z) = RunId(r) /\ StepOf(z) = StepOf(r)
      /\ z = <<>> <=> r = <<>>
  BY MovesOrderly, WrittenView DEF Moves
<1>2. q \in Seq(Task) /\ p \in Seq(Task)
  BY <1>1 DEF Orderly
<1>3. /\ q # <<>> => Head(q) = q[1]
      /\ p # <<>> => Head(p) = p[1]
  BY <1>2, TaskAt
<1>4. PICK new \in NewOf(q) :
           /\ q # <<>> => p # <<>> /\ p[1] = q[1] /\ Waits(p) = Waits(q) \cup new
           /\ q = <<>> => /\ Waits(q) = {} /\ Waits(p) = {}
                          /\ \/ p = <<>> /\ new = {}
                             \/ p # <<>> /\ new = {p[1].id} /\ p[1].cindex = 0 /\ ~p[1].sent
  BY GrownView DEF Moves
<1>5. CASE Renewed(p, r, Following(p[1]))
  <2>1. /\ p # <<>> /\ r # <<>> /\ Head(r) = Following(p[1]) /\ Waits(r) = Waits(p) /\ p[1] \in Task
    BY <1>1, <1>5, RenewedView
  <2>2. /\ RunId(r) = p[1].id /\ StepOf(r) = p[1].cindex + 1 /\ p[1].cindex \in Nat
    BY <2>1, OtherTasks DEF RunId, StepOf
  <2>3. CASE q # <<>>
    <3>1. GoesOn(q, z, new) /\ StepOf(z) > StepOf(q)
      BY <1>1, <1>3, <1>4, <2>1, <2>2, <2>3 DEF GoesOn, RunId, StepOf
    <3>. QED BY <3>1
  <2>4. CASE q = <<>>
    <3>1. TakesOver(q, z, new)
      BY <1>1, <1>4, <2>1, <2>2, <2>4 DEF TakesOver
    <3>. QED BY <3>1
  <2>. QED BY <2>3, <2>4
<1>6. CASE Shorter(p, r)
  <2>1. \/ r = <<>> /\ Waits(p) = {}
        \/ /\ r # <<>> /\ RunId(r) \in Waits(p) /\ Waits(r) = Waits(p) \ {RunId(r)}
           /\ StepOf(r) = 0
    BY <1>1, <1>6, ShorterView
  <2>2. CASE q # <<>>
    <3>1. Waits(p) = Waits(q) \cup new
      BY <1>4, <2>2
    <3>2. CASE r = <<>> /\ Waits(p) = {}
      BY <1>1, <3>1, <3>2 DEF NobodyLeft
    <3>3. CASE ~(r = <<>> /\ Waits(p) = {})
      <4>1. TakesOver(q, z, new)
        BY <1>1, <2>1, <3>1, <3>3 DEF TakesOver
      <4>. QED BY <4>1
    <3>. QED BY <3>2, <3>3
  <2>3. CASE q = <<>>
    <3>1. NobodyLeft(q, z)
      BY <1>1, <1>4, <2>1, <2>3 DEF NobodyLeft
    <3>. QED BY <3>1
  <2>. QED BY <2>2, <2>3
<1>. QED BY <1>5, <1>6 DEF Ended

(* the phase of the head command, before and after a step *)
LEMMA Phases ==
  ASSUME PInv
  PROVE  /\ ~InFlight(at) => Phase = "unsent"
         /\ InFlight(at) /\ ~AnswerPending => Phase = "busy"
         /\ AnswerPending => Phase = "answered" /\ InFlight(at)
BY Pending DEF Phase

LEMMA NextPhases ==
  /\ ~InFlight(at') => Phase' = "unsent"
  /\ InFlight(at') /\ ~AnswerPending' => Phase' = "busy"
  /\ InFlight(at') /\ AnswerPending' => Phase' = "answered"
BY DEF Phase

(* The variables of AtSerial are views of the queue. *)
LEMMA Views ==
  /\ {at.queue[i].id : i \in 2 .. Len(at.queue)} = Waits(at.queue)
  /\ ({at.queue[i].id : i \in 2 .. Len(at.queue)})' = Waits(at'.queue)
  /\ RunningTask = RunId(at.queue) /\ RunningTask' = RunId(at'.queue)
  /\ CurrentStep = StepOf(at.queue) /\ CurrentStep' = StepOf(at'.queue)
BY DEF Waits, RunId, StepOf, RunningTask, CurrentStep

LEMMA RunSome ==
  ASSUME NEW q \in Seq(Task), q # <<>>
  PROVE  RunId(q) \in Ids /\ RunId(q) # None
BY TaskAt, OtherTasks DEF RunId

LEMMA InitRefines == Init => Serial!SerialInit
<1>. SUFFICES ASSUME Init PROVE Serial!SerialInit
  OBVIOUS
<1>1. at.queue = <<>> /\ Len(at.queue) = 0 /\ ~InFlight(at)
  BY DEF Init, EmptyQueue, InFlight
<1>2. {at.queue[i].id : i \in 2 .. Len(at.queue)} = {}
  BY <1>1
<1>. QED BY <1>1, <1>2 DEF Serial!SerialInit, RunningTask, CurrentStep, Phase

(* an insertion while a command is in flight *)
LEMMA SubmitRefines ==
  ASSUME PInv, Carries, InFlight(at)
  PROVE  [Serial!SerialNext]_Serial!svars
<1>. DEFINE q == at.queue
            z == at'.queue
<1>1. Orderly(q) /\ q # <<>> /\ q[1].sent /\ q \in Seq(Task) /\ Head(q) = q[1]
  BY Pending
<1>2. PICK p : Moves(q, p, p, z)
  BY DEF Carries
<1>3. PICK new \in NewOf(q) :
           /\ p # <<>> /\ p[1] = q[1] /\ Waits(p) = Waits(q) \cup new
  BY <1>1, <1>2, GrownView DEF Moves
<1>4. z = p
  BY <1>1, <1>2, <1>3 DEF Moves, Written
<1>5. Orderly(p) /\ Head(p) = p[1]
  <2>1. Orderly(p)
    BY <1>1, <1>2, MovesOrderly
  <2>2. p \in Seq(Task)
    BY <2>1 DEF Orderly
  <2>. QED BY <1>3, <2>1, <2>2, TaskAt
<1>6. /\ RunId(z) = RunId(q) /\ StepOf(z) = StepOf(q) /\ Waits(z) = Waits(q) \cup new
      /\ InFlight(at')
  <2>1. z # <<>> /\ z[1] = q[1] /\ Head(z) = q[1] /\ Waits(z) = Waits(q) \cup new
    BY <1>3, <1>4, <1>5
  <2>2. RunId(z) = RunId(q) /\ StepOf(z) = StepOf(q)
    BY <1>1, <2>1 DEF RunId, StepOf
  <2>. QED BY <1>1, <2>1, <2>2 DEF InFlight
<1>7. Phase' = Phase
  BY <1>6, Phases, NextPhases DEF Carries
<1>8. RunId(q) # None
  BY <1>1, RunSome
<1>9. CASE new = {}
  BY <1>6, <1>7, <1>9, Views DEF Serial!svars
<1>10. ASSUME NEW id \in Ids \ (Waits(q) \cup {RunId(q)}), new = {id}
       PROVE  Serial!Submit(id)
  BY <1>6, <1>7, <1>8, <1>10, Views DEF Serial!Submit
<1>. QED BY <1>3, <1>9, <1>10 DEF NewOf, Serial!SerialNext

(* the modem is free *)
LEMMA AdvanceRefines ==
  ASSUME PInv, ~InFlight(at) \/ AnswerPending, ~AnswerPending',
         NEW new \in NewOf(at.queue),
         \/ /\ GoesOn(at.queue, at'.queue, new)
            /\ \/ StepOf(at'.queue) > StepOf(at.queue)
               \/ ~InFlight(at) /\ StepOf(at'.queue) = StepOf(at.queue)
         \/ TakesOver(at.queue, at'.queue, new)
         \/ NobodyLeft(at.queue, at'.queue)
  PROVE  Serial!Advance
<1>. DEFINE q == at.queue
            z == at'.queue
<1>1. Phase \in {"unsent", "answered"} /\ (~InFlight(at) => Phase = "unsent")
  BY Phases
<1>2. Phase' \in {"unsent", "busy"} /\ (z = <<>> => Phase' = "unsent")
  BY NextPhases DEF InFlight
<1>3. new \in Serial!Fresh
  BY Views DEF Serial!Fresh, NewOf
<1>4. CASE /\ GoesOn(q, z, new)
           /\ \/ StepOf(z) > StepOf(q)
              \/ ~InFlight(at) /\ StepOf(z) = StepOf(q)
  <2>1. RunId(q) # None
    BY <1>4, Pending, RunSome DEF GoesOn
  <2>2. Serial!Continue(new)
    BY <1>1, <1>4, <2>1, Views DEF GoesOn, Serial!Continue
  <2>. QED BY <1>1, <1>2, <1>3, <2>2 DEF Serial!Advance
<1>5. CASE TakesOver(q, z, new)
  <2>1. Serial!TakeOver(new)
    BY <1>5, Views DEF TakesOver, Serial!TakeOver
  <2>. QED BY <1>1, <1>2, <1>3, <2>1 DEF Serial!Advance
<1>6. CASE NobodyLeft(q, z)
  <2>1. Len(z) = 0 /\ Waits(z) = {}
    BY <1>6 DEF NobodyLeft, Waits
  <2>2. Serial!GoIdle
    BY <1>6, <2>1, Views DEF NobodyLeft, RunId, StepOf, Serial!GoIdle
  <2>. QED BY <1>1, <1>2, <1>3, <1>6, <2>2 DEF Serial!Advance, NobodyLeft
<1>. QED BY <1>4, <1>5, <1>6

LEMMA StepRefines == PInv /\ [Next]_vars => [Serial!SerialNext]_Serial!svars
<1>. SUFFICES ASSUME PInv, [Next]_vars PROVE [Serial!SerialNext]_Serial!svars
  OBVIOUS
<1>1. OneOfKinds /\ Orderly(at.queue)
  BY StepKinds, Pending
<1>2. CASE Disconnected
  <2>1. at'.queue = <<>> /\ Len(at'.queue) = 0 /\ ~InFlight(at')
    BY <1>2 DEF Disconnected, EmptyQueue, InFlight
  <2>2. Waits(at'.queue) = {}
    BY <2>1 DEF Waits
  <2>3. Serial!Lost
    BY <2>1, <2>2, Views, NextPhases DEF RunId, StepOf, Serial!Lost
  <2>. QED BY <2>3 DEF Serial!SerialNext
<1>3. CASE Carries /\ InFlight(at)
  BY <1>3, SubmitRefines
<1>4. CASE Carries /\ ~InFlight(at)
  <2>1. ~AnswerPending'
    BY <1>4, Pending DEF Carries
  <2>2. PICK p : Moves(at.queue, p, p, at'.queue)
    BY <1>4 DEF Carries
  <2>3. PICK new \in NewOf(at.queue) :
             \/ GoesOn(at.queue, at'.queue, new) /\ StepOf(at'.queue) = StepOf(at.queue)
             \/ TakesOver(at.queue, at'.queue, new)
             \/ NobodyLeft(at.queue, at'.queue)
    BY <1>1, <2>2, CarriesView
  <2>4. Serial!Advance
    BY <1>4, <2>1, <2>3, AdvanceRefines
  <2>. QED BY <2>4 DEF Serial!SerialNext
<1>5. CASE Ends
  <2>1. PICK p, r : Moves(at.queue, p, r, at'.queue) /\ Ended(p, r)
    BY <1>5 DEF Ends, Ended
  <2>2. PICK new \in NewOf(at.queue) :
             \/ GoesOn(at.queue, at'.queue, new) /\ StepOf(at'.queue) > StepOf(at.queue)
             \/ TakesOver(at.queue, at'.queue, new)
             \/ NobodyLeft(at.queue, at'.queue)
    BY <1>1, <2>1, EndsView
  <2>3. Serial!Advance
    BY <1>5, <2>2, AdvanceRefines DEF Ends
  <2>. QED BY <2>3 DEF Serial!SerialNext
<1>6. CASE Drops
  <2>1. at'.queue = at.queue /\ AnswerPending /\ ~AnswerPending' /\ InFlight(at) /\ InFlight(at')
    BY <1>6, Pending DEF Drops, InFlight
  <2>2. Serial!Discard
    BY <2>1, Phases, NextPhases, Views DEF Serial!Discard
  <2>. QED BY <2>2 DEF Serial!SerialNext
<1>7. CASE Answers
  <2>1. /\ at'.queue = at.queue /\ InFlight(at) /\ InFlight(at')
        /\ ~AnswerPending /\ AnswerPending'
    BY <1>7, AnswerEffect DEF InFlight
  <2>2. Serial!Answer
    BY <2>1, Phases, NextPhases, Views DEF Serial!Answer
  <2>. QED BY <2>2 DEF Serial!SerialNext
<1>. QED BY <1>1, <1>2, <1>3, <1>4, <1>5, <1>6, <1>7 DEF OneOfKinds

(* The queue implements AtSerial: the modem is given one command at a      *)
(* time, a task that has begun keeps it until it ends, and nothing but an  *)
(* answer, a failed write or the loss of the connection takes it from a    *)
(* command, whatever threads insert and the modem says (at_queue.c and     *)
(* do_monitor_phone).                                                      *)
THEOREM PromiseCorrect == Spec => SerialPromise
<1>1. Spec => []PInv
  BY PInvariance
<1>2. Init => Serial!SerialInit
  BY InitRefines
<1>3. PInv /\ [Next]_vars => [Serial!SerialNext]_Serial!svars
  BY StepRefines
<1>. QED BY <1>1, <1>2, <1>3, PTL DEF Spec, SerialPromise, Serial!SerialSpec

-----------------------------------------------------------------------------
(* The results: from here on the proofs are about AtRead.                  *)

-----------------------------------------------------------------------------
(* What FlattenSeq returns.                                                *)

Pieces(s, h, n) == h[0] = <<>> /\ \A i \in 1 .. n : h[i] = h[i - 1] \o s[i]

LEMMA PiecesExist ==
  ASSUME NEW T, NEW s \in Seq(Seq(T))
  PROVE  \E h \in [0 .. Len(s) -> Seq(T)] : Pieces(s, h, Len(s))
<1> DEFINE Upto(m, h) == h \in [0 .. m -> Seq(T)] /\ Pieces(s, h, m)
           Ways == {m \in 0 .. Len(s) : \E h : Upto(m, h)}
<1>1. Len(s) \in Nat /\ \A i \in 1 .. Len(s) : s[i] \in Seq(T)
  OBVIOUS
<1>2. 0 \in Ways
  <2> DEFINE h == [i \in 0 .. 0 |-> <<>>]
  <2>1. <<>> \in Seq(T)
    OBVIOUS
  <2>2. Upto(0, h)
    BY <2>1 DEF Pieces
  <2> HIDE DEF h, Upto
  <2>. QED BY <1>1, <2>2
<1>3. ASSUME NEW m \in 0 .. Len(s), m + 1 <= Len(s), m \in Ways PROVE m + 1 \in Ways
  <2>1. PICK h : Upto(m, h)
    BY <1>3
  <2> DEFINE x == h[m] \o s[m + 1]
             g == [i \in 0 .. m + 1 |-> IF i = m + 1 THEN x ELSE h[i]]
  <2>2. x \in Seq(T)
    <3>1. h[m] \in Seq(T) /\ s[m + 1] \in Seq(T)
      BY <1>1, <1>3, <2>1
    <3>. QED BY <3>1, ConcatProperties
  <2> HIDE DEF x
  <2>3. g \in [0 .. m + 1 -> Seq(T)]
    BY <2>1, <2>2
  <2>4. \A i \in 0 .. m : g[i] = h[i]
    BY <1>3
  <2>5. g[m + 1] = x
    BY <1>3
  <2> HIDE DEF g
  <2>6. ASSUME NEW i \in 1 .. m + 1 PROVE g[i] = g[i - 1] \o s[i]
    <3>1. i - 1 \in 0 .. m /\ g[i - 1] = h[i - 1]
      BY <1>3, <2>4
    <3>2. CASE i = m + 1
      <4>1. i - 1 = m
        BY <1>3, <3>2
      <4>. QED BY <2>5, <3>1, <3>2, <4>1 DEF x
    <3>3. CASE i \in 1 .. m
      <4>1. h[i] = h[i - 1] \o s[i]
        BY ONLY <2>1, <3>3 DEF Pieces
      <4>2. g[i] = h[i]
        BY <1>3, <2>4, <3>3
      <4>. QED BY ONLY <3>1, <4>1, <4>2
    <3>4. i = m + 1 \/ i \in 1 .. m
      BY <1>3
    <3>. QED BY ONLY <3>2, <3>3, <3>4
  <2>7. g[0] = <<>>
    <3>1. 0 \in 0 .. m
      BY <1>3
    <3>. QED BY <2>1, <2>4, <3>1 DEF Pieces
  <2>8. Upto(m + 1, g)
    BY <2>3, <2>6, <2>7 DEF Pieces
  <2> HIDE DEF Upto
  <2>. QED BY <1>1, <1>3, <2>8
<1> HIDE DEF Ways
<1>4. 0 .. Len(s) \subseteq Ways
  BY <1>1, <1>2, <1>3, BoundedInduction
<1>5. Len(s) \in 0 .. Len(s)
  BY <1>1
<1> QED BY <1>4, <1>5 DEF Ways

LEMMA FlattenSays ==
  ASSUME NEW T, NEW s \in Seq(Seq(T)), NEW h \in [0 .. Len(s) -> Seq(T)],
         Pieces(s, h, Len(s))
  PROVE  FlattenSeq(s) = h[Len(s)]
<1>1. Len(s) \in Nat /\ \A i \in 1 .. Len(s) : s[i] \in Seq(T)
  OBVIOUS
<1>2. CASE Len(s) = 0
  <2>1. s = <<>>
    BY <1>2
  <2>. QED BY <1>2, <2>1 DEF FlattenSeq, Pieces
<1>3. CASE Len(s) # 0
  <2> DEFINE Body(g) == [i \in 1 .. Len(s) |-> IF i = 1 THEN s[i] ELSE g[i - 1] \o s[i]]
             flatten == CHOOSE g : g = Body(g)
             part == [i \in 1 .. Len(s) |-> h[i]]
  <2>1. FlattenSeq(s) = flatten[Len(s)]
    BY <1>3 DEF FlattenSeq
  <2>2. \A i \in 1 .. Len(s) : h[i] = IF i = 1 THEN s[i] ELSE part[i - 1] \o s[i]
    <3> SUFFICES ASSUME NEW i \in 1 .. Len(s)
                 PROVE  h[i] = IF i = 1 THEN s[i] ELSE part[i - 1] \o s[i]
      OBVIOUS
    <3>1. h[i] = h[i - 1] \o s[i] /\ s[i] \in Seq(T)
      BY <1>1 DEF Pieces
    <3>2. CASE i = 1
      <4>1. h[i - 1] = <<>>
        BY <3>2 DEF Pieces
      <4>. QED BY <3>1, <3>2, <4>1, ConcatEmptySeq
    <3>3. CASE i # 1
      <4>1. i - 1 \in 1 .. Len(s)
        BY <1>1, <3>3
      <4>. QED BY <3>1, <3>3, <4>1
    <3>. QED BY <3>2, <3>3
  <2>3. part = Body(part)
    BY <2>2
  <2>4. flatten = Body(flatten)
    BY <2>3
  <2> HIDE DEF flatten
  <2>5. \A i \in 1 .. Len(s) : flatten[i] = IF i = 1 THEN s[i] ELSE flatten[i - 1] \o s[i]
    <3>1. \A i \in 1 .. Len(s) : flatten[i] = Body(flatten)[i]
      BY <2>4
    <3>. QED BY <3>1
  <2> DEFINE Agree == {m \in 0 .. Len(s) : m # 0 => flatten[m] = h[m]}
  <2>6. 0 \in Agree
    BY <1>1
  <2>7. ASSUME NEW m \in 0 .. Len(s), m + 1 <= Len(s), m \in Agree PROVE m + 1 \in Agree
    <3>1. m + 1 \in 1 .. Len(s) /\ (m + 1) - 1 = m
      BY <1>1, <2>7
    <3>2. flatten[m + 1] = IF m + 1 = 1 THEN s[m + 1] ELSE flatten[m] \o s[m + 1]
      BY <2>5, <3>1
    <3>3. h[m + 1] = IF m + 1 = 1 THEN s[m + 1] ELSE part[m] \o s[m + 1]
      BY <2>2, <3>1
    <3>4. m # 0 => part[m] = h[m]
      BY <1>1, <2>7
    <3>5. m # 0 => flatten[m] = h[m]
      BY <2>7
    <3> HIDE DEF part
    <3>6. flatten[m + 1] = h[m + 1]
      BY <2>7, <3>2, <3>3, <3>4, <3>5
    <3>. QED BY <2>7, <3>1, <3>6
  <2> HIDE DEF Agree
  <2>8. 0 .. Len(s) \subseteq Agree
    BY <1>1, <2>6, <2>7, BoundedInduction
  <2>9. Len(s) \in 0 .. Len(s)
    BY <1>1
  <2>. QED BY <1>3, <2>1, <2>8, <2>9 DEF Agree
<1> QED BY <1>2, <1>3

LEMMA FlattenIs ==
  ASSUME NEW T, NEW s \in Seq(Seq(T))
  PROVE  \E h \in [0 .. Len(s) -> Seq(T)] :
           Pieces(s, h, Len(s)) /\ FlattenSeq(s) = h[Len(s)] /\ FlattenSeq(s) \in Seq(T)
<1>1. PICK h \in [0 .. Len(s) -> Seq(T)] : Pieces(s, h, Len(s))
  BY PiecesExist
<1>2. Len(s) \in 0 .. Len(s)
  OBVIOUS
<1> QED BY <1>1, <1>2, FlattenSays

(* One more at the end. *)
LEMMA FlattenEnd ==
  ASSUME NEW T, NEW s \in Seq(Seq(T)), NEW t \in Seq(Seq(T)), Len(s) = Len(t) + 1,
         \A i \in 1 .. Len(t) : s[i] = t[i]
  PROVE  FlattenSeq(s) = FlattenSeq(t) \o s[Len(s)]
<1>1. PICK h \in [0 .. Len(s) -> Seq(T)] : Pieces(s, h, Len(s)) /\ FlattenSeq(s) = h[Len(s)]
  BY FlattenIs
<1>2. Len(t) \in Nat /\ Len(s) \in 1 .. Len(s) /\ Len(s) - 1 = Len(t)
  OBVIOUS
<1> DEFINE g == [i \in 0 .. Len(t) |-> h[i]]
<1>3. g \in [0 .. Len(t) -> Seq(T)] /\ \A i \in 0 .. Len(t) : g[i] = h[i]
  BY <1>2
<1> HIDE DEF g
<1>4. Pieces(t, g, Len(t))
  <2>1. ASSUME NEW i \in 1 .. Len(t) PROVE g[i] = g[i - 1] \o t[i]
    <3>1. i \in 0 .. Len(t) /\ i - 1 \in 0 .. Len(t) /\ i \in 1 .. Len(s)
      BY <1>2
    <3>2. h[i] = h[i - 1] \o s[i]
      BY <1>1, <3>1 DEF Pieces
    <3>. QED BY <1>3, <3>1, <3>2
  <2>2. g[0] = <<>>
    BY <1>1, <1>2, <1>3 DEF Pieces
  <2>. QED BY <2>1, <2>2 DEF Pieces
<1>5. FlattenSeq(t) = g[Len(t)] /\ g[Len(t)] = h[Len(t)]
  <2>1. Len(t) \in 0 .. Len(t)
    BY <1>2
  <2>. QED BY <1>3, <1>4, <2>1, FlattenSays
<1>6. h[Len(s)] = h[Len(s) - 1] \o s[Len(s)]
  BY <1>1, <1>2 DEF Pieces
<1> QED BY <1>1, <1>2, <1>5, <1>6

(* One more at the beginning. *)
LEMMA FlattenFront ==
  ASSUME NEW T, NEW s \in Seq(Seq(T)), NEW t \in Seq(Seq(T)), Len(s) = Len(t) + 1,
         \A i \in 1 .. Len(t) : s[i + 1] = t[i]
  PROVE  FlattenSeq(s) = s[1] \o FlattenSeq(t)
<1>1. PICK h : h \in [0 .. Len(s) -> Seq(T)] /\ Pieces(s, h, Len(s)) /\ FlattenSeq(s) = h[Len(s)]
  BY FlattenIs
<1>2. PICK g : g \in [0 .. Len(t) -> Seq(T)] /\ Pieces(t, g, Len(t)) /\ FlattenSeq(t) = g[Len(t)]
  BY FlattenIs
<1>3. /\ Len(t) \in Nat /\ Len(t) \in 0 .. Len(t) /\ s[1] \in Seq(T)
      /\ \A i \in 1 .. Len(t) : t[i] \in Seq(T)
  OBVIOUS
<1> DEFINE Fits == {m \in 0 .. Len(t) : h[m + 1] = s[1] \o g[m]}
<1>4. 0 \in Fits
  <2>1. h[1] = h[0] \o s[1] /\ h[0] = <<>> /\ g[0] = <<>>
    <3>1. 1 \in 1 .. Len(s) /\ 1 - 1 = 0
      BY <1>3
    <3>. QED BY <1>1, <1>2, <3>1 DEF Pieces
  <2>2. PICK p : p = s[1]
    OBVIOUS
  <2>3. p \o <<>> = p /\ <<>> \o p = p
    BY <1>3, <2>2, ConcatEmptySeq
  <2>4. h[1] = s[1] \o g[0]
    BY ONLY <2>1, <2>2, <2>3, Zenon
  <2>5. 0 + 1 = 1 /\ 0 \in 0 .. Len(t)
    BY <1>3
  <2>. QED BY ONLY <2>4, <2>5, Zenon
<1>5. ASSUME NEW m \in 0 .. Len(t), m + 1 <= Len(t), m \in Fits PROVE m + 1 \in Fits
  <2>1. /\ m + 1 \in 1 .. Len(t) /\ (m + 1) + 1 \in 1 .. Len(s)
        /\ ((m + 1) + 1) - 1 = m + 1 /\ (m + 1) - 1 = m
    BY <1>3, <1>5
  <2>2. h[(m + 1) + 1] = h[m + 1] \o s[(m + 1) + 1] /\ g[m + 1] = g[m] \o t[m + 1]
    BY <1>1, <1>2, <2>1 DEF Pieces
  <2>3. h[m + 1] = s[1] \o g[m] /\ s[(m + 1) + 1] = t[m + 1]
    BY <1>5, <2>1
  <2>4. PICK p, q, r, x, y, z : /\ p = s[1] /\ q = g[m] /\ r = t[m + 1]
                               /\ x = h[m + 1] /\ y = h[(m + 1) + 1] /\ z = g[m + 1]
    BY Zenon
  <2>5. p \in Seq(T) /\ q \in Seq(T) /\ r \in Seq(T)
    BY <1>2, <1>3, <2>1, <2>4
  <2>6. x = p \o q /\ y = x \o r /\ z = q \o r
    BY ONLY <2>2, <2>3, <2>4, Zenon
  <2>7. y = p \o z
    <3>1. (p \o q) \o r = p \o (q \o r)
      BY ONLY <2>5, ConcatAssociative
    <3>. QED BY ONLY <2>6, <3>1, Zenon
  <2>8. h[(m + 1) + 1] = s[1] \o g[m + 1]
    BY ONLY <2>4, <2>7, Zenon
  <2>9. m + 1 \in 0 .. Len(t)
    BY <1>3, <2>1
  <2>. QED BY ONLY <2>8, <2>9, Zenon
<1> HIDE DEF Fits
<1>6. 0 .. Len(t) \subseteq Fits
  BY <1>3, <1>4, <1>5, BoundedInduction
<1>7. h[Len(t) + 1] = s[1] \o g[Len(t)]
  BY <1>3, <1>6 DEF Fits
<1> QED BY <1>1, <1>2, <1>7

-----------------------------------------------------------------------------
(* The answers, token by token.                                            *)

LEMMA FrameIs ==
  ASSUME NEW j
  PROVE  /\ Frame("ok", j) = <<CR, LF, "O", "K", CR, LF>>
         /\ Frame("creg", j) = <<CR, LF, "+", "CREG:", Texts[j], CR, LF>>
         /\ Frame("prompt", j) = <<CR, LF, ">", Space>>
         /\ Frame("cmgr", j) = <<CR, LF, "+", "CMGR:", Texts[j], CR, LF, Texts[j], CR,
                                 LF, CR, LF, "O", "K", CR, LF>>
         /\ Frame("clcc", j) = <<CR, LF, "+", "CLCC:", Texts[j], CR, LF,
                                 "+", "CLCC:", Texts[j], CR, LF, CR, LF, "O", "K", CR, LF>>
         /\ Frame("cssi", j) = <<CR, LF, "+", "CSSI:", Texts[j]>>
         /\ Frame("cmgs", j) = <<CR, LF, CR, LF, "+", "CMGS:", Texts[j], CR, LF>>
BY DEF Frame

LEMMA LongIs ==
  ASSUME NEW j \in 1 .. MaxFrames
  PROVE  LET f == Frame("long", j)
         IN  /\ f \in Seq(Tokens) /\ Len(f) = Size + 6
             /\ f[1] = CR /\ f[2] = LF /\ f[3] = "+" /\ f[4] = "CUSD:"
             /\ \A i \in 1 .. Size : f[i + 4] = Texts[j]
             /\ f[Size + 5] = CR /\ f[Size + 6] = LF
<1> DEFINE text == [i \in 1 .. Size |-> Texts[j]]
           head == <<CR, LF, "+", "CUSD:">>
           tail == <<CR, LF>>
<1>1. Size \in Nat /\ Texts[j] \in Tokens
  BY SizeAssumption DEF Tokens
<1>2. text \in Seq(Tokens) /\ Len(text) = Size /\ \A i \in 1 .. Size : text[i] = Texts[j]
  BY <1>1
<1>3. head \in Seq(Tokens) /\ Len(head) = 4 /\ tail \in Seq(Tokens) /\ Len(tail) = 2
  BY DEF Tokens, Marks, CR, LF
<1>4. Frame("long", j) = (head \o text) \o tail
  BY Zenon DEF Frame, Break
<1>5. /\ head \o text \in Seq(Tokens) /\ Len(head \o text) = Size + 4
      /\ \A i \in 1 .. 4 : (head \o text)[i] = head[i]
      /\ \A i \in 1 .. Size : (head \o text)[i + 4] = Texts[j]
  BY <1>1, <1>2, <1>3
<1> DEFINE front == head \o text
<1>55. /\ front \in Seq(Tokens) /\ Len(front) = Size + 4
       /\ \A i \in 1 .. 4 : front[i] = head[i]
       /\ \A i \in 1 .. Size : front[i + 4] = Texts[j]
  BY <1>5
<1> HIDE DEF front
<1>6. /\ front \in Seq(Tokens) /\ Len(front) = Size + 4
      /\ front[1] = CR /\ front[2] = LF /\ front[3] = "+" /\ front[4] = "CUSD:"
      /\ \A i \in 1 .. Size : front[i + 4] = Texts[j]
  BY <1>55
<1>7. front \o tail \in Seq(Tokens) /\ Len(front \o tail) = Size + 6
  BY <1>1, <1>3, <1>6
<1>8. \A i \in 1 .. Size + 4 : (front \o tail)[i] = front[i]
  BY <1>1, <1>3, <1>6
<1>9. (front \o tail)[Size + 5] = CR /\ (front \o tail)[Size + 6] = LF
  BY <1>1, <1>3, <1>6
<1>10. Frame("long", j) = front \o tail
  BY <1>4 DEF front
<1> HIDE DEF tail
<1>11. 1 \in 1 .. Size + 4 /\ 2 \in 1 .. Size + 4 /\ 3 \in 1 .. Size + 4 /\ 4 \in 1 .. Size + 4
  BY <1>1
<1>12. \A i \in 1 .. Size : i + 4 \in 1 .. Size + 4
  BY <1>1
<1> QED BY <1>6, <1>7, <1>8, <1>9, <1>10, <1>11, <1>12

(* Sequences written out. *)
LEMMA Spelt ==
  ASSUME NEW T, NEW c \in T, NEW l \in T, NEW o \in T, NEW k \in T, NEW p \in T,
         NEW x \in T, NEW y \in T
  PROVE  /\ <<c, l, o, k, c, l>> \in Seq(T)
         /\ <<c, l, p, x, y, c, l>> \in Seq(T)
         /\ <<c, l, x, y>> \in Seq(T)
         /\ <<c, l, p, x, y, c, l, y, c, l, c, l, o, k, c, l>> \in Seq(T)
         /\ <<c, l, p, x, y, c, l, p, x, y, c, l, c, l, o, k, c, l>> \in Seq(T)
         /\ <<c, l, p, x, y>> \in Seq(T)
         /\ <<c, l, c, l, p, x, y, c, l>> \in Seq(T)
OBVIOUS

AllKinds == {"ok", "creg", "prompt", "cmgr", "clcc", "cssi", "cmgs", "long"}

LEMMA FrameType ==
  ASSUME NEW kind \in AllKinds, NEW j \in 1 .. MaxFrames
  PROVE  Frame(kind, j) \in Seq(Tokens)
<1>1. PICK text : text = Texts[j]
  OBVIOUS
<1>11. text \in Tokens /\ Marks \subseteq Tokens
  BY <1>1 DEF Tokens
<1>2. /\ CR \in Tokens /\ LF \in Tokens /\ "+" \in Tokens /\ ">" \in Tokens /\ Space \in Tokens
      /\ "O" \in Tokens /\ "K" \in Tokens /\ "CREG:" \in Tokens /\ "CMGR:" \in Tokens
      /\ "CLCC:" \in Tokens /\ "CSSI:" \in Tokens /\ "CMGS:" \in Tokens /\ "CUSD:" \in Tokens
  BY <1>11 DEF Marks
<1>3. CASE kind = "ok"
  <2>1. <<CR, LF, "O", "K", CR, LF>> \in Seq(Tokens)
    BY <1>11, <1>2, Spelt, Zenon
  <2>2. Frame(kind, j) = <<CR, LF, "O", "K", CR, LF>>
    BY ONLY <1>1, <1>3, FrameIs, Zenon
  <2>. QED BY ONLY <2>1, <2>2, Zenon
<1>4. CASE kind = "creg"
  <2>1. <<CR, LF, "+", "CREG:", text, CR, LF>> \in Seq(Tokens)
    BY <1>11, <1>2, Spelt, Zenon
  <2>2. Frame(kind, j) = <<CR, LF, "+", "CREG:", text, CR, LF>>
    BY ONLY <1>1, <1>4, FrameIs, Zenon
  <2>. QED BY ONLY <2>1, <2>2, Zenon
<1>5. CASE kind = "prompt"
  <2>1. <<CR, LF, ">", Space>> \in Seq(Tokens)
    BY <1>11, <1>2, Spelt, Zenon
  <2>2. Frame(kind, j) = <<CR, LF, ">", Space>>
    BY ONLY <1>1, <1>5, FrameIs, Zenon
  <2>. QED BY ONLY <2>1, <2>2, Zenon
<1>6. CASE kind = "cmgr"
  <2>1. <<CR, LF, "+", "CMGR:", text, CR, LF, text, CR, LF, CR, LF, "O", "K", CR, LF>>
          \in Seq(Tokens)
    BY <1>11, <1>2, Spelt, Zenon
  <2>2. Frame(kind, j)
          = <<CR, LF, "+", "CMGR:", text, CR, LF, text, CR, LF, CR, LF, "O", "K", CR, LF>>
    BY ONLY <1>1, <1>6, FrameIs, Zenon
  <2>. QED BY ONLY <2>1, <2>2, Zenon
<1>7. CASE kind = "clcc"
  <2>1. <<CR, LF, "+", "CLCC:", text, CR, LF,
            "+", "CLCC:", text, CR, LF, CR, LF, "O", "K", CR, LF>> \in Seq(Tokens)
    BY <1>11, <1>2, Spelt, Zenon
  <2>2. Frame(kind, j) = <<CR, LF, "+", "CLCC:", text, CR, LF,
            "+", "CLCC:", text, CR, LF, CR, LF, "O", "K", CR, LF>>
    BY ONLY <1>1, <1>7, FrameIs, Zenon
  <2>. QED BY ONLY <2>1, <2>2, Zenon
<1>8. CASE kind = "cssi"
  <2>1. <<CR, LF, "+", "CSSI:", text>> \in Seq(Tokens)
    BY <1>11, <1>2, Spelt, Zenon
  <2>2. Frame(kind, j) = <<CR, LF, "+", "CSSI:", text>>
    BY ONLY <1>1, <1>8, FrameIs, Zenon
  <2>. QED BY ONLY <2>1, <2>2, Zenon
<1>9. CASE kind = "cmgs"
  <2>1. <<CR, LF, CR, LF, "+", "CMGS:", text, CR, LF>> \in Seq(Tokens)
    BY <1>11, <1>2, Spelt, Zenon
  <2>2. Frame(kind, j) = <<CR, LF, CR, LF, "+", "CMGS:", text, CR, LF>>
    BY ONLY <1>1, <1>9, FrameIs, Zenon
  <2>. QED BY ONLY <2>1, <2>2, Zenon
<1>10. CASE kind = "long"
  BY <1>10, LongIs
<1> QED BY <1>3, <1>4, <1>5, <1>6, <1>7, <1>8, <1>9, <1>10 DEF AllKinds

-----------------------------------------------------------------------------
(* The stream: an answer the modem was giving before, which may have lost   *)
(* its beginning, and the answers of the model, one behind the other.       *)

Possible(fs) ==
  /\ fs \in Seq(Kinds) /\ Len(fs) <= MaxFrames
  /\ \A j \in DOMAIN fs : fs[j] = "long" => j = Len(fs)

LEMMA AnswerType ==
  ASSUME NEW fs, Possible(fs), NEW j \in 1 .. Len(fs)
  PROVE  fs[j] \in AllKinds /\ j \in 1 .. MaxFrames /\ Frame(fs[j], j) \in Seq(Tokens)
<1>1. fs[j] \in Kinds /\ j \in 1 .. MaxFrames
  BY BoundAssumption DEF Possible
<1>2. fs[j] \in AllKinds
  BY <1>1, KindsAssumption DEF AllKinds
<1> QED BY <1>1, <1>2, FrameType

(* What is sent from answer j on is answer j and what is sent behind it. *)
LEMMA SentStep ==
  ASSUME NEW fs, Possible(fs), NEW j \in 1 .. Len(fs)
  PROVE  /\ Sent(fs, j) \in Seq(Tokens) /\ Sent(fs, j + 1) \in Seq(Tokens)
         /\ Sent(fs, j) = Frame(fs[j], j) \o Sent(fs, j + 1)
<1> DEFINE n == Len(fs)
           F(i) == Frame(fs[i], i)
           s == [i \in 1 .. (n - j + 1) |-> F(i + j - 1)]
           t == [i \in 1 .. (n - (j + 1) + 1) |-> F(i + (j + 1) - 1)]
<1>1. n \in Nat /\ n <= MaxFrames /\ j <= n /\ 1 <= j
  BY DEF Possible
<1>2. \A i \in 1 .. n : F(i) \in Seq(Tokens)
  BY AnswerType
<1>3. Sent(fs, j) = FlattenSeq(s) /\ Sent(fs, j + 1) = FlattenSeq(t)
  BY Zenon DEF Sent
<1> HIDE DEF F
<1>4. s \in Seq(Seq(Tokens)) /\ Len(s) = n - j + 1
  <2>1. \A i \in 1 .. (n - j + 1) : i + j - 1 \in 1 .. n
    BY <1>1
  <2>. QED BY <1>1, <1>2, <2>1
<1>5. t \in Seq(Seq(Tokens)) /\ Len(t) = n - j
  <2>1. \A i \in 1 .. (n - (j + 1) + 1) : i + (j + 1) - 1 \in 1 .. n
    BY <1>1
  <2>. QED BY <1>1, <1>2, <2>1
<1>6. \A i \in 1 .. Len(t) : s[i + 1] = t[i]
  <2> SUFFICES ASSUME NEW i \in 1 .. Len(t) PROVE s[i + 1] = t[i]
    OBVIOUS
  <2>1. /\ i + 1 \in 1 .. (n - j + 1) /\ i \in 1 .. (n - (j + 1) + 1)
        /\ (i + 1) + j - 1 = i + (j + 1) - 1
    BY <1>1, <1>5
  <2>. QED BY <2>1
<1>7. s[1] = F(j)
  <2>1. 1 \in 1 .. (n - j + 1) /\ 1 + j - 1 = j
    BY <1>1
  <2>. QED BY <2>1
<1> HIDE DEF s, t
<1>8. Len(s) = Len(t) + 1
  BY <1>1, <1>4, <1>5
<1>9. FlattenSeq(s) = s[1] \o FlattenSeq(t)
  BY <1>4, <1>5, <1>6, <1>8, FlattenFront
<1>10. FlattenSeq(s) \in Seq(Tokens) /\ FlattenSeq(t) \in Seq(Tokens)
  BY <1>4, <1>5, FlattenIs
<1> QED BY ONLY <1>3, <1>7, <1>9, <1>10, Zenon DEF F

LEMMA SentEnd ==
  ASSUME NEW fs, Possible(fs)
  PROVE  Sent(fs, Len(fs) + 1) = <<>>
<1> DEFINE n == Len(fs)
           t == [i \in 1 .. (n - (n + 1) + 1) |-> Frame(fs[i + (n + 1) - 1], i + (n + 1) - 1)]
<1>1. n \in Nat
  BY DEF Possible
<1>2. Sent(fs, n + 1) = FlattenSeq(t)
  BY Zenon DEF Sent
<1>3. t = <<>>
  BY <1>1
<1>4. FlattenSeq(<<>>) = <<>>
  BY DEF FlattenSeq
<1> QED BY ONLY <1>2, <1>3, <1>4, Zenon

Kind(fs, k) == IF k = 0 THEN "cmgr" ELSE fs[k]
Number(k) == IF k = 0 THEN 1 ELSE k
Answer(fs, k) == Frame(Kind(fs, k), Number(k))
All(fs) == Frame("cmgr", 1) \o Sent(fs, 1)
Base(fs, k) == IF k = 0 THEN 0 ELSE Len(All(fs)) - Len(Sent(fs, k))

LEMMA AnyAnswer ==
  ASSUME NEW fs, Possible(fs), NEW k \in 0 .. Len(fs)
  PROVE  /\ Kind(fs, k) \in AllKinds /\ Number(k) \in 1 .. MaxFrames
         /\ Answer(fs, k) \in Seq(Tokens)
         /\ Kind(fs, k) = "long" => k = Len(fs)
<1>1. CASE k = 0
  <2>1. Kind(fs, k) = "cmgr" /\ Number(k) = 1 /\ 1 \in 1 .. MaxFrames
    BY <1>1, BoundAssumption DEF Kind, Number
  <2>2. "cmgr" \in AllKinds /\ "cmgr" # "long"
    BY DEF AllKinds
  <2>3. Answer(fs, k) \in Seq(Tokens)
    BY <2>1, <2>2, FrameType DEF Answer
  <2>. QED BY <2>1, <2>2, <2>3
<1>2. CASE k # 0
  <2>1. Kind(fs, k) = fs[k] /\ Number(k) = k /\ k \in 1 .. Len(fs)
    BY <1>2 DEF Kind, Number, Possible
  <2>2. fs[k] \in AllKinds /\ k \in 1 .. MaxFrames /\ Frame(fs[k], k) \in Seq(Tokens)
    BY <2>1, AnswerType
  <2>3. fs[k] = "long" => k = Len(fs)
    BY <2>1 DEF Possible
  <2>. QED BY <2>1, <2>2, <2>3, Zenon DEF Answer
<1> QED BY <1>1, <1>2

(* Each answer stands in the stream behind the one before it. *)
LEMMA Layout ==
  ASSUME NEW fs, Possible(fs)
  PROVE  /\ All(fs) \in Seq(Tokens) /\ Base(fs, 0) = 0 /\ Base(fs, Len(fs) + 1) = Len(All(fs))
         /\ \A k \in 0 .. Len(fs) : /\ Base(fs, k) \in Nat
                                    /\ Base(fs, k + 1) = Base(fs, k) + Len(Answer(fs, k))
                                    /\ \A i \in 1 .. Len(Answer(fs, k)) :
                                         All(fs)[Base(fs, k) + i] = Answer(fs, k)[i]
<1> DEFINE n == Len(fs)
           Stands(k, p) == /\ p \in Seq(Tokens) /\ Len(p) = Base(fs, k)
                           /\ All(fs) = p \o (Answer(fs, k) \o Sent(fs, k + 1))
           Standing == {k \in 0 .. n : \E p : Stands(k, p)}
<1>1. n \in Nat
  BY DEF Possible
<1>2. \A k \in 1 .. n : /\ Sent(fs, k) \in Seq(Tokens) /\ Sent(fs, k + 1) \in Seq(Tokens)
                        /\ Sent(fs, k) = Answer(fs, k) \o Sent(fs, k + 1)
  <2> SUFFICES ASSUME NEW k \in 1 .. n
               PROVE  /\ Sent(fs, k) \in Seq(Tokens) /\ Sent(fs, k + 1) \in Seq(Tokens)
                      /\ Sent(fs, k) = Answer(fs, k) \o Sent(fs, k + 1)
    OBVIOUS
  <2>1. Answer(fs, k) = Frame(fs[k], k)
    <3>1. k # 0
      BY <1>1
    <3>. QED BY <3>1, Zenon DEF Answer, Kind, Number
  <2>. QED BY ONLY <2>1, Possible(fs), k \in 1 .. n, SentStep, Zenon
<1>3. \A k \in 0 .. n : Sent(fs, k + 1) \in Seq(Tokens)
  <2> SUFFICES ASSUME NEW k \in 0 .. n PROVE Sent(fs, k + 1) \in Seq(Tokens)
    OBVIOUS
  <2>1. CASE k = n
    <3>1. Sent(fs, k + 1) = <<>>
      BY <2>1, SentEnd
    <3>2. <<>> \in Seq(Tokens)
      OBVIOUS
    <3>. QED BY ONLY <3>1, <3>2, Zenon
  <2>2. CASE k # n
    <3>1. k + 1 \in 1 .. n
      BY <1>1, <2>2
    <3>. QED BY <1>2, <3>1
  <2>. QED BY <2>1, <2>2
<1>4. \A k \in 0 .. n : Answer(fs, k) \in Seq(Tokens)
  BY AnyAnswer
<1>5. All(fs) = Answer(fs, 0) \o Sent(fs, 0 + 1)
  <2>1. Answer(fs, 0) = Frame("cmgr", 1)
    BY Zenon DEF Answer, Kind, Number
  <2>2. 0 + 1 = 1
    OBVIOUS
  <2>. QED BY ONLY <2>1, <2>2, Zenon DEF All
<1>6. All(fs) \in Seq(Tokens)
  <2>1. 0 \in 0 .. n
    BY <1>1
  <2>2. Answer(fs, 0) \in Seq(Tokens) /\ Sent(fs, 0 + 1) \in Seq(Tokens)
    BY <1>3, <1>4, <2>1
  <2>3. PICK a, b : a = Answer(fs, 0) /\ b = Sent(fs, 0 + 1)
    OBVIOUS
  <2>4. a \o b \in Seq(Tokens)
    BY ONLY <2>2, <2>3, ConcatProperties
  <2>. QED BY ONLY <1>5, <2>3, <2>4, Zenon
<1>7. 0 \in Standing
  <2>1. PICK q : q = Answer(fs, 0) \o Sent(fs, 0 + 1)
    OBVIOUS
  <2>2. <<>> \o q = q /\ Len(<<>>) = 0 /\ <<>> \in Seq(Tokens)
    <3>1. q \in Seq(Tokens)
      BY ONLY <1>5, <1>6, <2>1
    <3>. QED BY <3>1, ConcatEmptySeq
  <2>3. Base(fs, 0) = 0 /\ 0 \in 0 .. n
    BY <1>1 DEF Base
  <2>4. Stands(0, <<>>)
    BY ONLY <1>5, <2>1, <2>2, <2>3, Zenon
  <2> HIDE DEF Stands
  <2>. QED BY <2>3, <2>4
<1>8. ASSUME NEW k \in 0 .. n, k + 1 <= n, k \in Standing PROVE k + 1 \in Standing
  <2>1. PICK p : Stands(k, p)
    BY <1>8
  <2>2. PICK a, b, r, w : /\ a = Answer(fs, k) /\ b = Answer(fs, k + 1) /\ w = All(fs)
                          /\ r = Sent(fs, (k + 1) + 1)
    OBVIOUS
  <2>3. k + 1 \in 1 .. n /\ k + 1 \in 0 .. n
    BY <1>1, <1>8
  <2>4. a \in Seq(Tokens) /\ b \in Seq(Tokens) /\ r \in Seq(Tokens) /\ p \in Seq(Tokens)
    BY ONLY <1>3, <1>4, <2>1, <2>2, <2>3, k \in 0 .. n, Zenon
  <2>5. Sent(fs, k + 1) = b \o r /\ w = p \o (a \o (b \o r))
    BY ONLY <1>2, <2>1, <2>2, <2>3, Zenon
  <2>6. w = (p \o a) \o (b \o r) /\ p \o a \in Seq(Tokens)
    <3>1. b \o r \in Seq(Tokens) /\ p \o a \in Seq(Tokens)
      BY ONLY <2>4, ConcatProperties
    <3>2. PICK s : s = b \o r
      OBVIOUS
    <3>3. (p \o a) \o s = p \o (a \o s)
      <4>1. s \in Seq(Tokens)
        BY ONLY <3>1, <3>2
      <4>2. PICK tokens : tokens = Tokens
        OBVIOUS
      <4>3. p \in Seq(tokens) /\ a \in Seq(tokens) /\ s \in Seq(tokens)
        BY ONLY <2>4, <4>1, <4>2
      <4>. QED BY ONLY <4>3, ConcatAssociative
    <3>. QED BY ONLY <2>5, <3>1, <3>2, <3>3, Zenon
  <2>7. PICK q : q = p \o a
    OBVIOUS
  <2>8. Len(q) = Base(fs, k + 1)
    <3>1. PICK s : s = Sent(fs, k + 1)
      OBVIOUS
    <3>2. w = q \o s /\ s \in Seq(Tokens) /\ q \in Seq(Tokens)
      BY ONLY <1>3, <2>5, <2>6, <2>7, <3>1, k \in 0 .. n, Zenon
    <3>3. Len(w) = Len(q) + Len(s) /\ Len(q) \in Nat /\ Len(s) \in Nat
      BY ONLY <3>2, ConcatProperties, LenProperties
    <3>4. k + 1 # 0
      BY <2>3
    <3>. QED BY <2>2, <3>1, <3>3, <3>4 DEF Base
  <2>9. Stands(k + 1, q)
    BY ONLY <2>2, <2>6, <2>7, <2>8, Zenon
  <2> HIDE DEF Stands
  <2>. QED BY <2>3, <2>9
<1> HIDE DEF Standing
<1>9. 0 .. n \subseteq Standing
  BY <1>1, <1>7, <1>8, BoundedInduction
<1>10. Base(fs, 0) = 0
  BY DEF Base
<1>11. Base(fs, n + 1) = Len(All(fs))
  <2>1. Sent(fs, n + 1) = <<>> /\ n + 1 # 0 /\ Len(All(fs)) \in Nat
    BY <1>1, <1>6, SentEnd
  <2>. QED BY <2>1 DEF Base
<1>12. ASSUME NEW k \in 0 .. n
       PROVE  /\ Base(fs, k) \in Nat
              /\ Base(fs, k + 1) = Base(fs, k) + Len(Answer(fs, k))
              /\ \A i \in 1 .. Len(Answer(fs, k)) :
                   All(fs)[Base(fs, k) + i] = Answer(fs, k)[i]
  <2>1. PICK p : Stands(k, p)
    BY <1>9 DEF Standing
  <2>2. PICK a, s, w, r : /\ a = Answer(fs, k) /\ s = Sent(fs, k + 1) /\ w = All(fs)
                          /\ r = a \o s
    OBVIOUS
  <2>3. a \in Seq(Tokens) /\ s \in Seq(Tokens) /\ p \in Seq(Tokens)
    BY ONLY <1>3, <1>4, <2>1, <2>2, k \in 0 .. n, Zenon
  <2>4. w = p \o r
    BY ONLY <2>1, <2>2, Zenon
  <2>5. /\ r \in Seq(Tokens) /\ Len(r) = Len(a) + Len(s)
        /\ \A i \in 1 .. Len(a) : r[i] = a[i]
    BY <2>2, <2>3
  <2>6. Len(w) = Len(p) + Len(r) /\ \A i \in 1 .. Len(r) : w[Len(p) + i] = r[i]
    <3>1. r \in Seq(Tokens)
      BY <2>5
    <3>. QED BY ONLY <2>3, <2>4, <3>1
  <2>7. /\ Len(a) \in Nat /\ Len(s) \in Nat /\ Len(p) \in Nat /\ Len(w) \in Nat
        /\ Len(p) = Base(fs, k)
    BY ONLY <2>1, <2>3, <2>5, <2>6, LenProperties
  <2>8. Base(fs, k + 1) = Len(p) + Len(a)
    <3>1. k + 1 # 0
      BY <1>1
    <3>2. Base(fs, k + 1) = Len(w) - Len(s)
      BY <2>2, <3>1 DEF Base
    <3>. QED BY ONLY <2>5, <2>6, <2>7, <3>2
  <2>9. ASSUME NEW i \in 1 .. Len(a) PROVE w[Len(p) + i] = a[i]
    BY <2>5, <2>6, <2>7
  <2>10. \A i \in 1 .. Len(a) : w[Len(p) + i] = a[i]
    BY <2>9
  <2>. QED BY ONLY <2>2, <2>7, <2>8, <2>10
<1> QED BY <1>6, <1>10, <1>11, <1>12

-----------------------------------------------------------------------------
(* Where an answer of each kind, which begins at b and ends at e and has    *)
(* the text x, has its tokens in the stream w.                              *)

OkAt(w, b, e, x) ==
  /\ e = b + 6
  /\ w[b + 1] = CR /\ w[b + 2] = LF /\ w[b + 3] = "O" /\ w[b + 4] = "K"
  /\ w[b + 5] = CR /\ w[b + 6] = LF

CregAt(w, b, e, x) ==
  /\ e = b + 7
  /\ w[b + 1] = CR /\ w[b + 2] = LF /\ w[b + 3] = "+" /\ w[b + 4] = "CREG:"
  /\ w[b + 5] = x /\ w[b + 6] = CR /\ w[b + 7] = LF

PromptAt(w, b, e, x) ==
  /\ e = b + 4
  /\ w[b + 1] = CR /\ w[b + 2] = LF /\ w[b + 3] = ">" /\ w[b + 4] = Space

CmgrAt(w, b, e, x) ==
  /\ e = b + 16
  /\ w[b + 1] = CR /\ w[b + 2] = LF /\ w[b + 3] = "+" /\ w[b + 4] = "CMGR:"
  /\ w[b + 5] = x /\ w[b + 6] = CR /\ w[b + 7] = LF /\ w[b + 8] = x
  /\ w[b + 9] = CR /\ w[b + 10] = LF /\ w[b + 11] = CR /\ w[b + 12] = LF
  /\ w[b + 13] = "O" /\ w[b + 14] = "K" /\ w[b + 15] = CR /\ w[b + 16] = LF

ClccAt(w, b, e, x) ==
  /\ e = b + 18
  /\ w[b + 1] = CR /\ w[b + 2] = LF /\ w[b + 3] = "+" /\ w[b + 4] = "CLCC:"
  /\ w[b + 5] = x /\ w[b + 6] = CR /\ w[b + 7] = LF /\ w[b + 8] = "+"
  /\ w[b + 9] = "CLCC:" /\ w[b + 10] = x /\ w[b + 11] = CR /\ w[b + 12] = LF
  /\ w[b + 13] = CR /\ w[b + 14] = LF /\ w[b + 15] = "O" /\ w[b + 16] = "K"
  /\ w[b + 17] = CR /\ w[b + 18] = LF

CssiAt(w, b, e, x) ==
  /\ e = b + 5
  /\ w[b + 1] = CR /\ w[b + 2] = LF /\ w[b + 3] = "+" /\ w[b + 4] = "CSSI:"
  /\ w[b + 5] = x

CmgsAt(w, b, e, x) ==
  /\ e = b + 9
  /\ w[b + 1] = CR /\ w[b + 2] = LF /\ w[b + 3] = CR /\ w[b + 4] = LF
  /\ w[b + 5] = "+" /\ w[b + 6] = "CMGS:" /\ w[b + 7] = x /\ w[b + 8] = CR
  /\ w[b + 9] = LF

LongAt(w, b, e, x) ==
  /\ e = b + Size + 6
  /\ w[b + 1] = CR /\ w[b + 2] = LF /\ w[b + 3] = "+" /\ w[b + 4] = "CUSD:"
  /\ \A i \in 1 .. Size : w[b + 4 + i] = x
  /\ w[b + Size + 5] = CR /\ w[b + Size + 6] = LF

Laid(w, b, e, kind, x) ==
  /\ kind = "ok" => OkAt(w, b, e, x)
  /\ kind = "creg" => CregAt(w, b, e, x)
  /\ kind = "prompt" => PromptAt(w, b, e, x)
  /\ kind = "cmgr" => CmgrAt(w, b, e, x)
  /\ kind = "clcc" => ClccAt(w, b, e, x)
  /\ kind = "cssi" => CssiAt(w, b, e, x)
  /\ kind = "cmgs" => CmgsAt(w, b, e, x)
  /\ kind = "long" => LongAt(w, b, e, x)

LEMMA Lies ==
  ASSUME NEW fs, Possible(fs), NEW k \in 0 .. Len(fs)
  PROVE  /\ Base(fs, k) \in Nat
         /\ Laid(All(fs), Base(fs, k), Base(fs, k + 1), Kind(fs, k), Texts[Number(k)])
<1>1. PICK w, b, e, f, kind, j :
        /\ w = All(fs) /\ b = Base(fs, k) /\ e = Base(fs, k + 1)
        /\ f = Answer(fs, k) /\ kind = Kind(fs, k) /\ j = Number(k)
  BY Zenon
<1>2. b \in Nat /\ e = b + Len(f) /\ \A i \in 1 .. Len(f) : w[b + i] = f[i]
  BY <1>1, Layout
<1>3. f = Frame(kind, j)
  BY <1>1, Zenon DEF Answer
<1>4. kind \in AllKinds /\ j \in 1 .. MaxFrames
  BY <1>1, AnyAnswer
<1>5. PICK x : x = Texts[j]
  OBVIOUS
<1>6. ASSUME kind = "ok" PROVE OkAt(w, b, e, x)
  <2>1. f = <<CR, LF, "O", "K", CR, LF>>
    BY ONLY <1>3, <1>5, <1>6, FrameIs, Zenon
  <2>. QED BY ONLY <1>2, <2>1 DEF OkAt
<1>7. ASSUME kind = "creg" PROVE CregAt(w, b, e, x)
  <2>1. f = <<CR, LF, "+", "CREG:", x, CR, LF>>
    BY ONLY <1>3, <1>5, <1>7, FrameIs, Zenon
  <2>. QED BY ONLY <1>2, <2>1 DEF CregAt
<1>8. ASSUME kind = "prompt" PROVE PromptAt(w, b, e, x)
  <2>1. f = <<CR, LF, ">", Space>>
    BY ONLY <1>3, <1>5, <1>8, FrameIs, Zenon
  <2>2. Len(f) = 4 /\ f[1] = CR /\ f[2] = LF /\ f[3] = ">" /\ f[4] = Space
    BY ONLY <2>1
  <2>. QED BY ONLY <1>2, <2>2 DEF PromptAt
<1>9. ASSUME kind = "cmgr" PROVE CmgrAt(w, b, e, x)
  <2>1. f = <<CR, LF, "+", "CMGR:", x, CR, LF, x, CR, LF, CR, LF, "O",
              "K", CR, LF>>
    BY ONLY <1>3, <1>5, <1>9, FrameIs, Zenon
  <2>2. /\ Len(f) = 16
        /\ f[1] = CR /\ f[2] = LF /\ f[3] = "+" /\ f[4] = "CMGR:" /\ f[5] = x
        /\ f[6] = CR /\ f[7] = LF /\ f[8] = x /\ f[9] = CR /\ f[10] = LF
        /\ f[11] = CR /\ f[12] = LF /\ f[13] = "O" /\ f[14] = "K" /\ f[15] = CR
        /\ f[16] = LF
    BY ONLY <2>1
  <2>. QED BY ONLY <1>2, <2>2 DEF CmgrAt
<1>10. ASSUME kind = "clcc" PROVE ClccAt(w, b, e, x)
  <2>1. f = <<CR, LF, "+", "CLCC:", x, CR, LF, "+", "CLCC:", x, CR, LF,
              CR, LF, "O", "K", CR, LF>>
    BY ONLY <1>3, <1>5, <1>10, FrameIs, Zenon
  <2>2. /\ Len(f) = 18
        /\ f[1] = CR /\ f[2] = LF /\ f[3] = "+" /\ f[4] = "CLCC:" /\ f[5] = x
        /\ f[6] = CR /\ f[7] = LF /\ f[8] = "+" /\ f[9] = "CLCC:" /\ f[10] = x
        /\ f[11] = CR /\ f[12] = LF /\ f[13] = CR /\ f[14] = LF /\ f[15] = "O"
        /\ f[16] = "K" /\ f[17] = CR /\ f[18] = LF
    BY ONLY <2>1
  <2>. QED BY ONLY <1>2, <2>2 DEF ClccAt
<1>11. ASSUME kind = "cssi" PROVE CssiAt(w, b, e, x)
  <2>1. f = <<CR, LF, "+", "CSSI:", x>>
    BY ONLY <1>3, <1>5, <1>11, FrameIs, Zenon
  <2>. QED BY ONLY <1>2, <2>1 DEF CssiAt
<1>12. ASSUME kind = "cmgs" PROVE CmgsAt(w, b, e, x)
  <2>1. f = <<CR, LF, CR, LF, "+", "CMGS:", x, CR, LF>>
    BY ONLY <1>3, <1>5, <1>12, FrameIs, Zenon
  <2>. QED BY ONLY <1>2, <2>1 DEF CmgsAt
<1>13. ASSUME kind = "long" PROVE LongAt(w, b, e, x)
  <2>1. /\ Len(f) = Size + 6 /\ f[1] = CR /\ f[2] = LF /\ f[3] = "+" /\ f[4] = "CUSD:"
        /\ \A i \in 1 .. Size : f[i + 4] = x
        /\ f[Size + 5] = CR /\ f[Size + 6] = LF
    BY <1>3, <1>4, <1>5, <1>13, LongIs
  <2>2. Size \in Nat
    BY SizeAssumption
  <2>3. \A i \in 1 .. Size : w[b + 4 + i] = x
    <3> SUFFICES ASSUME NEW i \in 1 .. Size PROVE w[b + 4 + i] = x
      OBVIOUS
    <3>1. i + 4 \in 1 .. Len(f) /\ b + 4 + i = b + (i + 4)
      BY <1>2, <2>1, <2>2
    <3>. QED BY <1>2, <2>1, <3>1
  <2>4. \A i \in {1, 2, 3, 4, Size + 5, Size + 6} : i \in 1 .. Len(f)
    BY <2>1, <2>2
  <2>5. b + Size + 5 = b + (Size + 5) /\ b + Size + 6 = b + (Size + 6)
    BY <1>2, <2>2
  <2>. QED BY ONLY <1>2, <2>1, <2>2, <2>3, <2>4, <2>5 DEF LongAt
<1>14. Laid(w, b, e, kind, x)
  BY <1>6, <1>7, <1>8, <1>9, <1>10, <1>11, <1>12, <1>13, Zenon DEF Laid
<1> QED BY ONLY <1>1, <1>2, <1>5, <1>14, Zenon

(* An answer has a token at least, and those of one begin behind those of   *)
(* the answers before it.                                                  *)
LEMMA Grows ==
  ASSUME NEW fs, Possible(fs), NEW k \in 0 .. Len(fs)
  PROVE  Base(fs, k) \in Nat /\ Base(fs, k + 1) \in Nat /\ Base(fs, k) + 4 <= Base(fs, k + 1)
<1>1. PICK w, b, e, x, kind : /\ w = All(fs) /\ b = Base(fs, k) /\ e = Base(fs, k + 1)
                              /\ kind = Kind(fs, k) /\ x = Texts[Number(k)]
  BY Zenon
<1>2. b \in Nat /\ Laid(w, b, e, kind, x) /\ kind \in AllKinds
  BY ONLY <1>1, Possible(fs), k \in 0 .. Len(fs), Lies, AnyAnswer, Zenon
<1>3. Size \in Nat
  BY SizeAssumption
<1>4. e \in Nat /\ b + 4 <= e
  BY ONLY <1>2, <1>3
     DEF AllKinds, Laid, OkAt, CregAt, PromptAt, CmgrAt, ClccAt, CssiAt, CmgsAt, LongAt
<1> QED BY <1>1, <1>2, <1>4

LEMMA Ordered ==
  ASSUME NEW fs, Possible(fs), NEW k \in 0 .. (Len(fs) + 1), NEW m \in 0 .. (Len(fs) + 1), k <= m
  PROVE  Base(fs, k) \in Nat /\ Base(fs, m) \in Nat /\ Base(fs, k) <= Base(fs, m)
<1> DEFINE n == Len(fs)
           Behind == {i \in 0 .. (n + 1) : /\ Base(fs, i) \in Nat
                                           /\ k <= i => /\ Base(fs, k) \in Nat
                                                        /\ Base(fs, k) <= Base(fs, i)}
<1>1. n \in Nat
  BY DEF Possible
<1>2. \A i \in 0 .. n : /\ Base(fs, i) \in Nat /\ Base(fs, i + 1) \in Nat
                        /\ Base(fs, i) + 4 <= Base(fs, i + 1)
  BY Grows
<1>3. 0 \in Behind
  <2>1. 0 \in 0 .. n /\ (k <= 0 => k = 0)
    BY <1>1
  <2>2. Base(fs, 0) \in Nat
    BY <1>2, <2>1
  <2>. QED BY <1>1, <2>1, <2>2
<1>4. ASSUME NEW i \in 0 .. (n + 1), i + 1 <= n + 1, i \in Behind PROVE i + 1 \in Behind
  <2>1. i \in 0 .. n /\ i + 1 \in 0 .. (n + 1) /\ (k <= i + 1 => k <= i \/ k = i + 1)
    BY <1>1, <1>4
  <2>2. PICK a, b, c : a = Base(fs, k) /\ b = Base(fs, i) /\ c = Base(fs, i + 1)
    OBVIOUS
  <2>3. b \in Nat /\ c \in Nat /\ b + 4 <= c
    BY <1>2, <2>1, <2>2
  <2>4. k <= i => a \in Nat /\ a <= b
    BY <1>4, <2>2
  <2>5. k <= i => a <= c
    BY <2>3, <2>4
  <2>6. k = i + 1 => a = c
    BY <2>2
  <2>7. k <= i + 1 => a \in Nat /\ a <= c
    BY <2>1, <2>3, <2>4, <2>5, <2>6
  <2>. QED BY <2>1, <2>2, <2>3, <2>7
<1> HIDE DEF Behind
<1>5. n + 1 \in Nat
  BY <1>1
<1>6. 0 .. (n + 1) \subseteq Behind
  BY <1>3, <1>4, <1>5, BoundedInduction
<1> QED BY <1>6 DEF Behind

(* Every token belongs to an answer. *)
LEMMA Located ==
  ASSUME NEW fs, Possible(fs), NEW c \in Nat, c < Len(All(fs))
  PROVE  \E k \in 0 .. Len(fs) : Base(fs, k) <= c /\ c < Base(fs, k + 1)
<1> DEFINE n == Len(fs)
           Behind == {i \in 0 .. (n + 1) : c < Base(fs, i)}
<1>1. n \in Nat /\ Base(fs, 0) = 0 /\ Base(fs, n + 1) = Len(All(fs))
  <2>1. n \in Nat
    BY DEF Possible
  <2>. QED BY <2>1, Layout
<1>2. n + 1 \in Behind
  BY <1>1
<1>3. PICK i \in Behind : \A m \in Behind : i <= m
  <2>1. Behind \subseteq Nat /\ Behind # {}
    BY <1>2
  <2> HIDE DEF Behind
  <2>. QED BY <2>1, LeastNumber
<1>4. i # 0
  BY <1>1
<1>5. i - 1 \in 0 .. n /\ (i - 1) + 1 = i
  BY <1>1, <1>4
<1>6. ~(c < Base(fs, i - 1))
  BY <1>1, <1>3, <1>5
<1>7. Base(fs, i - 1) \in Nat
  BY <1>5, Layout
<1>8. Base(fs, i - 1) <= c /\ c < Base(fs, (i - 1) + 1)
  BY <1>3, <1>5, <1>6, <1>7
<1> QED BY <1>5, <1>8

-----------------------------------------------------------------------------
(* The ring buffer: what its operations do to the bytes it shows.           *)

Ring(r) == r \in RingBuffer /\ Wrap(r.read + r.used) = Wrap(r.write)
View(r, i) == r.buf[Wrap(r.read + i)]

LEMMA RingParts ==
  ASSUME NEW r, Ring(r)
  PROVE  /\ Size \in Nat /\ Size >= 16 /\ r.used \in 0 .. Size /\ r.read \in 0 .. (Size - 1)
         /\ r.write \in 0 .. Size /\ r.buf \in [0 .. (Size - 1) -> Tokens]
         /\ Wrap(r.read + r.used) = Wrap(r.write)
BY SizeAssumption DEF Ring, RingBuffer

(* Arithmetic around the end of the buffer: it reads at p and writes at w,  *)
(* has u bytes and l come behind them.                                     *)
Around(p, u, w, l) ==
  /\ \A i \in 0 .. (Size - 1) : Wrap(i + Size - Wrap(w)) \in 0 .. (Size - 1)
  /\ Wrap(p + (u + l)) = Wrap(IF w + l > Size THEN w + l - Size ELSE w + l)
  /\ \A i \in 0 .. (u - 1) : /\ Wrap(p + i) \in 0 .. (Size - 1)
                            /\ ~(Wrap(Wrap(p + i) + Size - Wrap(w)) < l)
  /\ \A i \in 0 .. (l - 1) : /\ Wrap(p + (u + i)) \in 0 .. (Size - 1)
                            /\ Wrap(Wrap(p + (u + i)) + Size - Wrap(w)) = i

LEMMA Wrapping ==
  ASSUME NEW p \in 0 .. (Size - 1), NEW u \in 0 .. Size, NEW w \in 0 .. Size,
         Wrap(p + u) = Wrap(w), NEW l \in 0 .. (Size - u)
  PROVE  Around(p, u, w, l)
<1>1. Size \in Nat /\ Size >= 16
  BY SizeAssumption
<1>2. PICK v : v = Wrap(w)
  OBVIOUS
<1>3. v \in 0 .. (Size - 1) /\ (p + u = v \/ p + u = v + Size)
  BY <1>1, <1>2 DEF Wrap
<1>4. w = v \/ (w = Size /\ v = 0)
  BY <1>1, <1>2 DEF Wrap
<1>5. \A i \in 0 .. (Size - 1) : Wrap(i + Size - v) \in 0 .. (Size - 1)
  BY <1>1, <1>3 DEF Wrap
<1>6. Wrap(p + (u + l)) = Wrap(IF w + l > Size THEN w + l - Size ELSE w + l)
  BY <1>1, <1>3, <1>4 DEF Wrap
<1>7. ASSUME NEW i \in 0 .. (u - 1)
      PROVE  Wrap(p + i) \in 0 .. (Size - 1) /\ ~(Wrap(Wrap(p + i) + Size - v) < l)
  BY <1>1, <1>3 DEF Wrap
<1>8. ASSUME NEW i \in 0 .. (l - 1)
      PROVE  /\ Wrap(p + (u + i)) \in 0 .. (Size - 1)
             /\ Wrap(Wrap(p + (u + i)) + Size - v) = i
  BY <1>1, <1>3 DEF Wrap
<1> QED BY <1>2, <1>5, <1>6, <1>7, <1>8 DEF Around

(* What is written comes behind what was there. *)
LEMMA WriteView ==
  ASSUME NEW r, Ring(r), NEW bytes \in Seq(Tokens), Len(bytes) <= Size - r.used
  PROVE  LET q == rb_write(r, bytes)
         IN  /\ Ring(q) /\ q.used = r.used + Len(bytes)
             /\ \A i \in 0 .. (r.used - 1) : View(q, i) = View(r, i)
             /\ \A i \in 0 .. (Len(bytes) - 1) : View(q, r.used + i) = bytes[i + 1]
<1>1. /\ Size \in Nat /\ Size >= 16 /\ r.used \in 0 .. Size /\ r.read \in 0 .. (Size - 1)
      /\ r.write \in 0 .. Size /\ r.buf \in [0 .. (Size - 1) -> Tokens]
      /\ Wrap(r.read + r.used) = Wrap(r.write)
  BY RingParts
<1>2. PICK p, u, w, l, f : /\ p = r.read /\ u = r.used /\ w = r.write /\ l = Len(bytes)
                           /\ f = r.buf
  BY Zenon
<1>3. /\ p \in 0 .. (Size - 1) /\ u \in 0 .. Size /\ w \in 0 .. Size /\ l \in 0 .. (Size - u)
      /\ Wrap(p + u) = Wrap(w) /\ f \in [0 .. (Size - 1) -> Tokens]
      /\ \A i \in 1 .. l : bytes[i] \in Tokens
  BY <1>1, <1>2
<1> DEFINE From(i) == Wrap(i + Size - Wrap(w))
           buf == [i \in 0 .. (Size - 1) |->
                     IF From(i) < l THEN bytes[From(i) + 1] ELSE f[i]]
           end == IF w + l > Size THEN w + l - Size ELSE w + l
           q == [buf |-> buf, used |-> u + l, read |-> p, write |-> end]
<1>4. /\ \A i \in 0 .. (Size - 1) : From(i) \in 0 .. (Size - 1)
      /\ Wrap(p + (u + l)) = Wrap(end)
      /\ \A i \in 0 .. (u - 1) : Wrap(p + i) \in 0 .. (Size - 1) /\ ~(From(Wrap(p + i)) < l)
      /\ \A i \in 0 .. (l - 1) : /\ Wrap(p + (u + i)) \in 0 .. (Size - 1)
                                /\ From(Wrap(p + (u + i))) = i
  <2>1. Around(p, u, w, l)
    BY <1>3, Wrapping
  <2>. QED BY ONLY <2>1, Zenon DEF Around
<1>5. rb_write(r, bytes) = q
  <2> DEFINE e == rb_write(r, bytes)
  <2>1. r \in [buf : {r.buf}, used : {r.used}, read : {r.read}, write : {r.write}]
    BY DEF Ring, RingBuffer
  <2>2. /\ e.used = u + l /\ e.read = p /\ e.buf = buf /\ e.write = end
        /\ e \in [buf : {e.buf}, used : {e.used}, read : {e.read}, write : {e.write}]
    <3> DEFINE s == r.write + Len(bytes)
    <3>1. /\ e.used = r.used + Len(bytes) /\ e.read = r.read
          /\ e.write = (IF s > Size THEN s - Size ELSE s)
          /\ e \in [buf : {e.buf}, used : {e.used}, read : {e.read}, write : {e.write}]
      BY <2>1 DEF rb_write
    <3> DEFINE g == [i \in 0 .. (Size - 1) |->
                       IF Wrap(i + Size - Wrap(r.write)) < Len(bytes)
                       THEN bytes[Wrap(i + Size - Wrap(r.write)) + 1] ELSE r.buf[i]]
    <3>2. e.buf = g
      <4>1. e = [r EXCEPT !.used = @ + Len(bytes), !.write = IF s > Size THEN s - Size ELSE s,
                          !.buf = g]
        BY Zenon DEF rb_write
      <4> HIDE DEF e, g, s
      <4>2. \A x, y : e = [r EXCEPT !.used = x, !.write = y, !.buf = g] => e.buf = g
        BY ONLY <2>1
      <4>. QED BY <4>1, <4>2
    <3>3. g = buf
      BY ONLY <1>2, Zenon
    <3>4. e.buf = buf
      BY ONLY <3>2, <3>3, Zenon
    <3>5. e.write = end
      <4>1. (IF s > Size THEN s - Size ELSE s) = end
        <5>1. s = w + l
          BY <1>2
        <5> HIDE DEF s
        <5>. QED BY ONLY <1>1, <1>3, <5>1
      <4>. QED BY ONLY <3>1, <4>1, Zenon
    <3>6. e.used = u + l /\ e.read = p
      BY ONLY <1>2, <3>1, Zenon
    <3>. QED BY ONLY <3>1, <3>4, <3>5, <3>6, Zenon
  <2> HIDE DEF e, buf, end
  <2>3. e = q
    BY <2>2
  <2>. QED BY <2>3 DEF e
<1> HIDE DEF From
<1>6. buf \in [0 .. (Size - 1) -> Tokens]
  <2> SUFFICES ASSUME NEW i \in 0 .. (Size - 1)
               PROVE  (IF From(i) < l THEN bytes[From(i) + 1] ELSE f[i]) \in Tokens
    OBVIOUS
  <2>1. From(i) \in 0 .. (Size - 1)
    BY <1>4
  <2>. QED BY ONLY <1>1, <1>3, <2>1, i \in 0 .. (Size - 1)
<1>7. end \in 0 .. Size /\ u + l \in 0 .. Size
  BY <1>1, <1>3
<1>8. Ring(q)
  <2> HIDE DEF buf, end
  <2>. QED BY <1>1, <1>3, <1>4, <1>6, <1>7 DEF Ring, RingBuffer
<1>9. ASSUME NEW i \in 0 .. (u - 1) PROVE View(q, i) = View(r, i)
  <2>1. PICK o : o = Wrap(p + i)
    OBVIOUS
  <2>2. buf[o] = f[o]
    BY <1>4, <2>1
  <2> HIDE DEF buf
  <2>. QED BY <1>2, <2>1, <2>2 DEF View
<1>10. ASSUME NEW i \in 0 .. (l - 1) PROVE View(q, u + i) = bytes[i + 1]
  <2>1. PICK o : o = Wrap(p + (u + i))
    OBVIOUS
  <2>2. o \in 0 .. (Size - 1) /\ From(o) = i /\ i < l
    BY <1>3, <1>4, <2>1
  <2>3. buf[o] = bytes[i + 1]
    BY <2>2
  <2> HIDE DEF buf
  <2>. QED BY <2>1, <2>3 DEF View
<1>11. q.used = u + l
  OBVIOUS
<1> HIDE DEF q
<1> QED BY <1>2, <1>5, <1>8, <1>9, <1>10, <1>11

(* What is read makes room, and what was behind it is first. *)
LEMMA ReadView ==
  ASSUME NEW r, Ring(r), NEW n \in Nat, n <= r.used
  PROVE  LET q == rb_read_upd(r, n)
         IN  /\ Ring(q) /\ q.used = r.used - n
             /\ \A i \in 0 .. (r.used - n - 1) : View(q, i) = View(r, n + i)
<1> DEFINE q == rb_read_upd(r, n)
<1>1. /\ Size \in Nat /\ Size >= 16 /\ r.used \in 0 .. Size /\ r.read \in 0 .. (Size - 1)
      /\ r.write \in 0 .. Size /\ r.buf \in [0 .. (Size - 1) -> Tokens]
      /\ Wrap(r.read + r.used) = Wrap(r.write)
  BY RingParts
<1>2. r \in [buf : {r.buf}, used : {r.used}, read : {r.read}, write : {r.write}]
  BY DEF Ring, RingBuffer
<1>3. CASE n = r.used
  <2> DEFINE e == [buf |-> r.buf, used |-> 0, read |-> 0, write |-> 0]
  <2>1. q = e
    BY <1>1, <1>2, <1>3 DEF rb_read_upd
  <2>2. Wrap(0 + 0) = Wrap(0)
    OBVIOUS
  <2>3. Ring(e) /\ e.used = 0
    BY <1>1, <2>2 DEF Ring, RingBuffer
  <2> HIDE DEF e, q
  <2>4. \A i \in 0 .. (r.used - n - 1) : View(q, i) = View(r, n + i)
    BY <1>1, <1>3
  <2>. QED BY <1>1, <1>3, <2>1, <2>3, <2>4 DEF q
<1>4. CASE n # r.used
  <2>1. PICK p, u, w, f : /\ p = r.read /\ u = r.used /\ w = r.write /\ f = r.buf
                          /\ r = [buf |-> f, used |-> u, read |-> p, write |-> w]
    BY <1>2
  <2>2. /\ p \in 0 .. (Size - 1) /\ u \in 0 .. Size /\ w \in 0 .. Size /\ n \in 0 .. (u - 1)
        /\ Wrap(p + u) = Wrap(w) /\ f \in [0 .. (Size - 1) -> Tokens]
    BY <1>1, <1>4, <2>1
  <2> DEFINE e == [buf |-> f, used |-> u - n, read |-> Wrap(p + n), write |-> w]
  <2>3. q = e
    <3>1. /\ q.used = u - n /\ q.read = Wrap(p + n) /\ q.write = w /\ q.buf = f
          /\ q \in [buf : {q.buf}, used : {q.used}, read : {q.read}, write : {q.write}]
      <4>1. ~(r.used < n) /\ n # r.used
        BY <1>1, <1>4
      <4>2. q = [r EXCEPT !.used = @ - n, !.read = Wrap(@ + n)]
        BY ONLY <4>1, Zenon DEF rb_read_upd
      <4> HIDE DEF q
      <4>3. /\ q.used = r.used - n /\ q.read = Wrap(r.read + n) /\ q.write = r.write
            /\ q.buf = r.buf
            /\ q \in [buf : {q.buf}, used : {q.used}, read : {q.read}, write : {q.write}]
        BY <1>2, <4>2
      <4>. QED BY ONLY <2>1, <4>3, Zenon
    <3> HIDE DEF q
    <3>. QED BY <3>1
  <2>4. /\ Wrap(p + n) \in 0 .. (Size - 1) /\ Wrap(Wrap(p + n) + (u - n)) = Wrap(w)
    <3>1. Wrap(p + n) \in 0 .. (Size - 1)
      BY <1>1, <2>2 DEF Wrap
    <3>2. Wrap(Wrap(p + n) + (u - n)) = Wrap(p + u)
      <4>1. PICK v : v = Wrap(p + n)
        OBVIOUS
      <4>2. v \in 0 .. (Size - 1) /\ (v = p + n \/ v + Size = p + n)
        BY <1>1, <2>2, <4>1 DEF Wrap
      <4>3. p + n < Size => v = p + n
        BY <1>1, <2>2, <4>1 DEF Wrap
      <4>4. Wrap(v + (u - n)) = Wrap(p + u)
        BY <1>1, <2>2, <4>2, <4>3 DEF Wrap
      <4>. QED BY <4>1, <4>4
    <3>. QED BY <2>2, <3>1, <3>2
  <2>5. u - n \in 0 .. Size
    BY <1>1, <2>2
  <2>6. Ring(e) /\ e.used = u - n
    BY <2>2, <2>4, <2>5 DEF Ring, RingBuffer
  <2>7. ASSUME NEW i \in 0 .. (u - n - 1) PROVE View(e, i) = View(r, n + i)
    <3>1. Wrap(Wrap(p + n) + i) = Wrap(p + (n + i))
      BY <1>1, <2>2 DEF Wrap
    <3>. QED BY <2>1, <3>1 DEF View
  <2> HIDE DEF e, q
  <2>. QED BY <2>1, <2>3, <2>6, <2>7 DEF q
<1> QED BY <1>3, <1>4

(* rb_read_until_mem_iov gives the first place in the buffer where it finds *)
(* mem, also where the buffer wraps.                                       *)
LEMMA Searched ==
  ASSUME Ring(rb), NEW mem, mem \in Seq(Tokens), Len(mem) >= 1
  PROVE  LET p == rb_read_until_mem_iov(mem)
         IN  /\ p = -1 \/ (/\ p \in 0 .. (rb.used - Len(mem))
                           /\ \A i \in 1 .. Len(mem) : At(p + i - 1) = mem[i])
             /\ \A o \in 0 .. (rb.used - Len(mem)) :
                  (\A i \in 1 .. Len(mem) : At(o + i - 1) = mem[i]) => 0 <= p /\ p <= o
<1> DEFINE len == Len(mem)
           before == 0 .. (Upper - len)
           across == {Upper - (len - i) : i \in {k \in 1 .. (len - 1) :
                        k >= len - Upper /\ Upper + k <= rb.used}}
           after == Upper .. (rb.used - len)
           hits == CASE rb.used = 0 \/ rb.used < len -> {}
                     [] ~Wrapped -> Matches(mem, 0 .. (rb.used - len))
                     [] OTHER -> Matches(mem, before \cup across \cup after)
           p == IF hits = {} THEN -1 ELSE Min(hits)
<1>1. /\ Size \in Nat /\ rb.used \in 0 .. Size /\ rb.read \in 0 .. (Size - 1)
      /\ len \in Nat /\ len >= 1 /\ DOMAIN mem = 1 .. len
  BY RingParts
<1>2. rb_read_until_mem_iov(mem) = p
  BY Zenon DEF rb_read_until_mem_iov
<1> HIDE DEF len
<1>3. hits = Matches(mem, 0 .. (rb.used - len))
  <2>1. CASE rb.used < len
    <3>1. 0 .. (rb.used - len) = {}
      BY <1>1, <2>1
    <3>2. Matches(mem, 0 .. (rb.used - len)) = {}
      BY <3>1 DEF Matches
    <3>. QED BY <2>1, <3>2
  <2>2. CASE ~(rb.used < len) /\ ~Wrapped
    <3>1. rb.used # 0
      BY <1>1, <2>2
    <3>. QED BY <2>2, <3>1
  <2>3. CASE ~(rb.used < len) /\ Wrapped
    <3>1. rb.used # 0
      BY <1>1, <2>3
    <3>2. hits = Matches(mem, before \cup across \cup after)
      BY <2>3, <3>1
    <3>3. before \cup across \cup after = 0 .. (rb.used - len)
      <4>1. Upper \in 1 .. Size /\ Upper < rb.used
        BY <1>1, <2>3 DEF Upper, Wrapped
      <4> PICK u : u = Upper
        OBVIOUS
      <4>2. u \in 1 .. Size /\ u < rb.used
        BY <4>1
      <4>3. ASSUME NEW o, o \in before \cup across \cup after PROVE o \in 0 .. (rb.used - len)
        BY <1>1, <2>3, <4>2, <4>3
      <4>4. ASSUME NEW o \in 0 .. (rb.used - len), o \notin before, o \notin after
            PROVE  o \in across
        <5>1. o < u /\ o > u - len
          BY <1>1, <4>2, <4>4
        <5>2. /\ o + len - u \in 1 .. (len - 1) /\ o + len - u >= len - u
              /\ u + (o + len - u) <= rb.used
          BY <1>1, <4>2, <4>4, <5>1
        <5>3. o = u - (len - (o + len - u))
          BY <1>1, <4>2
        <5>. QED BY <5>2, <5>3
      <4>. QED BY <4>3, <4>4
    <3>. QED BY <3>2, <3>3
  <2>. QED BY <2>1, <2>2, <2>3
<1> HIDE DEF hits, before, across, after
<1>4. \A o : o \in hits <=> /\ o \in 0 .. (rb.used - len)
                            /\ \A i \in 1 .. len : At(o + i - 1) = mem[i]
  BY ONLY <1>1, <1>3, Zenon DEF Matches
<1>5. CASE hits = {}
  <2>1. p = -1
    BY <1>5
  <2>. QED BY <1>2, <1>4, <1>5, <2>1 DEF len
<1>6. CASE hits # {}
  <2>1. p = Min(hits)
    BY <1>6
  <2>2. hits \subseteq Nat
    BY <1>4
  <2>3. p \in hits /\ \A o \in hits : p <= o
    BY ONLY <1>6, <2>1, <2>2, LeastNumber DEF Min
  <2> HIDE DEF p
  <2>4. 0 <= p /\ p \in 0 .. (rb.used - len)
    BY <1>4, <2>2, <2>3
  <2>. QED BY <1>2, <1>4, <2>3, <2>4 DEF len
<1> QED BY <1>5, <1>6

-----------------------------------------------------------------------------
(* The buffer shows a piece of the stream: Here is the place of its first  *)
(* byte and Got that of the first byte behind it.                          *)

Got == Len(All(frames)) - Len(rest)
Here == Got - rb.used

Stream ==
  /\ Possible(frames) /\ rest \in Seq(Tokens) /\ Len(rest) <= Len(All(frames))
  /\ \A i \in 1 .. Len(rest) : rest[i] = All(frames)[Got + i]
  /\ Ring(rb) /\ rb.used <= Got
  /\ \A i \in 0 .. (rb.used - 1) : At(i) = All(frames)[Here + i + 1]

LEMMA StreamParts ==
  ASSUME Stream
  PROVE  /\ Size \in Nat /\ Size >= 16 /\ Len(All(frames)) \in Nat /\ Len(rest) \in Nat
         /\ All(frames) \in Seq(Tokens)
         /\ Got \in Nat /\ Got <= Len(All(frames)) /\ Len(rest) = Len(All(frames)) - Got
         /\ rb.used \in 0 .. Size /\ Here \in Nat /\ Got = Here + rb.used
         /\ Possible(frames) /\ Ring(rb)
         /\ \A i \in 0 .. (rb.used - 1) : At(i) = All(frames)[Here + i + 1]
<1>1. Possible(frames) /\ Ring(rb) /\ Len(rest) \in Nat
  BY DEF Stream
<1>2. All(frames) \in Seq(Tokens)
  BY <1>1, Layout
<1>3. Len(All(frames)) \in Nat
  BY <1>2
<1>4. rb.used \in 0 .. Size /\ Size \in Nat /\ Size >= 16
  BY <1>1, RingParts
<1>5. /\ Len(rest) <= Len(All(frames)) /\ rb.used <= Got
      /\ \A i \in 0 .. (rb.used - 1) : At(i) = All(frames)[Here + i + 1]
  BY DEF Stream
<1>6. PICK t, s, u : t = Len(All(frames)) /\ s = Len(rest) /\ u = rb.used
  BY Zenon
<1>7. Got = t - s /\ Here = Got - u
  BY <1>6, Zenon DEF Got, Here
<1>8. t \in Nat /\ s \in Nat /\ s <= t /\ u \in Nat /\ u <= Got
  BY <1>1, <1>3, <1>4, <1>5, <1>6
<1>9. Got \in Nat /\ Got <= t /\ s = t - Got /\ Here \in Nat /\ Got = Here + u
  BY ONLY <1>7, <1>8
<1> QED BY ONLY <1>1, <1>2, <1>3, <1>4, <1>5, <1>6, <1>9, Zenon

(* Bytes leave the buffer, the stream stays. *)
LEMMA StreamSkips ==
  ASSUME Stream, NEW m \in 0 .. rb.used, frames' = frames, rest' = rest,
         rb' = rb_read_upd(rb, m) \/ (m = 0 /\ rb' = rb)
  PROVE  Stream' /\ rb.used' = rb.used - m /\ Here' = Here + m /\ Got' = Got
<1>1. PICK w, t : w = All(frames) /\ t = Len(All(frames))
  BY Zenon
<1>2. All(frames)' = w /\ Len(All(frames))' = t
  BY ONLY <1>1, frames' = frames, Zenon DEF All, Sent
<1>3. Got' = Got
  BY ONLY <1>1, <1>2, rest' = rest, Zenon DEF Got
<1>4. Ring(rb) /\ rb.used \in 0 .. Size /\ Size \in Nat /\ Got \in Nat /\ Got = Here + rb.used
      /\ Here \in Nat
  BY StreamParts
<1>5. /\ Ring(rb') /\ rb'.used = rb.used - m
      /\ \A i \in 0 .. (rb.used - m - 1) : View(rb', i) = View(rb, m + i)
  <2>1. CASE rb' = rb_read_upd(rb, m)
    <3>1. m \in Nat /\ m <= rb.used
      BY <1>4
    <3>2. LET q == rb_read_upd(rb, m)
          IN  /\ Ring(q) /\ q.used = rb.used - m
              /\ \A i \in 0 .. (rb.used - m - 1) : View(q, i) = View(rb, m + i)
      BY ONLY <1>4, <3>1, ReadView, Zenon
    <3>. QED BY ONLY <2>1, <3>2, Zenon
  <2>2. CASE m = 0 /\ rb' = rb
    BY <1>4, <2>2
  <2>. QED BY <2>1, <2>2
<1>6. Here' = Here + m
  <2>1. Here' = Got' - rb'.used
    BY Zenon DEF Here
  <2>. QED BY <1>3, <1>4, <1>5, <2>1
<1>7. \A i \in 0 .. (rb'.used - 1) : At(i)' = w[Here' + i + 1]
  <2> SUFFICES ASSUME NEW i \in 0 .. (rb'.used - 1) PROVE At(i)' = w[Here' + i + 1]
    OBVIOUS
  <2>1. i \in 0 .. (rb.used - m - 1) /\ m + i \in 0 .. (rb.used - 1)
    BY <1>4, <1>5
  <2>2. At(i)' = View(rb', i) /\ At(m + i) = View(rb, m + i)
    BY Zenon DEF At, View
  <2>3. At(m + i) = w[Here + (m + i) + 1]
    BY <1>1, <2>1, StreamParts
  <2>4. Here + (m + i) + 1 = Here' + i + 1
    BY <1>4, <1>6, <2>1
  <2>. QED BY <1>5, <2>1, <2>2, <2>3, <2>4
<1>8. rb'.used <= Got'
  BY <1>3, <1>4, <1>5
<1>9. /\ Possible(frames)' /\ rest' \in Seq(Tokens) /\ Len(rest') <= t
      /\ \A i \in 1 .. Len(rest') : rest'[i] = w[Got' + i]
  BY ONLY <1>1, <1>3, frames' = frames, rest' = rest, Stream, Zenon DEF Stream, Possible
<1>10. Stream'
  BY ONLY <1>1, <1>2, <1>5, <1>7, <1>8, <1>9, Zenon DEF Stream, Ring, RingBuffer, Wrap
<1> QED BY ONLY <1>3, <1>5, <1>6, <1>10, Zenon

(* The port gives bytes. *)
LEMMA StreamReads ==
  ASSUME Stream, NEW n \in 1 .. rb_free, n <= Len(rest), frames' = frames,
         rb' = rb_write(rb, SubSeq(rest, 1, n)), rest' = SubSeq(rest, n + 1, Len(rest))
  PROVE  /\ Stream' /\ rb.used' = rb.used + n /\ Here' = Here /\ Got' = Got + n
         /\ Len(rest') = Len(rest) - n
<1>1. PICK w, t, s, u : /\ w = All(frames) /\ t = Len(All(frames)) /\ s = Len(rest)
                        /\ u = rb.used
  BY Zenon
<1>2. All(frames)' = w /\ Len(All(frames))' = t
  BY ONLY <1>1, frames' = frames, Zenon DEF All, Sent
<1>3. /\ Ring(rb) /\ u \in 0 .. Size /\ Size \in Nat /\ Got \in Nat /\ Got = Here + u
      /\ Here \in Nat /\ t \in Nat /\ s \in Nat /\ s = t - Got
      /\ \A i \in 0 .. (u - 1) : At(i) = w[Here + i + 1]
  BY ONLY <1>1, StreamParts, Stream, Zenon
<1>4. n \in 1 .. (Size - u) /\ n <= s
  BY <1>1 DEF rb_free
<1>5. rest \in Seq(Tokens) /\ \A i \in 1 .. s : rest[i] = w[Got + i]
  BY <1>1 DEF Stream
<1>6. PICK bytes, left : bytes = SubSeq(rest, 1, n) /\ left = SubSeq(rest, n + 1, s)
  OBVIOUS
<1>7. bytes \in Seq(Tokens) /\ Len(bytes) = n /\ \A i \in 1 .. n : bytes[i] = rest[i]
  <2>1. rest \in Seq(Tokens) /\ n \in Nat /\ 1 <= n /\ n <= Len(rest)
    BY <1>1, <1>4, <1>5
  <2>. QED BY ONLY <1>6, <2>1
<1>8. left \in Seq(Tokens) /\ Len(left) = s - n /\ \A i \in 1 .. (s - n) : left[i] = rest[n + i]
  <2>1. rest \in Seq(Tokens) /\ n \in Nat /\ 1 <= n /\ n <= Len(rest)
    BY <1>1, <1>4, <1>5
  <2>. QED BY ONLY <1>1, <1>6, <2>1
<1>9. /\ Ring(rb') /\ rb'.used = u + n
      /\ \A i \in 0 .. (u - 1) : View(rb', i) = View(rb, i)
      /\ \A i \in 0 .. (n - 1) : View(rb', u + i) = bytes[i + 1]
  <2>1. Len(bytes) <= Size - rb.used
    BY <1>1, <1>3, <1>4, <1>7
  <2>2. rb' = rb_write(rb, bytes)
    BY <1>6
  <2>3. LET q == rb_write(rb, bytes)
        IN  /\ Ring(q) /\ q.used = rb.used + Len(bytes)
            /\ \A i \in 0 .. (rb.used - 1) : View(q, i) = View(rb, i)
            /\ \A i \in 0 .. (Len(bytes) - 1) : View(q, rb.used + i) = bytes[i + 1]
    BY ONLY <1>3, <1>7, <2>1, WriteView, Zenon
  <2>. QED BY ONLY <1>1, <1>7, <2>2, <2>3, Zenon
<1>10. rest' = left /\ Len(rest') = s - n
  BY <1>1, <1>6, <1>8
<1>11. Got' = Got + n
  <2>1. Got' = Len(All(frames))' - Len(rest')
    BY Zenon DEF Got
  <2>. QED BY <1>2, <1>3, <1>4, <1>10, <2>1
<1>12. Here' = Here
  <2>1. Here' = Got' - rb'.used
    BY Zenon DEF Here
  <2>. QED BY <1>3, <1>4, <1>9, <1>11, <2>1
<1>13. ASSUME NEW i \in 0 .. (rb'.used - 1) PROVE At(i)' = w[Here' + i + 1]
  <2>1. At(i)' = View(rb', i) /\ At(i) = View(rb, i)
    BY Zenon DEF At, View
  <2>2. CASE i \in 0 .. (u - 1)
    BY <1>3, <1>9, <1>12, <2>1, <2>2
  <2>3. CASE i \notin 0 .. (u - 1)
    <3>1. PICK j : j = i - u
      OBVIOUS
    <3>2. j \in 0 .. (n - 1) /\ i = u + j /\ j + 1 \in 1 .. n
      BY <1>3, <1>4, <1>9, <2>3, <3>1
    <3>3. View(rb', i) = rest[j + 1]
      BY <1>7, <1>9, <3>2
    <3>4. rest[j + 1] = w[Got + (j + 1)]
      BY <1>3, <1>4, <1>5, <3>2
    <3>5. Got + (j + 1) = Here' + i + 1
      BY <1>3, <1>12, <3>2
    <3>. QED BY ONLY <2>1, <3>3, <3>4, <3>5, Zenon
  <2>. QED BY <2>2, <2>3
<1>14. ASSUME NEW i \in 1 .. Len(rest') PROVE rest'[i] = w[Got' + i]
  <2>1. n + i \in 1 .. s /\ i \in 1 .. (s - n) /\ Got + (n + i) = Got' + i
    BY <1>3, <1>4, <1>10, <1>11
  <2>2. left[i] = rest[n + i] /\ rest[n + i] = w[Got + (n + i)]
    BY <1>5, <1>8, <2>1
  <2>. QED BY ONLY <1>10, <2>1, <2>2, Zenon
<1>15. Stream'
  <2>1. rb'.used <= Got' /\ Len(rest') <= t
    BY <1>3, <1>4, <1>9, <1>10, <1>11
  <2>2. Possible(frames)' /\ rest' \in Seq(Tokens)
    BY ONLY <1>8, <1>10, frames' = frames, Stream, Zenon DEF Stream, Possible
  <2>. QED BY ONLY <1>2, <1>9, <1>13, <1>14, <2>1, <2>2, Zenon
           DEF Stream, Ring, RingBuffer, Wrap
<1> QED BY ONLY <1>1, <1>9, <1>10, <1>11, <1>12, <1>15, Zenon

-----------------------------------------------------------------------------
(* One turn of the parser, told of the stream w: the buffer shows u bytes  *)
(* from place c on, m of them are taken, r and r2 are read_result before    *)
(* and after it, p2 is where the thread goes, and the first l - 1 bytes are *)
(* given to at_response unless l is 0.                                     *)

Pair(w, c, u, a, b) == u >= 2 /\ w[c + 1] = a /\ w[c + 2] = b
BreakAt(w, c, u, o) == o + 2 <= u /\ w[c + o + 1] = CR /\ w[c + o + 2] = LF
OkLineAt(w, c, u, o) ==
  /\ o + 7 <= u
  /\ w[c + o + 1] = LF /\ w[c + o + 2] = CR /\ w[c + o + 3] = LF /\ w[c + o + 4] = "O"
  /\ w[c + o + 5] = "K" /\ w[c + o + 6] = CR /\ w[c + o + 7] = LF
DoubledAt(w, c, u) ==
  /\ u >= 4 /\ w[c + 1] = CR /\ w[c + 2] = LF /\ w[c + 3] = "+"
  /\ w[c + 4] \in {"CSSU:", "CMS ERROR:", "CMGS:"}
ListingAt(w, c, u) ==
  u >= 2 /\ w[c + 1] = "+" /\ w[c + 2] \in {"CMGR:", "CNUM:", "CLCC:"}

TurnBefore(w, c, u, m, r2, p2, l) ==
  /\ l = 0
  /\ \/ Pair(w, c, u, CR, LF) /\ m = 2 /\ r2 = 1 /\ p2 = "parse"
     \/ u < 2 /\ m = 0 /\ r2 = 0 /\ p2 = "wait"
     \/ /\ u >= 2 /\ ~Pair(w, c, u, CR, LF) /\ w[c + 1] = LF
        /\ m = 1 /\ r2 = 0 /\ p2 = "parse"
     \/ /\ u >= 2 /\ ~Pair(w, c, u, CR, LF) /\ w[c + 1] # LF /\ r2 = 0 /\ p2 = "parse"
        /\ m \in 1 .. u /\ (w[c + m] = CR \/ m = u)
        /\ \A q \in 1 .. (m - 1) : w[c + q] # CR

TurnCssi(w, c, u, m, r2, p2, l) ==
  /\ Pair(w, c, u, "+", "CSSI:")
  /\ \/ u >= 3 /\ m = 3 /\ r2 = 0 /\ p2 = "parse" /\ l = 3
     \/ u < 3 /\ m = 0 /\ r2 = 1 /\ p2 = "wait" /\ l = 0

TurnLines(w, c, u, m, r2, p2, l) ==
  /\ ListingAt(w, c, u)
  /\ \/ /\ r2 = 0 /\ p2 = "parse" /\ l \in 1 .. u /\ OkLineAt(w, c, u, l)
        /\ \A q \in 0 .. (l - 1) : ~OkLineAt(w, c, u, q)
        /\ m = IF w[c + 2] = "CMGR:" THEN l + 7 ELSE l + 1
     \/ /\ m = 0 /\ r2 = 1 /\ p2 = "wait" /\ l = 0
        /\ \A q \in 0 .. u : ~OkLineAt(w, c, u, q)

TurnLine(w, c, u, m, r2, p2, l) ==
  /\ ~Pair(w, c, u, "+", "CSSI:") /\ ~DoubledAt(w, c, u)
  /\ ~Pair(w, c, u, ">", Space) /\ ~ListingAt(w, c, u)
  /\ \/ /\ r2 = 0 /\ p2 = "parse" /\ l \in 1 .. u /\ m = l + 1 /\ BreakAt(w, c, u, l - 1)
        /\ \A q \in 0 .. (l - 2) : ~BreakAt(w, c, u, q)
     \/ /\ m = 0 /\ r2 = 1 /\ p2 = "wait" /\ l = 0
        /\ \A q \in 0 .. u : ~BreakAt(w, c, u, q)

TurnIn(w, c, u, m, r2, p2, l) ==
  \/ TurnCssi(w, c, u, m, r2, p2, l)
  \/ DoubledAt(w, c, u) /\ m = 2 /\ r2 = 1 /\ p2 = "parse" /\ l = 0
  \/ Pair(w, c, u, ">", Space) /\ m = 2 /\ r2 = 0 /\ p2 = "parse" /\ l = 2
  \/ TurnLines(w, c, u, m, r2, p2, l)
  \/ TurnLine(w, c, u, m, r2, p2, l)

Turn(w, c, u, r, m, r2, p2, l) ==
  /\ u >= 1 /\ m \in 0 .. u
  /\ \/ r = 0 /\ TurnBefore(w, c, u, m, r2, p2, l)
     \/ r = 1 /\ TurnIn(w, c, u, m, r2, p2, l)

(* the thread waits for the port with these bytes in the buffer             *)
Awaits(w, c, u, r) == Turn(w, c, u, r, 0, r, "wait", 0)

(* What the comparisons of the parser say of the bytes in the buffer. *)
LEMMA SameOne ==
  ASSUME rb.used \in Nat, NEW a
  PROVE  Same(<<a>>) <=> rb.used >= 1 /\ At(0) = a
BY DEF Same, rb_memcmp

LEMMA SameTwo ==
  ASSUME rb.used \in Nat, NEW a, NEW b
  PROVE  /\ Same(<<a, b>>) <=> rb.used >= 2 /\ At(0) = a /\ At(1) = b
         /\ rb_memcmp(<<a, b>>) < 0 <=> rb.used < 2
         /\ rb_memcmp(<<a, b>>) > 0 <=> rb.used >= 2 /\ ~(At(0) = a /\ At(1) = b)
<1> DEFINE mem == <<a, b>>
<1>1. Len(mem) = 2 /\ DOMAIN mem = 1 .. 2 /\ mem[1] = a /\ mem[2] = b
  OBVIOUS
<1> HIDE DEF mem
<1>2. (\A i \in DOMAIN mem : At(i - 1) = mem[i]) <=> At(0) = a /\ At(1) = b
  <2>1. \A i : i \in DOMAIN mem <=> i = 1 \/ i = 2
    BY <1>1
  <2>2. 1 - 1 = 0 /\ 2 - 1 = 1
    OBVIOUS
  <2>. QED BY ONLY <1>1, <2>1, <2>2, Zenon
<1>3. rb_memcmp(mem) = IF rb.used > 0 /\ rb.used >= 2
                       THEN IF At(0) = a /\ At(1) = b THEN 0 ELSE 1 ELSE -1
  BY <1>1, <1>2 DEF rb_memcmp
<1>4. /\ rb_memcmp(mem) = 0 <=> rb.used >= 2 /\ At(0) = a /\ At(1) = b
      /\ rb_memcmp(mem) < 0 <=> rb.used < 2
      /\ rb_memcmp(mem) > 0 <=> rb.used >= 2 /\ ~(At(0) = a /\ At(1) = b)
  BY <1>3
<1> QED BY ONLY <1>4, Zenon DEF mem, Same

LEMMA SameFour ==
  ASSUME rb.used \in Nat, NEW a, NEW b, NEW c, NEW d
  PROVE  Same(<<a, b, c, d>>)
           <=> rb.used >= 4 /\ At(0) = a /\ At(1) = b /\ At(2) = c /\ At(3) = d
<1> DEFINE mem == <<a, b, c, d>>
<1>1. /\ Len(mem) = 4 /\ DOMAIN mem = 1 .. 4
      /\ mem[1] = a /\ mem[2] = b /\ mem[3] = c /\ mem[4] = d
  OBVIOUS
<1> HIDE DEF mem
<1>2. (\A i \in DOMAIN mem : At(i - 1) = mem[i])
        <=> At(0) = a /\ At(1) = b /\ At(2) = c /\ At(3) = d
  <2>1. \A i : i \in DOMAIN mem <=> i = 1 \/ i = 2 \/ i = 3 \/ i = 4
    BY <1>1
  <2>2. 1 - 1 = 0 /\ 2 - 1 = 1 /\ 3 - 1 = 2 /\ 4 - 1 = 3
    OBVIOUS
  <2>. QED BY ONLY <1>1, <2>1, <2>2, Zenon
<1>3. rb_memcmp(mem) = 0 <=> /\ rb.used > 0 /\ rb.used >= 4
                             /\ At(0) = a /\ At(1) = b /\ At(2) = c /\ At(3) = d
  BY <1>1, <1>2 DEF rb_memcmp
<1>4. rb_memcmp(mem) = 0 <=> rb.used >= 4 /\ At(0) = a /\ At(1) = b /\ At(2) = c /\ At(3) = d
  BY <1>3
<1> QED BY ONLY <1>4, Zenon DEF mem, Same

(* What its searches find. *)
LEMMA InTokens ==
  <<CR>> \in Seq(Tokens) /\ Break \in Seq(Tokens) /\ OkLine \in Seq(Tokens)
<1>1. CR \in Tokens /\ LF \in Tokens /\ "O" \in Tokens /\ "K" \in Tokens
  BY DEF Tokens, Marks
<1>2. ASSUME NEW T, NEW a \in T, NEW b \in T, NEW o \in T, NEW k \in T
      PROVE  /\ <<a>> \in Seq(T) /\ <<a, b>> \in Seq(T)
             /\ <<b, a, b, o, k, a, b>> \in Seq(T)
  OBVIOUS
<1> QED BY ONLY <1>1, <1>2, Zenon DEF Break, OkLine

LEMMA SearchCR ==
  ASSUME Stream
  PROVE  LET p == rb_read_until_mem_iov(<<CR>>)
             w == All(frames)
         IN  \/ p = -1 /\ \A q \in 1 .. rb.used : w[Here + q] # CR
             \/ /\ p \in 0 .. (rb.used - 1) /\ w[Here + (p + 1)] = CR
                /\ \A q \in 1 .. p : w[Here + q] # CR
<1>1. PICK mem : mem = <<CR>>
  OBVIOUS
<1>2. mem \in Seq(Tokens) /\ Len(mem) = 1 /\ mem[1] = CR
  BY <1>1, InTokens
<1>3. PICK p, w, c, u : /\ p = rb_read_until_mem_iov(mem) /\ w = All(frames) /\ c = Here
                        /\ u = rb.used
  BY Zenon
<1>4. u \in Nat /\ c \in Nat /\ \A i \in 0 .. (u - 1) : At(i) = w[c + i + 1]
  BY <1>3, StreamParts
<1>5. /\ p = -1 \/ (p \in 0 .. (u - 1) /\ \A i \in 1 .. 1 : At(p + i - 1) = mem[i])
      /\ \A o \in 0 .. (u - 1) : (\A i \in 1 .. 1 : At(o + i - 1) = mem[i]) => 0 <= p /\ p <= o
  <2>1. Ring(rb) /\ Len(mem) >= 1
    BY <1>2, StreamParts
  <2>. QED BY ONLY <1>2, <1>3, <2>1, Searched, Zenon
<1>6. ASSUME NEW o \in 0 .. (u - 1)
      PROVE  (\A i \in 1 .. 1 : At(o + i - 1) = mem[i]) <=> w[c + (o + 1)] = CR
  <2>1. \A i \in 1 .. 1 : i = 1 /\ o + i - 1 = o
    OBVIOUS
  <2>2. At(o) = w[c + (o + 1)] /\ 1 \in 1 .. 1
    BY <1>4
  <2>. QED BY ONLY <1>2, <2>1, <2>2, Zenon
<1>7. \/ p = -1 /\ \A q \in 1 .. u : w[c + q] # CR
      \/ /\ p \in 0 .. (u - 1) /\ w[c + (p + 1)] = CR
         /\ \A q \in 1 .. p : w[c + q] # CR
  <2>1. ASSUME NEW q \in 1 .. u, w[c + q] = CR PROVE 0 <= p /\ p <= q - 1
    <3>1. PICK o : o = q - 1
      OBVIOUS
    <3>2. o \in 0 .. (u - 1) /\ o + 1 = q
      BY <1>4, <3>1
    <3>3. \A i \in 1 .. 1 : At(o + i - 1) = mem[i]
      BY ONLY <1>6, <2>1, <3>2
    <3>. QED BY ONLY <1>5, <3>1, <3>2, <3>3
  <2>2. p # -1 => p \in 0 .. (u - 1) /\ w[c + (p + 1)] = CR
    BY ONLY <1>5, <1>6, Zenon
  <2>. QED BY ONLY <1>4, <2>1, <2>2, <1>5
<1> QED BY ONLY <1>1, <1>3, <1>7, Zenon

LEMMA SearchBreak ==
  ASSUME Stream
  PROVE  LET p == rb_read_until_mem_iov(Break)
             w == All(frames)
         IN  \/ p = -1 /\ \A q \in 0 .. rb.used : ~BreakAt(w, Here, rb.used, q)
             \/ /\ p \in 0 .. (rb.used - 2) /\ BreakAt(w, Here, rb.used, p)
                /\ \A q \in 0 .. (p - 1) : ~BreakAt(w, Here, rb.used, q)
<1>1. PICK mem : mem = Break
  OBVIOUS
<1>2. /\ mem \in Seq(Tokens) /\ Len(mem) = 2
      /\ mem[1] = CR /\ mem[2] = LF
  <2>1. mem = <<CR, LF>>
    BY <1>1 DEF Break
  <2>2. mem \in Seq(Tokens)
    BY ONLY <1>1, InTokens, Zenon
  <2>. QED BY ONLY <2>1, <2>2
<1>3. PICK p, w, c, u : /\ p = rb_read_until_mem_iov(mem) /\ w = All(frames) /\ c = Here
                        /\ u = rb.used
  BY Zenon
<1>4. u \in Nat /\ c \in Nat /\ \A i \in 0 .. (u - 1) : At(i) = w[c + i + 1]
  BY <1>3, StreamParts
<1>5. /\ p = -1 \/ (p \in 0 .. (u - 2) /\ \A i \in 1 .. 2 : At(p + i - 1) = mem[i])
      /\ \A o \in 0 .. (u - 2) :
           (\A i \in 1 .. 2 : At(o + i - 1) = mem[i]) => 0 <= p /\ p <= o
  <2>1. Ring(rb) /\ Len(mem) >= 1
    BY <1>2, StreamParts
  <2>. QED BY ONLY <1>2, <1>3, <2>1, Searched, Zenon
<1>6. ASSUME NEW o \in 0 .. (u - 2)
      PROVE  (\A i \in 1 .. 2 : At(o + i - 1) = mem[i]) <=> BreakAt(w, c, u, o)
  <2>1. (\A i \in 1 .. 2 : At(o + i - 1) = mem[i])
          <=> At(o + 1 - 1) = mem[1] /\ At(o + 2 - 1) = mem[2]
    <3>1. \A i : i \in 1 .. 2 <=> i = 1 \/ i = 2
      OBVIOUS
    <3>. QED BY ONLY <3>1, Zenon
  <2>2. o + 1 - 1 = o + 0 /\ o + 2 - 1 = o + 1
    OBVIOUS
  <2>3. \A i \in 0 .. 1 : o + i \in 0 .. (u - 1) /\ At(o + i) = w[c + (o + i) + 1]
    BY <1>4
  <2>4. /\ o + 2 <= u
        /\ \A i \in 0 .. 1 : c + (o + i) + 1 = c + o + (i + 1)
    BY <1>4
  <2>5. \A i \in 0 .. 1 : At(o + i) = w[c + o + (i + 1)]
    BY ONLY <2>3, <2>4, Zenon
  <2>6. At(o + 0) = w[c + o + 1] /\ At(o + 1) = w[c + o + 2]
    BY ONLY <2>5
  <2>. QED BY ONLY <1>2, <2>1, <2>2, <2>4, <2>6, Zenon DEF BreakAt
<1>7. \/ p = -1 /\ \A q \in 0 .. u : ~BreakAt(w, c, u, q)
      \/ /\ p \in 0 .. (u - 2) /\ BreakAt(w, c, u, p)
         /\ \A q \in 0 .. (p - 1) : ~BreakAt(w, c, u, q)
  <2>1. ASSUME NEW q \in Nat, BreakAt(w, c, u, q) PROVE 0 <= p /\ p <= q
    <3>1. q \in 0 .. (u - 2)
      BY <1>4, <2>1 DEF BreakAt
    <3>2. \A i \in 1 .. 2 : At(q + i - 1) = mem[i]
      BY ONLY <1>6, <2>1, <3>1, Zenon
    <3>. QED BY ONLY <1>5, <3>1, <3>2, Zenon
  <2>2. p # -1 => p \in 0 .. (u - 2) /\ BreakAt(w, c, u, p)
    BY ONLY <1>5, <1>6, Zenon
  <2>3. p = -1 => \A q \in 0 .. u : ~BreakAt(w, c, u, q)
    <3>1. \A q \in 0 .. u : q \in Nat
      BY <1>4
    <3>2. ~(0 <= -1)
      OBVIOUS
    <3>. QED BY ONLY <2>1, <3>1, <3>2, Zenon
  <2>4. p # -1 => \A q \in 0 .. (p - 1) : ~BreakAt(w, c, u, q)
    <3> SUFFICES ASSUME p # -1, NEW q \in 0 .. (p - 1), BreakAt(w, c, u, q) PROVE FALSE
      OBVIOUS
    <3>1. p \in 0 .. (u - 2) /\ q \in Nat /\ ~(p <= q)
      BY <1>4, <2>2
    <3>. QED BY ONLY <2>1, <3>1, BreakAt(w, c, u, q), Zenon
  <2>. QED BY ONLY <2>2, <2>3, <2>4, Zenon
<1> QED BY ONLY <1>1, <1>3, <1>7, Zenon

LEMMA SearchOk ==
  ASSUME Stream
  PROVE  LET p == rb_read_until_mem_iov(OkLine)
             w == All(frames)
         IN  \/ p = -1 /\ \A q \in 0 .. rb.used : ~OkLineAt(w, Here, rb.used, q)
             \/ /\ p \in 0 .. (rb.used - 7) /\ OkLineAt(w, Here, rb.used, p)
                /\ \A q \in 0 .. (p - 1) : ~OkLineAt(w, Here, rb.used, q)
<1>1. PICK mem : mem = OkLine
  OBVIOUS
<1>2. /\ mem \in Seq(Tokens) /\ Len(mem) = 7
      /\ mem[1] = LF /\ mem[2] = CR /\ mem[3] = LF /\ mem[4] = "O" /\ mem[5] = "K"
      /\ mem[6] = CR /\ mem[7] = LF
  <2>1. mem = <<LF, CR, LF, "O", "K", CR, LF>>
    BY <1>1 DEF OkLine
  <2>2. mem \in Seq(Tokens)
    BY ONLY <1>1, InTokens, Zenon
  <2>. QED BY ONLY <2>1, <2>2
<1>3. PICK p, w, c, u : /\ p = rb_read_until_mem_iov(mem) /\ w = All(frames) /\ c = Here
                        /\ u = rb.used
  BY Zenon
<1>4. u \in Nat /\ c \in Nat /\ \A i \in 0 .. (u - 1) : At(i) = w[c + i + 1]
  BY <1>3, StreamParts
<1>5. /\ p = -1 \/ (p \in 0 .. (u - 7) /\ \A i \in 1 .. 7 : At(p + i - 1) = mem[i])
      /\ \A o \in 0 .. (u - 7) :
           (\A i \in 1 .. 7 : At(o + i - 1) = mem[i]) => 0 <= p /\ p <= o
  <2>1. Ring(rb) /\ Len(mem) >= 1
    BY <1>2, StreamParts
  <2>. QED BY ONLY <1>2, <1>3, <2>1, Searched, Zenon
<1>6. ASSUME NEW o \in 0 .. (u - 7)
      PROVE  (\A i \in 1 .. 7 : At(o + i - 1) = mem[i]) <=> OkLineAt(w, c, u, o)
  <2>1. (\A i \in 1 .. 7 : At(o + i - 1) = mem[i])
          <=> /\ At(o + 1 - 1) = mem[1] /\ At(o + 2 - 1) = mem[2] /\ At(o + 3 - 1) = mem[3]
              /\ At(o + 4 - 1) = mem[4] /\ At(o + 5 - 1) = mem[5] /\ At(o + 6 - 1) = mem[6]
              /\ At(o + 7 - 1) = mem[7]
    <3>1. \A i : i \in 1 .. 7 <=> i = 1 \/ i = 2 \/ i = 3 \/ i = 4 \/ i = 5 \/ i = 6 \/ i = 7
      OBVIOUS
    <3>. QED BY ONLY <3>1, Zenon
  <2>2. /\ o + 1 - 1 = o + 0 /\ o + 2 - 1 = o + 1 /\ o + 3 - 1 = o + 2 /\ o + 4 - 1 = o + 3
        /\ o + 5 - 1 = o + 4 /\ o + 6 - 1 = o + 5 /\ o + 7 - 1 = o + 6
    OBVIOUS
  <2>3. \A i \in 0 .. 6 : o + i \in 0 .. (u - 1) /\ At(o + i) = w[c + (o + i) + 1]
    BY <1>4
  <2>4. /\ o + 7 <= u
        /\ \A i \in 0 .. 6 : c + (o + i) + 1 = c + o + (i + 1)
    BY <1>4
  <2>5. \A i \in 0 .. 6 : At(o + i) = w[c + o + (i + 1)]
    BY ONLY <2>3, <2>4, Zenon
  <2>6. /\ At(o + 0) = w[c + o + 1] /\ At(o + 1) = w[c + o + 2] /\ At(o + 2) = w[c + o + 3]
        /\ At(o + 3) = w[c + o + 4] /\ At(o + 4) = w[c + o + 5] /\ At(o + 5) = w[c + o + 6]
        /\ At(o + 6) = w[c + o + 7]
    BY ONLY <2>5
  <2>. QED BY ONLY <1>2, <2>1, <2>2, <2>4, <2>6, Zenon DEF OkLineAt
<1>7. \/ p = -1 /\ \A q \in 0 .. u : ~OkLineAt(w, c, u, q)
      \/ /\ p \in 0 .. (u - 7) /\ OkLineAt(w, c, u, p)
         /\ \A q \in 0 .. (p - 1) : ~OkLineAt(w, c, u, q)
  <2>1. ASSUME NEW q \in Nat, OkLineAt(w, c, u, q) PROVE 0 <= p /\ p <= q
    <3>1. q \in 0 .. (u - 7)
      BY <1>4, <2>1 DEF OkLineAt
    <3>2. \A i \in 1 .. 7 : At(q + i - 1) = mem[i]
      BY ONLY <1>6, <2>1, <3>1, Zenon
    <3>. QED BY ONLY <1>5, <3>1, <3>2, Zenon
  <2>2. p # -1 => p \in 0 .. (u - 7) /\ OkLineAt(w, c, u, p)
    BY ONLY <1>5, <1>6, Zenon
  <2>3. p = -1 => \A q \in 0 .. u : ~OkLineAt(w, c, u, q)
    <3>1. \A q \in 0 .. u : q \in Nat
      BY <1>4
    <3>2. ~(0 <= -1)
      OBVIOUS
    <3>. QED BY ONLY <2>1, <3>1, <3>2, Zenon
  <2>4. p # -1 => \A q \in 0 .. (p - 1) : ~OkLineAt(w, c, u, q)
    <3> SUFFICES ASSUME p # -1, NEW q \in 0 .. (p - 1), OkLineAt(w, c, u, q) PROVE FALSE
      OBVIOUS
    <3>1. p \in 0 .. (u - 7) /\ q \in Nat /\ ~(p <= q)
      BY <1>4, <2>2
    <3>. QED BY ONLY <2>1, <3>1, OkLineAt(w, c, u, q), Zenon
  <2>. QED BY ONLY <2>2, <2>3, <2>4, Zenon
<1> QED BY ONLY <1>1, <1>3, <1>7, Zenon

(* What a turn does with the m bytes it takes and the l - 1 it delivers. *)
Text(w, c, l) == [i \in 1 .. (l - 1) |-> w[c + i]]

Effects(m, l) ==
  /\ m \in 0 .. rb.used /\ Stream' /\ rb.used' = rb.used - m /\ Here' = Here + m /\ Got' = Got
  /\ delivered' = IF l = 0 THEN delivered ELSE Append(delivered, Text(All(frames), Here, l))
  /\ frames' = frames /\ rest' = rest /\ damage' = damage /\ cut' = cut

LEMMA Skipped ==
  ASSUME Stream, NEW m \in 0 .. rb.used, NEW r, Skip(m, r)
  PROVE  Effects(m, 0) /\ read_result' = r /\ pc' = pc
<1>1. Stream' /\ rb.used' = rb.used - m /\ Here' = Here + m /\ Got' = Got
  <2>1. frames' = frames /\ rest' = rest /\ rb' = rb_read_upd(rb, m)
    BY DEF Skip
  <2>. QED BY <2>1, StreamSkips
<1> QED BY ONLY <1>1, m \in 0 .. rb.used, Skip(m, r), Zenon DEF Effects, Skip

LEMMA Wanted ==
  ASSUME Stream, More
  PROVE  Effects(0, 0) /\ read_result' = read_result /\ pc' = "wait"
<1>1. 0 \in 0 .. rb.used
  BY StreamParts
<1>2. Stream' /\ rb.used' = rb.used - 0 /\ Here' = Here + 0 /\ Got' = Got
  <2>1. frames' = frames /\ rest' = rest /\ rb' = rb
    BY DEF More
  <2>. QED BY <1>1, <2>1, StreamSkips
<1> QED BY ONLY <1>1, <1>2, More, Zenon DEF Effects, More

LEMMA Given ==
  ASSUME Stream, NEW l \in 1 .. rb.used, NEW m \in 0 .. rb.used, Deliver(l, m)
  PROVE  Effects(m, l) /\ read_result' = 0 /\ pc' = pc
<1>1. Stream' /\ rb.used' = rb.used - m /\ Here' = Here + m /\ Got' = Got
  <2>1. frames' = frames /\ rest' = rest /\ rb' = rb_read_upd(rb, m)
    BY DEF Deliver
  <2>. QED BY <2>1, StreamSkips
<1>2. [i \in 1 .. (l - 1) |-> At(i - 1)] = Text(All(frames), Here, l)
  <2>1. ASSUME NEW i \in 1 .. (l - 1) PROVE At(i - 1) = All(frames)[Here + i]
    <3>1. rb.used \in Nat /\ Here \in Nat
      BY StreamParts
    <3>2. i - 1 \in 0 .. (rb.used - 1) /\ Here + (i - 1) + 1 = Here + i
      BY <3>1
    <3>3. At(i - 1) = All(frames)[Here + (i - 1) + 1]
      BY <3>2, StreamParts
    <3>. QED BY ONLY <3>2, <3>3, Zenon
  <2>. QED BY ONLY <2>1, Zenon DEF Text
<1>3. l # 0
  BY StreamParts
<1> QED BY ONLY <1>1, <1>2, <1>3, m \in 0 .. rb.used, Deliver(l, m), Zenon DEF Effects, Deliver

(* The bytes that the parser compares. *)
LEMMA Compared ==
  ASSUME Stream
  PROVE  LET w == All(frames)
             c == Here
             u == rb.used
         IN  /\ u \in Nat
             /\ Same(Break) <=> Pair(w, c, u, CR, LF)
             /\ rb_memcmp(Break) < 0 <=> u < 2
             /\ rb_memcmp(Break) > 0 <=> u >= 2 /\ ~Pair(w, c, u, CR, LF)
             /\ u >= 1 => (Same(<<LF>>) <=> w[c + 1] = LF)
             /\ Same(Tag("CSSI:")) <=> Pair(w, c, u, "+", "CSSI:")
             /\ Same(Tag("CMGR:")) <=> Pair(w, c, u, "+", "CMGR:")
             /\ Same(Prompt) <=> Pair(w, c, u, ">", Space)
             /\ Doubled <=> DoubledAt(w, c, u)
             /\ Listing <=> ListingAt(w, c, u)
<1>1. PICK w, c, u : w = All(frames) /\ c = Here /\ u = rb.used
  BY Zenon
<1>2. u \in Nat /\ c \in Nat /\ \A i \in 0 .. (u - 1) : At(i) = w[c + i + 1]
  BY <1>1, StreamParts
<1>3. /\ u >= 1 => At(0) = w[c + 1]
      /\ u >= 2 => At(0) = w[c + 1] /\ At(1) = w[c + 2]
      /\ u >= 4 => At(0) = w[c + 1] /\ At(1) = w[c + 2] /\ At(2) = w[c + 3] /\ At(3) = w[c + 4]
  BY ONLY <1>2
<1>4. rb.used \in Nat
  BY <1>1, <1>2
<1>5. ASSUME NEW a, NEW b
      PROVE  /\ Same(<<a, b>>) <=> Pair(w, c, u, a, b)
             /\ rb_memcmp(<<a, b>>) < 0 <=> u < 2
             /\ rb_memcmp(<<a, b>>) > 0 <=> u >= 2 /\ ~Pair(w, c, u, a, b)
  <2>1. /\ Same(<<a, b>>) <=> u >= 2 /\ At(0) = a /\ At(1) = b
        /\ rb_memcmp(<<a, b>>) < 0 <=> u < 2
        /\ rb_memcmp(<<a, b>>) > 0 <=> u >= 2 /\ ~(At(0) = a /\ At(1) = b)
    BY ONLY <1>1, <1>4, SameTwo, Zenon
  <2>. QED BY ONLY <1>3, <2>1, Zenon DEF Pair
<1>6. u >= 1 => (Same(<<LF>>) <=> w[c + 1] = LF)
  <2>1. Same(<<LF>>) <=> u >= 1 /\ At(0) = LF
    BY ONLY <1>1, <1>4, SameOne, Zenon
  <2>. QED BY ONLY <1>3, <2>1, Zenon
<1>7. Doubled <=> DoubledAt(w, c, u)
  <2>1. \A word : Same(<<CR, LF, "+", word>>)
                    <=> u >= 4 /\ At(0) = CR /\ At(1) = LF /\ At(2) = "+" /\ At(3) = word
    BY ONLY <1>1, <1>4, SameFour, Zenon
  <2>. QED BY ONLY <1>3, <2>1, Zenon DEF Doubled, DoubledAt
<1>8. Listing <=> ListingAt(w, c, u)
  BY ONLY <1>5, Zenon DEF Listing, ListingAt, Pair, Tag
<1>9. Break = <<CR, LF>> /\ Prompt = <<">", Space>>
  BY Zenon DEF Break, Prompt
<1>10. \A word : Tag(word) = <<"+", word>>
  BY Zenon DEF Tag
<1> QED BY ONLY <1>1, <1>2, <1>5, <1>6, <1>7, <1>8, <1>9, <1>10, Zenon

(* A turn of the parser is a Turn of the stream. *)
Turned(m, l) ==
  /\ Effects(m, l)
  /\ Turn(All(frames), Here, rb.used, read_result, m, read_result', pc', l)

LEMMA TurnedBefore ==
  ASSUME Stream, pc = "parse", Opened \/ HalfBreak \/ Multiline \/ Garbage
  PROVE  \E m, l : Turned(m, l)
<1>1. PICK w, c, u : w = All(frames) /\ c = Here /\ u = rb.used
  BY Zenon
<1>2. /\ u \in Nat
      /\ Same(Break) <=> Pair(w, c, u, CR, LF)
      /\ rb_memcmp(Break) < 0 <=> u < 2
      /\ rb_memcmp(Break) > 0 <=> u >= 2 /\ ~Pair(w, c, u, CR, LF)
      /\ u >= 1 => (Same(<<LF>>) <=> w[c + 1] = LF)
  BY ONLY <1>1, Stream, Compared, Zenon
<1>3. u > 0 /\ read_result = 0
  BY <1>1 DEF Looking, Opened, HalfBreak, Multiline, Garbage
<1>4. u >= 1
  BY <1>2, <1>3
<1>5. ASSUME NEW m, NEW r, Effects(m, 0), read_result' = r, pc' = "parse" \/ pc' = "wait",
             TurnBefore(w, c, u, m, r, pc', 0)
      PROVE  Turned(m, 0)
  <2>1. m \in 0 .. u
    BY <1>1, <1>5, Zenon DEF Effects
  <2>. QED BY ONLY <1>1, <1>3, <1>4, <1>5, <2>1, Zenon DEF Turned, Turn
<1>6. CASE Opened
  <2>1. Skip(2, 1) /\ Pair(w, c, u, CR, LF)
    BY <1>2, <1>6 DEF Opened
  <2>2. 2 \in 0 .. rb.used
    BY <1>1, <1>2, <2>1 DEF Pair
  <2>3. Effects(2, 0) /\ read_result' = 1 /\ pc' = "parse"
    BY <2>1, <2>2, Skipped
  <2>4. TurnBefore(w, c, u, 2, 1, pc', 0)
    BY <2>1, <2>3 DEF TurnBefore
  <2>. QED BY <1>5, <2>3, <2>4
<1>7. CASE HalfBreak
  <2>1. More /\ u < 2
    BY <1>2, <1>7 DEF HalfBreak
  <2>2. Effects(0, 0) /\ read_result' = 0 /\ pc' = "wait"
    BY <1>3, <2>1, Wanted
  <2>3. TurnBefore(w, c, u, 0, 0, pc', 0)
    BY <2>1, <2>2 DEF TurnBefore
  <2>. QED BY <1>5, <2>2, <2>3
<1>8. CASE Multiline
  <2>1. Skip(1, 0) /\ u >= 2 /\ ~Pair(w, c, u, CR, LF) /\ w[c + 1] = LF
    BY <1>2, <1>4, <1>8 DEF Multiline
  <2>2. 1 \in 0 .. rb.used
    BY <1>1, <1>2, <2>1
  <2>3. Effects(1, 0) /\ read_result' = 0 /\ pc' = "parse"
    BY <2>1, <2>2, Skipped
  <2>4. TurnBefore(w, c, u, 1, 0, pc', 0)
    BY <2>1, <2>3 DEF TurnBefore
  <2>. QED BY <1>5, <2>3, <2>4
<1>9. CASE Garbage
  <2>1. PICK p : p = rb_read_until_mem_iov(<<CR>>)
    OBVIOUS
  <2>2. PICK m : m = IF p >= 0 THEN p + 1 ELSE u
    OBVIOUS
  <2>3. /\ u >= 2 /\ ~Pair(w, c, u, CR, LF) /\ w[c + 1] # LF
        /\ Skip(IF p >= 0 THEN p + 1 ELSE rb.used, 0)
    BY <1>2, <1>4, <1>9, <2>1 DEF Garbage
  <2>4. Skip(m, 0)
    BY ONLY <1>1, <2>2, <2>3, Zenon
  <2>5. \/ p = -1 /\ \A q \in 1 .. u : w[c + q] # CR
        \/ /\ p \in 0 .. (u - 1) /\ w[c + (p + 1)] = CR
           /\ \A q \in 1 .. p : w[c + q] # CR
    BY ONLY <1>1, <2>1, Stream, SearchCR, Zenon
  <2>6. /\ m \in 1 .. u /\ (w[c + m] = CR \/ m = u)
        /\ \A q \in 1 .. (m - 1) : w[c + q] # CR
    <3>1. CASE p = -1 /\ \A q \in 1 .. u : w[c + q] # CR
      <4>1. m = u
        BY <2>2, <3>1
      <4>. QED BY <1>2, <1>4, <3>1, <4>1
    <3>2. CASE /\ p \in 0 .. (u - 1) /\ w[c + (p + 1)] = CR
               /\ \A q \in 1 .. p : w[c + q] # CR
      <4>1. m = p + 1 /\ m - 1 = p /\ m \in 1 .. u
        BY <1>2, <2>2, <3>2
      <4>. QED BY <3>2, <4>1
    <3>. QED BY <2>5, <3>1, <3>2
  <2>7. m \in 0 .. rb.used
    BY <1>1, <1>2, <2>6
  <2>8. Effects(m, 0) /\ read_result' = 0 /\ pc' = "parse"
    BY <2>4, <2>7, Skipped
  <2>9. TurnBefore(w, c, u, m, 0, pc', 0)
    BY ONLY <2>3, <2>6, <2>8, Zenon DEF TurnBefore
  <2>. QED BY <1>5, <2>8, <2>9
<1> QED BY <1>6, <1>7, <1>8, <1>9

LEMMA TurnedIn ==
  ASSUME Stream, pc = "parse", Cssi \/ BreakAgain \/ SmsPrompt \/ Lines \/ Line
  PROVE  \E m, l : Turned(m, l)
<1>1. PICK w, c, u : w = All(frames) /\ c = Here /\ u = rb.used
  BY Zenon
<1>2. /\ u \in Nat
      /\ Same(Tag("CSSI:")) <=> Pair(w, c, u, "+", "CSSI:")
      /\ Same(Tag("CMGR:")) <=> Pair(w, c, u, "+", "CMGR:")
      /\ Same(Prompt) <=> Pair(w, c, u, ">", Space)
      /\ Doubled <=> DoubledAt(w, c, u)
      /\ Listing <=> ListingAt(w, c, u)
  BY ONLY <1>1, Stream, Compared, Zenon
<1>3. u > 0 /\ read_result = 1
  BY <1>1 DEF Looking, Cssi, BreakAgain, SmsPrompt, Lines, Line
<1>4. u >= 1
  BY <1>2, <1>3
<1>5. ASSUME NEW m, NEW l, Effects(m, l), TurnIn(w, c, u, m, read_result', pc', l)
      PROVE  Turned(m, l)
  <2>1. m \in 0 .. u
    BY <1>1, <1>5, Zenon DEF Effects
  <2>. QED BY ONLY <1>1, <1>3, <1>4, <1>5, <2>1, Zenon DEF Turned, Turn
<1>6. CASE Cssi
  <2>1. Pair(w, c, u, "+", "CSSI:") /\ IF u >= 3 THEN Deliver(3, 3) ELSE More
    BY <1>1, <1>2, <1>6 DEF Cssi, CssiLength
  <2>2. CASE u >= 3
    <3>1. 3 \in 1 .. rb.used /\ 3 \in 0 .. rb.used
      BY <1>1, <1>2, <2>2
    <3>2. Effects(3, 3) /\ read_result' = 0 /\ pc' = "parse"
      BY <2>1, <2>2, <3>1, Given
    <3>3. TurnIn(w, c, u, 3, read_result', pc', 3)
      BY <2>1, <2>2, <3>2 DEF TurnIn, TurnCssi
    <3>. QED BY <1>5, <3>2, <3>3
  <2>3. CASE ~(u >= 3)
    <3>1. Effects(0, 0) /\ read_result' = 1 /\ pc' = "wait" /\ u < 3
      BY <1>2, <1>3, <2>1, <2>3, Wanted
    <3>2. TurnIn(w, c, u, 0, read_result', pc', 0)
      BY <2>1, <3>1 DEF TurnIn, TurnCssi
    <3>. QED BY <1>5, <3>1, <3>2
  <2>. QED BY <2>2, <2>3
<1>7. CASE BreakAgain
  <2>1. Skip(2, 1) /\ DoubledAt(w, c, u)
    BY <1>2, <1>7 DEF BreakAgain
  <2>2. 2 \in 0 .. rb.used
    <3>1. u >= 4
      BY ONLY <2>1, Zenon DEF DoubledAt
    <3>. QED BY ONLY <1>1, <1>2, <3>1
  <2>3. Effects(2, 0) /\ read_result' = 1 /\ pc' = "parse"
    BY <2>1, <2>2, Skipped
  <2>4. TurnIn(w, c, u, 2, read_result', pc', 0)
    BY <2>1, <2>3, Zenon DEF TurnIn
  <2>. QED BY <1>5, <2>3, <2>4
<1>8. CASE SmsPrompt
  <2>1. Deliver(2, 2) /\ Pair(w, c, u, ">", Space)
    BY <1>2, <1>8 DEF SmsPrompt
  <2>2. 2 \in 1 .. rb.used /\ 2 \in 0 .. rb.used
    BY <1>1, <1>2, <2>1 DEF Pair
  <2>3. Effects(2, 2) /\ read_result' = 0 /\ pc' = "parse"
    BY <2>1, <2>2, Given
  <2>4. TurnIn(w, c, u, 2, read_result', pc', 2)
    BY <2>1, <2>3, Zenon DEF TurnIn
  <2>. QED BY <1>5, <2>3, <2>4
<1>9. CASE Lines
  <2>1. PICK p : p = rb_read_until_mem_iov(OkLine)
    OBVIOUS
  <2>2. Len(OkLine) = 7
    BY DEF OkLine
  <2>3. /\ ListingAt(w, c, u)
        /\ IF p < 0 THEN More
           ELSE Deliver(p, IF Same(Tag("CMGR:")) THEN p + Len(OkLine) ELSE p + 1)
    BY <1>2, <1>9, <2>1, Zenon DEF Lines
  <2>4. \/ p = -1 /\ \A q \in 0 .. u : ~OkLineAt(w, c, u, q)
        \/ /\ p \in 0 .. (u - 7) /\ OkLineAt(w, c, u, p)
           /\ \A q \in 0 .. (p - 1) : ~OkLineAt(w, c, u, q)
    BY ONLY <1>1, <2>1, Stream, SearchOk, Zenon
  <2>5. CASE p = -1 /\ \A q \in 0 .. u : ~OkLineAt(w, c, u, q)
    <3>1. More
      BY <2>3, <2>5
    <3>2. Effects(0, 0) /\ read_result' = 1 /\ pc' = "wait"
      BY <1>3, <3>1, Wanted
    <3>3. TurnIn(w, c, u, 0, read_result', pc', 0)
      BY ONLY <2>3, <2>5, <3>2, Zenon DEF TurnIn, TurnLines
    <3>. QED BY <1>5, <3>2, <3>3
  <2>6. CASE /\ p \in 0 .. (u - 7) /\ OkLineAt(w, c, u, p)
             /\ \A q \in 0 .. (p - 1) : ~OkLineAt(w, c, u, q)
    <3>1. PICK m : m = IF Same(Tag("CMGR:")) THEN p + 7 ELSE p + 1
      OBVIOUS
    <3>2. Deliver(p, m)
      <4>1. ~(p < 0)
        BY <1>2, <2>6
      <4>. QED BY ONLY <2>2, <2>3, <3>1, <4>1, Zenon
    <3>3. p # 0
      <4>1. w[c + 1] # LF
        BY <2>3 DEF ListingAt, LF
      <4>2. Here \in Nat
        BY StreamParts
      <4>. QED BY <1>1, <2>6, <4>1, <4>2 DEF OkLineAt
    <3>4. p \in 1 .. u /\ m \in 0 .. u
      BY <1>2, <2>6, <3>1, <3>3
    <3>5. Effects(m, p) /\ read_result' = 0 /\ pc' = "parse"
      BY <1>1, <3>2, <3>4, Given
    <3>6. Same(Tag("CMGR:")) <=> w[c + 2] = "CMGR:"
      BY <1>2, <2>3 DEF Pair, ListingAt
    <3>7. TurnIn(w, c, u, m, read_result', pc', p)
      BY ONLY <2>3, <2>6, <3>1, <3>4, <3>5, <3>6, Zenon DEF TurnIn, TurnLines
    <3>. QED BY <1>5, <3>5, <3>7
  <2>. QED BY <2>4, <2>5, <2>6
<1>10. CASE Line
  <2>1. PICK p : p = rb_read_until_mem_iov(Break)
    OBVIOUS
  <2>2. /\ ~Pair(w, c, u, "+", "CSSI:") /\ ~DoubledAt(w, c, u)
        /\ ~Pair(w, c, u, ">", Space) /\ ~ListingAt(w, c, u)
        /\ IF p < 0 THEN More ELSE Deliver(p + 1, p + 2)
    BY <1>2, <1>10, <2>1, Zenon DEF Line
  <2>3. \/ p = -1 /\ \A q \in 0 .. u : ~BreakAt(w, c, u, q)
        \/ /\ p \in 0 .. (u - 2) /\ BreakAt(w, c, u, p)
           /\ \A q \in 0 .. (p - 1) : ~BreakAt(w, c, u, q)
    BY ONLY <1>1, <2>1, Stream, SearchBreak, Zenon
  <2>4. CASE p = -1 /\ \A q \in 0 .. u : ~BreakAt(w, c, u, q)
    <3>1. More
      BY <2>2, <2>4
    <3>2. Effects(0, 0) /\ read_result' = 1 /\ pc' = "wait"
      BY <1>3, <3>1, Wanted
    <3>3. TurnIn(w, c, u, 0, read_result', pc', 0)
      BY ONLY <2>2, <2>4, <3>2, Zenon DEF TurnIn, TurnLine
    <3>. QED BY <1>5, <3>2, <3>3
  <2>5. CASE /\ p \in 0 .. (u - 2) /\ BreakAt(w, c, u, p)
             /\ \A q \in 0 .. (p - 1) : ~BreakAt(w, c, u, q)
    <3>1. PICK m, l : m = p + 2 /\ l = p + 1
      OBVIOUS
    <3>2. Deliver(l, m)
      <4>1. ~(p < 0)
        BY <1>2, <2>5
      <4>. QED BY ONLY <2>2, <3>1, <4>1, Zenon
    <3>3. l \in 1 .. u /\ m \in 0 .. u /\ m = l + 1 /\ l - 1 = p /\ l - 2 = p - 1
      BY <1>2, <2>5, <3>1
    <3>4. Effects(m, l) /\ read_result' = 0 /\ pc' = "parse"
      BY <1>1, <3>2, <3>3, Given
    <3>5. TurnIn(w, c, u, m, read_result', pc', l)
      BY ONLY <2>2, <2>5, <3>3, <3>4, Zenon DEF TurnIn, TurnLine
    <3>. QED BY <1>5, <3>4, <3>5
  <2>. QED BY <2>3, <2>4, <2>5
<1> QED BY <1>6, <1>7, <1>8, <1>9, <1>10

LEMMA ParserTurns ==
  ASSUME Stream, at_read_result_iov
  PROVE  \E m, l : Turned(m, l)
<1>1. pc = "parse"
  BY DEF at_read_result_iov, Looking, Opened, HalfBreak, Multiline, Garbage, Cssi, BreakAgain,
         SmsPrompt, Lines, Line
<1> QED BY ONLY <1>1, Stream, at_read_result_iov, TurnedBefore, TurnedIn, Zenon
           DEF at_read_result_iov

-----------------------------------------------------------------------------
(* An answer of the stream w, t tokens long, and what follows it.           *)
Cell(w, t, b, e, kind, x) ==
  /\ b \in Nat /\ e \in Nat /\ t \in Nat /\ b < e /\ e <= t
  /\ kind \in AllKinds /\ x \notin Marks /\ Laid(w, b, e, kind, x)
  /\ e = t \/ (e + 4 <= t /\ w[e + 1] = CR /\ w[e + 2] = LF)

LEMMA Begins ==
  ASSUME NEW w, NEW b, NEW e, NEW kind \in AllKinds, NEW x, Laid(w, b, e, kind, x)
  PROVE  w[b + 1] = CR /\ w[b + 2] = LF
BY Zenon DEF AllKinds, Laid, OkAt, CregAt, PromptAt, CmgrAt, ClccAt, CssiAt, CmgsAt, LongAt

LEMMA Cells ==
  ASSUME NEW fs, Possible(fs), NEW k \in 0 .. Len(fs)
  PROVE  Cell(All(fs), Len(All(fs)), Base(fs, k), Base(fs, k + 1), Kind(fs, k),
              Texts[Number(k)])
<1>1. PICK n, w, t, b, e, f, kind, x :
        /\ n = Len(fs) /\ w = All(fs) /\ t = Len(All(fs)) /\ b = Base(fs, k)
        /\ e = Base(fs, k + 1) /\ f = Base(fs, (k + 1) + 1) /\ kind = Kind(fs, k)
        /\ x = Texts[Number(k)]
  BY Zenon
<1>2. n \in Nat
  BY <1>1 DEF Possible
<1>3. /\ b \in Nat /\ e \in Nat /\ b + 4 <= e /\ kind \in AllKinds /\ Laid(w, b, e, kind, x)
      /\ Number(k) \in 1 .. MaxFrames
  BY ONLY <1>1, Possible(fs), k \in 0 .. Len(fs), Grows, Lies, AnyAnswer, Zenon
<1>4. x \notin Marks
  BY <1>1, <1>3, TextsAssumption
<1>5. t \in Nat /\ Base(fs, n + 1) = t
  BY <1>1, Layout
<1>6. CASE k = n
  BY <1>1, <1>3, <1>4, <1>5, <1>6 DEF Cell
<1>7. CASE k # n
  <2>1. k + 1 \in 0 .. Len(fs) /\ (k + 1) + 1 \in 0 .. (Len(fs) + 1)
        /\ n + 1 \in 0 .. (Len(fs) + 1) /\ (k + 1) + 1 <= n + 1
    BY <1>1, <1>2, <1>7
  <2>2. PICK kind2, x2 : kind2 = Kind(fs, k + 1) /\ x2 = Texts[Number(k + 1)]
    OBVIOUS
  <2>3. e + 4 <= f /\ kind2 \in AllKinds /\ Laid(w, e, f, kind2, x2) /\ f \in Nat
    BY ONLY <1>1, <2>1, <2>2, Possible(fs), Grows, Lies, AnyAnswer, Zenon
  <2>4. f <= t
    BY ONLY <1>1, <1>5, <2>1, Possible(fs), Ordered, Zenon
  <2>5. w[e + 1] = CR /\ w[e + 2] = LF
    BY ONLY <2>3, Begins, Zenon
  <2>6. Cell(w, t, b, e, kind, x)
    BY <1>3, <1>4, <1>5, <2>3, <2>4, <2>5 DEF Cell
  <2>. QED BY <1>1, <2>6
<1> QED BY <1>6, <1>7

(* Sixteen bytes without a line break are of a long answer. *)
LEMMA BreakNear ==
  ASSUME NEW w, NEW t, NEW b, NEW e, NEW kind, NEW x, Cell(w, t, b, e, kind, x),
         NEW c \in Nat, b <= c, c < e, c + 16 <= t, kind # "long"
  PROVE  \E o \in 0 .. 14 : w[c + o + 1] = CR /\ w[c + o + 2] = LF
<1> SUFFICES ASSUME ~ \E o \in 0 .. 14 : w[c + o + 1] = CR /\ w[c + o + 2] = LF PROVE FALSE
  OBVIOUS
<1>1. /\ b \in Nat /\ e \in Nat /\ t \in Nat /\ kind \in AllKinds
      /\ Laid(w, b, e, kind, x) /\ (e < t => w[e + 1] = CR /\ w[e + 2] = LF) /\ e <= t
  BY DEF Cell
<1>2. ASSUME NEW d \in Nat, w[d + 1] = CR, w[d + 2] = LF PROVE ~(c <= d /\ d <= c + 14)
  <2> SUFFICES ASSUME c <= d /\ d <= c + 14 PROVE FALSE
    OBVIOUS
  <2>1. PICK o : o = d - c
    OBVIOUS
  <2>2. o \in 0 .. 14 /\ c + o + 1 = d + 1 /\ c + o + 2 = d + 2
    BY <1>2, <2>1
  <2>. QED BY <1>2, <2>2
<1>3. ~(c <= e /\ e <= c + 14 /\ e < t)
  BY <1>1, <1>2
<1>4. CASE kind = "ok"
  <2>1. OkAt(w, b, e, x)
    BY <1>1, <1>4 DEF Laid
  <2>2. ~(c <= b /\ b <= c + 14)
    BY <1>1, <1>2, <2>1 DEF OkAt
  <2>3. ~(c <= b + 4 /\ b + 4 <= c + 14)
    <3>1. w[(b + 4) + 1] = CR /\ w[(b + 4) + 2] = LF /\ b + 4 \in Nat
      BY <1>1, <2>1 DEF OkAt
    <3>. QED BY ONLY <1>2, <3>1, Zenon
  <2>4. e = b + 6
    BY <2>1 DEF OkAt
  <2>5. /\ b \in Nat /\ e \in Nat /\ t \in Nat /\ e <= t /\ c \in Nat /\ b <= c /\ c < e
        /\ c + 16 <= t
    BY <1>1
  <2>. QED BY ONLY <1>3, <2>2, <2>3, <2>4, <2>5
<1>5. CASE kind = "creg"
  <2>1. CregAt(w, b, e, x)
    BY <1>1, <1>5 DEF Laid
  <2>2. ~(c <= b /\ b <= c + 14)
    BY <1>1, <1>2, <2>1 DEF CregAt
  <2>3. ~(c <= b + 5 /\ b + 5 <= c + 14)
    <3>1. w[(b + 5) + 1] = CR /\ w[(b + 5) + 2] = LF /\ b + 5 \in Nat
      BY <1>1, <2>1 DEF CregAt
    <3>. QED BY ONLY <1>2, <3>1, Zenon
  <2>4. e = b + 7
    BY <2>1 DEF CregAt
  <2>5. /\ b \in Nat /\ e \in Nat /\ t \in Nat /\ e <= t /\ c \in Nat /\ b <= c /\ c < e
        /\ c + 16 <= t
    BY <1>1
  <2>. QED BY ONLY <1>3, <2>2, <2>3, <2>4, <2>5
<1>6. CASE kind = "prompt"
  <2>1. PromptAt(w, b, e, x)
    BY <1>1, <1>6 DEF Laid
  <2>2. ~(c <= b /\ b <= c + 14)
    BY <1>1, <1>2, <2>1 DEF PromptAt
  <2>3. e = b + 4
    BY <2>1 DEF PromptAt
  <2>4. /\ b \in Nat /\ e \in Nat /\ t \in Nat /\ e <= t /\ c \in Nat /\ b <= c /\ c < e
        /\ c + 16 <= t
    BY <1>1
  <2>. QED BY ONLY <1>3, <2>2, <2>3, <2>4
<1>7. CASE kind = "cmgr"
  <2>1. CmgrAt(w, b, e, x)
    BY <1>1, <1>7 DEF Laid
  <2>2. ~(c <= b /\ b <= c + 14)
    BY <1>1, <1>2, <2>1 DEF CmgrAt
  <2>3. ~(c <= b + 5 /\ b + 5 <= c + 14)
    <3>1. w[(b + 5) + 1] = CR /\ w[(b + 5) + 2] = LF /\ b + 5 \in Nat
      BY <1>1, <2>1 DEF CmgrAt
    <3>. QED BY ONLY <1>2, <3>1, Zenon
  <2>4. ~(c <= b + 8 /\ b + 8 <= c + 14)
    <3>1. w[(b + 8) + 1] = CR /\ w[(b + 8) + 2] = LF /\ b + 8 \in Nat
      BY <1>1, <2>1 DEF CmgrAt
    <3>. QED BY ONLY <1>2, <3>1, Zenon
  <2>5. ~(c <= b + 10 /\ b + 10 <= c + 14)
    <3>1. w[(b + 10) + 1] = CR /\ w[(b + 10) + 2] = LF /\ b + 10 \in Nat
      BY <1>1, <2>1 DEF CmgrAt
    <3>. QED BY ONLY <1>2, <3>1, Zenon
  <2>6. ~(c <= b + 14 /\ b + 14 <= c + 14)
    <3>1. w[(b + 14) + 1] = CR /\ w[(b + 14) + 2] = LF /\ b + 14 \in Nat
      BY <1>1, <2>1 DEF CmgrAt
    <3>. QED BY ONLY <1>2, <3>1, Zenon
  <2>7. e = b + 16
    BY <2>1 DEF CmgrAt
  <2>8. /\ b \in Nat /\ e \in Nat /\ t \in Nat /\ e <= t /\ c \in Nat /\ b <= c /\ c < e
        /\ c + 16 <= t
    BY <1>1
  <2>. QED BY ONLY <1>3, <2>2, <2>3, <2>4, <2>5, <2>6, <2>7, <2>8
<1>8. CASE kind = "clcc"
  <2>1. ClccAt(w, b, e, x)
    BY <1>1, <1>8 DEF Laid
  <2>2. ~(c <= b /\ b <= c + 14)
    BY <1>1, <1>2, <2>1 DEF ClccAt
  <2>3. ~(c <= b + 5 /\ b + 5 <= c + 14)
    <3>1. w[(b + 5) + 1] = CR /\ w[(b + 5) + 2] = LF /\ b + 5 \in Nat
      BY <1>1, <2>1 DEF ClccAt
    <3>. QED BY ONLY <1>2, <3>1, Zenon
  <2>4. ~(c <= b + 10 /\ b + 10 <= c + 14)
    <3>1. w[(b + 10) + 1] = CR /\ w[(b + 10) + 2] = LF /\ b + 10 \in Nat
      BY <1>1, <2>1 DEF ClccAt
    <3>. QED BY ONLY <1>2, <3>1, Zenon
  <2>5. ~(c <= b + 12 /\ b + 12 <= c + 14)
    <3>1. w[(b + 12) + 1] = CR /\ w[(b + 12) + 2] = LF /\ b + 12 \in Nat
      BY <1>1, <2>1 DEF ClccAt
    <3>. QED BY ONLY <1>2, <3>1, Zenon
  <2>6. ~(c <= b + 16 /\ b + 16 <= c + 14)
    <3>1. w[(b + 16) + 1] = CR /\ w[(b + 16) + 2] = LF /\ b + 16 \in Nat
      BY <1>1, <2>1 DEF ClccAt
    <3>. QED BY ONLY <1>2, <3>1, Zenon
  <2>7. e = b + 18
    BY <2>1 DEF ClccAt
  <2>8. /\ b \in Nat /\ e \in Nat /\ t \in Nat /\ e <= t /\ c \in Nat /\ b <= c /\ c < e
        /\ c + 16 <= t
    BY <1>1
  <2>. QED BY ONLY <1>3, <2>2, <2>3, <2>4, <2>5, <2>6, <2>7, <2>8
<1>9. CASE kind = "cssi"
  <2>1. CssiAt(w, b, e, x)
    BY <1>1, <1>9 DEF Laid
  <2>2. ~(c <= b /\ b <= c + 14)
    BY <1>1, <1>2, <2>1 DEF CssiAt
  <2>3. e = b + 5
    BY <2>1 DEF CssiAt
  <2>4. /\ b \in Nat /\ e \in Nat /\ t \in Nat /\ e <= t /\ c \in Nat /\ b <= c /\ c < e
        /\ c + 16 <= t
    BY <1>1
  <2>. QED BY ONLY <1>3, <2>2, <2>3, <2>4
<1>10. CASE kind = "cmgs"
  <2>1. CmgsAt(w, b, e, x)
    BY <1>1, <1>10 DEF Laid
  <2>2. ~(c <= b /\ b <= c + 14)
    BY <1>1, <1>2, <2>1 DEF CmgsAt
  <2>3. ~(c <= b + 2 /\ b + 2 <= c + 14)
    <3>1. w[(b + 2) + 1] = CR /\ w[(b + 2) + 2] = LF /\ b + 2 \in Nat
      BY <1>1, <2>1 DEF CmgsAt
    <3>. QED BY ONLY <1>2, <3>1, Zenon
  <2>4. ~(c <= b + 7 /\ b + 7 <= c + 14)
    <3>1. w[(b + 7) + 1] = CR /\ w[(b + 7) + 2] = LF /\ b + 7 \in Nat
      BY <1>1, <2>1 DEF CmgsAt
    <3>. QED BY ONLY <1>2, <3>1, Zenon
  <2>5. e = b + 9
    BY <2>1 DEF CmgsAt
  <2>6. /\ b \in Nat /\ e \in Nat /\ t \in Nat /\ e <= t /\ c \in Nat /\ b <= c /\ c < e
        /\ c + 16 <= t
    BY <1>1
  <2>. QED BY ONLY <1>3, <2>2, <2>3, <2>4, <2>5, <2>6
<1> QED BY <1>1, <1>4, <1>5, <1>6, <1>7, <1>8, <1>9, <1>10, Zenon DEF AllKinds

(* Only +CMGR and +CLCC are lists; the OK that ends one stands behind it.   *)
LEMMA ListingOnly ==
  ASSUME NEW w, NEW t, NEW b, NEW e, NEW kind, NEW x, Cell(w, t, b, e, kind, x),
         NEW c \in Nat, b <= c, c < e, NEW u \in Nat, c + u <= t, ListingAt(w, c, u)
  PROVE  \/ kind = "cmgr" /\ c = b + 2
         \/ kind = "clcc" /\ (c = b + 2 \/ c = b + 7)
<1>1. /\ b \in Nat /\ e \in Nat /\ t \in Nat /\ kind \in AllKinds /\ x \notin Marks
      /\ Laid(w, b, e, kind, x) /\ (e < t => w[e + 1] = CR) /\ e <= t
  BY DEF Cell
<1>2. u >= 2 /\ w[c + 1] = "+" /\ w[c + 2] \in {"CMGR:", "CNUM:", "CLCC:"}
  BY Zenon DEF ListingAt
<1>3. /\ x # "+" /\ CR # "+" /\ LF # "+" /\ Space # "+"
      /\ w[c + 2] # CR /\ x # CR /\ x # "CMGR:" /\ x # "CNUM:" /\ x # "CLCC:"
  BY <1>1, <1>2 DEF Marks, CR, LF, Space
<1>4. c + 1 < e
  <2>1. c + 1 # e
    <3> SUFFICES ASSUME c + 1 = e PROVE FALSE
      OBVIOUS
    <3>1. c + 2 = e + 1 /\ e < t
      BY <1>1, <1>2
    <3>. QED BY ONLY <1>1, <1>3, <3>1, Zenon
  <2>. QED BY <1>1, <2>1
<1>5. CASE kind = "ok"
  <2>1. OkAt(w, b, e, x)
    BY <1>1, <1>5 DEF Laid
  <2>. QED BY <1>1, <1>2, <1>3, <1>4, <1>5, <2>1 DEF OkAt
<1>6. CASE kind = "creg"
  <2>1. CregAt(w, b, e, x)
    BY <1>1, <1>6 DEF Laid
  <2>. QED BY <1>1, <1>2, <1>3, <1>4, <1>6, <2>1 DEF CregAt
<1>7. CASE kind = "prompt"
  <2>1. PromptAt(w, b, e, x)
    BY <1>1, <1>7 DEF Laid
  <2>. QED BY <1>1, <1>2, <1>3, <1>4, <1>7, <2>1 DEF PromptAt
<1>8. CASE kind = "cmgr"
  <2>1. CmgrAt(w, b, e, x)
    BY <1>1, <1>8 DEF Laid
  <2>. QED BY <1>1, <1>2, <1>3, <1>4, <1>8, <2>1 DEF CmgrAt
<1>9. CASE kind = "clcc"
  <2>1. ClccAt(w, b, e, x)
    BY <1>1, <1>9 DEF Laid
  <2>. QED BY <1>1, <1>2, <1>3, <1>4, <1>9, <2>1 DEF ClccAt
<1>10. CASE kind = "cssi"
  <2>1. CssiAt(w, b, e, x)
    BY <1>1, <1>10 DEF Laid
  <2>. QED BY <1>1, <1>2, <1>3, <1>4, <1>10, <2>1 DEF CssiAt
<1>11. CASE kind = "cmgs"
  <2>1. CmgsAt(w, b, e, x)
    BY <1>1, <1>11 DEF Laid
  <2>. QED BY <1>1, <1>2, <1>3, <1>4, <1>11, <2>1 DEF CmgsAt
<1>12. CASE kind = "long"
  <2>1. LongAt(w, b, e, x)
    BY <1>1, <1>12 DEF Laid
  <2>. QED BY SizeAssumption, <1>1, <1>2, <1>3, <1>4, <1>12, <2>1 DEF LongAt
<1> QED BY <1>1, <1>5, <1>6, <1>7, <1>8, <1>9, <1>10, <1>11, <1>12, Zenon DEF AllKinds

(* The OK that ends a list. *)
LEMMA ListEnds ==
  ASSUME NEW w, NEW t, NEW b, NEW e, NEW kind, NEW x, Cell(w, t, b, e, kind, x),
         NEW c \in Nat, NEW u \in Nat
  PROVE  /\ kind = "cmgr" /\ c = b + 2 /\ u >= 14 => OkLineAt(w, c, u, 7)
         /\ kind = "clcc" /\ c = b + 2 /\ u >= 16 => OkLineAt(w, c, u, 9)
         /\ kind = "clcc" /\ c = b + 7 /\ u >= 11 => OkLineAt(w, c, u, 4)
<1>1. b \in Nat /\ Laid(w, b, e, kind, x)
  BY DEF Cell
<1>2. CASE kind = "cmgr"
  <2>1. CmgrAt(w, b, e, x)
    BY <1>1, <1>2 DEF Laid
  <2>. QED BY <1>1, <1>2, <2>1 DEF CmgrAt, OkLineAt
<1>3. CASE kind = "clcc"
  <2>1. ClccAt(w, b, e, x)
    BY <1>1, <1>3 DEF Laid
  <2>. QED BY <1>1, <1>3, <2>1 DEF ClccAt, OkLineAt
<1> QED BY <1>2, <1>3

(* A thread that waits for the port takes no bytes, and keeps its place. *)
LEMMA WaitTurn ==
  ASSUME NEW w, NEW c, NEW u, NEW r, NEW m, NEW r2, NEW l, Turn(w, c, u, r, m, r2, "wait", l)
  PROVE  m = 0 /\ l = 0 /\ r2 = r /\ Awaits(w, c, u, r)
<1>1. m = 0 /\ l = 0 /\ r2 = r
  BY Zenon DEF Turn, TurnBefore, TurnIn, TurnCssi, TurnLines, TurnLine
<1> QED BY <1>1, Zenon DEF Awaits

LEMMA WaitParts ==
  ASSUME NEW w, NEW c, NEW u, NEW r, Awaits(w, c, u, r)
  PROVE  \/ r = 0 /\ u < 2
         \/ r = 1 /\ Pair(w, c, u, "+", "CSSI:") /\ u < 3
         \/ r = 1 /\ ListingAt(w, c, u) /\ \A q \in 0 .. u : ~OkLineAt(w, c, u, q)
         \/ /\ r = 1 /\ \A q \in 0 .. u : ~BreakAt(w, c, u, q)
            /\ ~Pair(w, c, u, "+", "CSSI:") /\ ~DoubledAt(w, c, u)
            /\ ~Pair(w, c, u, ">", Space) /\ ~ListingAt(w, c, u)
BY Zenon DEF Awaits, Turn, TurnBefore, TurnIn, TurnCssi, TurnLines, TurnLine

LEMMA Full ==
  ASSUME NEW w, NEW t, NEW b, NEW e, NEW kind, NEW x, Cell(w, t, b, e, kind, x),
         NEW c \in Nat, b <= c, c < e, NEW u \in Nat, u >= 16, c + u <= t, NEW r,
         Awaits(w, c, u, r)
  PROVE  kind = "long"
<1>1. \/ ListingAt(w, c, u) /\ \A q \in 0 .. u : ~OkLineAt(w, c, u, q)
      \/ \A q \in 0 .. u : ~BreakAt(w, c, u, q)
  BY WaitParts
<1>2. CASE ListingAt(w, c, u) /\ \A q \in 0 .. u : ~OkLineAt(w, c, u, q)
  <2>1. \/ kind = "cmgr" /\ c = b + 2
        \/ kind = "clcc" /\ (c = b + 2 \/ c = b + 7)
    BY <1>2, ListingOnly
  <2>2. 7 \in 0 .. u /\ 9 \in 0 .. u /\ 4 \in 0 .. u
    OBVIOUS
  <2>3. OkLineAt(w, c, u, 7) \/ OkLineAt(w, c, u, 9) \/ OkLineAt(w, c, u, 4)
    BY <2>1, ListEnds
  <2>. QED BY ONLY <1>2, <2>2, <2>3, Zenon
<1>3. ASSUME \A q \in 0 .. u : ~BreakAt(w, c, u, q), kind # "long" PROVE FALSE
  <2>1. c + 16 <= t
    BY DEF Cell
  <2>2. PICK o \in 0 .. 14 : w[c + o + 1] = CR /\ w[c + o + 2] = LF
    BY <1>3, <2>1, BreakNear
  <2>3. BreakAt(w, c, u, o) /\ o \in 0 .. u
    BY <2>2 DEF BreakAt
  <2>. QED BY <1>3, <2>3
<1> QED BY <1>1, <1>2, <1>3

-----------------------------------------------------------------------------
(* What holds of every state: the buffer shows a piece of the stream, a     *)
(* thread that waits has found nothing more in it, and damage and cut know  *)
(* of every read.                                                          *)
Flow ==
  /\ Stream
  /\ delivered \in Seq(Seq(Tokens)) /\ read_result \in {0, 1}
  /\ pc \in {"wait", "parse", "disconnected"}
  /\ damage \in -1 .. MaxFrames /\ cut \subseteq DOMAIN frames
  /\ pc = "wait" /\ rb.used > 0 => Awaits(All(frames), Here, rb.used, read_result)
  /\ \A j \in TornBy(Len(rest)) : j <= damage
  /\ CutBy(Len(rest)) \subseteq cut
  /\ pc = "disconnected" => \E j \in DOMAIN frames : frames[j] = "long"

LEMMA Largest ==
  ASSUME NEW N \in Nat, NEW T, T \subseteq -1 .. N, T # {}
  PROVE  Max(T) \in T /\ \A m \in T : m <= Max(T)
<1> DEFINE Gaps == {N - m : m \in T}
<1>1. Gaps \subseteq Nat /\ Gaps # {}
  <2>1. \A m \in T : N - m \in Nat
    <3> SUFFICES ASSUME NEW m \in T PROVE N - m \in Nat
      OBVIOUS
    <3>1. m \in -1 .. N
      OBVIOUS
    <3>. QED BY <3>1
  <2>. QED BY ONLY <2>1, T # {}
<1>2. PICK g \in Gaps : \A h \in Gaps : g <= h
  <2> HIDE DEF Gaps
  <2>. QED BY <1>1, LeastNumber
<1>3. PICK n \in T : g = N - n
  BY <1>2
<1>4. ASSUME NEW m \in T PROVE m <= n
  <2>1. g <= N - m
    BY <1>2
  <2>. QED BY <1>3, <2>1
<1>5. n \in T /\ \A m \in T : n >= m
  BY <1>4
<1>6. Max(T) \in T /\ \A m \in T : Max(T) >= m
  <2>1. \E z : z \in T /\ \A m \in T : z >= m
    BY <1>5
  <2>. QED BY ONLY <2>1, Zenon DEF Max
<1> QED BY <1>6

(* The answer that a read tears or cuts. *)
LEMMA Torn ==
  ASSUME Possible(frames), NEW left \in Nat
  PROVE  /\ TornBy(left) \subseteq 1 .. Len(frames) /\ CutBy(left) \subseteq 1 .. Len(frames)
         /\ \A j \in 1 .. Len(frames) :
              LET w == All(frames)
                  b == Base(frames, j)
                  e == Base(frames, j + 1)
              IN  /\ b \in Nat /\ e \in Nat /\ 16 <= b /\ b < e /\ e <= Len(w)
                  /\ j \in TornBy(left)
                       <=> frames[j] = "cmgs" /\ (Len(w) - left) - b \in {4, 5}
                  /\ j \in CutBy(left) <=> b < Len(w) - left /\ Len(w) - left < e
<1>1. DOMAIN frames = 1 .. Len(frames) /\ Len(frames) \in Nat
  BY DEF Possible
<1>2. ASSUME NEW j \in 1 .. Len(frames)
      PROVE  LET w == All(frames)
                 b == Base(frames, j)
                 e == Base(frames, j + 1)
             IN  /\ b \in Nat /\ e \in Nat /\ 16 <= b /\ b < e /\ e <= Len(w)
                 /\ j \in TornBy(left)
                      <=> frames[j] = "cmgs" /\ (Len(w) - left) - b \in {4, 5}
                 /\ j \in CutBy(left) <=> b < Len(w) - left /\ Len(w) - left < e
  <2>1. PICK t, b, e, s1, s2 :
          /\ t = Len(All(frames)) /\ b = Base(frames, j) /\ e = Base(frames, j + 1)
          /\ s1 = Len(Sent(frames, j)) /\ s2 = Len(Sent(frames, j + 1))
    BY Zenon
  <2>2. /\ 0 \in 0 .. Len(frames) /\ 1 \in 0 .. (Len(frames) + 1) /\ j \in 0 .. (Len(frames) + 1)
        /\ 1 <= j /\ j \in 0 .. Len(frames) /\ Len(frames) + 1 \in 0 .. (Len(frames) + 1)
        /\ j + 1 \in 0 .. (Len(frames) + 1) /\ j + 1 <= Len(frames) + 1
        /\ j # 0 /\ j + 1 # 0 /\ 0 + 1 = 1
    BY <1>1
  <2>3. b \in Nat /\ e \in Nat /\ b + 4 <= e
    BY ONLY <2>1, <2>2, Possible(frames), Grows, Zenon
  <2>4. Base(frames, Len(frames) + 1) = t /\ t \in Nat
    BY <2>1, Layout
  <2>5. e <= t
    BY ONLY <2>1, <2>2, <2>4, Possible(frames), Ordered, Zenon
  <2>6. 16 <= b
    <3>1. Base(frames, 1) <= b
      BY ONLY <2>1, <2>2, Possible(frames), Ordered, Zenon
    <3>2. Base(frames, 0) = 0
      BY Zenon DEF Base
    <3>3. Laid(All(frames), Base(frames, 0), Base(frames, 1), "cmgr", Texts[Number(0)])
      <4>1. Kind(frames, 0) = "cmgr"
        BY Zenon DEF Kind
      <4>. QED BY ONLY <2>2, <4>1, Possible(frames), Lies, Zenon
    <3>4. Base(frames, 1) = 0 + 16
      BY ONLY <3>2, <3>3, Zenon DEF Laid, CmgrAt
    <3>. QED BY <2>3, <3>1, <3>4
  <2>7. s1 = t - b /\ s2 = t - e
    <3>1. b = t - s1 /\ e = t - s2
      BY ONLY <2>1, <2>2, Zenon DEF Base
    <3>2. s1 \in Nat /\ s2 \in Nat
      <4>1. Sent(frames, j) \in Seq(Tokens) /\ Sent(frames, j + 1) \in Seq(Tokens)
        BY SentStep
      <4>. QED BY <2>1, <4>1
    <3>. QED BY <2>4, <3>1, <3>2
  <2>8. j \in TornBy(left) <=> frames[j] = "cmgs" /\ s1 - left \in {4, 5}
    BY ONLY <1>1, <2>1, j \in 1 .. Len(frames), Zenon DEF TornBy
  <2>9. j \in CutBy(left) <=> s1 > left /\ left > s2
    BY ONLY <1>1, <2>1, j \in 1 .. Len(frames), Zenon DEF CutBy
  <2>10. s1 - left = (t - left) - b
    BY <2>3, <2>4, <2>7
  <2>11. (s1 > left <=> b < t - left) /\ (left > s2 <=> t - left < e)
    BY <2>3, <2>4, <2>7
  <2>12. b < e
    BY <2>3
  <2>. QED BY ONLY <2>1, <2>3, <2>5, <2>6, <2>8, <2>9, <2>10, <2>11, <2>12, Zenon
<1>3. TornBy(left) \subseteq 1 .. Len(frames) /\ CutBy(left) \subseteq 1 .. Len(frames)
  BY <1>1 DEF TornBy, CutBy
<1> QED BY ONLY <1>2, <1>3, Zenon

LEMMA Joined ==
  ASSUME NEW T, NEW a \in Seq(T), NEW b \in Seq(T)
  PROVE  /\ a \o b \in Seq(T) /\ Len(a \o b) = Len(a) + Len(b) /\ Len(b) \in Nat
         /\ \A i \in 1 .. Len(a) : (a \o b)[i] = a[i]
         /\ \A i \in 1 .. Len(b) : (a \o b)[Len(a) + i] = b[i]
OBVIOUS

(* At the start. *)
LEMMA InitParts ==
  ASSUME ReadInit
  PROVE  /\ Stream /\ rb.used = 0 /\ Got <= 16 /\ damage \in {-1, 0}
         /\ damage = -1 => Got = 16
<1>1. Possible(frames)
  <2>1. frames \in UNION {[1 .. m -> Kinds] : m \in 0 .. MaxFrames}
    BY DEF ReadInit, SeqOf
  <2>2. PICK m \in 0 .. MaxFrames : frames \in [1 .. m -> Kinds]
    BY <2>1
  <2>3. frames \in Seq(Kinds) /\ Len(frames) <= MaxFrames
    BY <2>2, BoundAssumption
  <2>. QED BY <2>3 DEF ReadInit, Possible
<1>2. PICK n \in Tails : /\ rest = Remainder(n) \o Sent(frames, 1)
                         /\ damage = IF n > 0 THEN 0 ELSE -1
  BY DEF ReadInit
<1>3. PICK f, s, w, g : /\ f = Frame("cmgr", 1) /\ s = Sent(frames, 1) /\ w = All(frames)
                        /\ g = Remainder(n)
  BY Zenon
<1>4. f \in Seq(Tokens) /\ Len(f) = 16
  <2>1. PICK x : x = Texts[1]
    OBVIOUS
  <2>2. f = <<CR, LF, "+", "CMGR:", x, CR, LF, x, CR, LF, CR, LF, "O", "K", CR, LF>>
    BY ONLY <1>3, <2>1, FrameIs, Zenon
  <2>3. Len(f) = 16
    BY ONLY <2>2
  <2>4. "cmgr" \in AllKinds /\ 1 \in 1 .. MaxFrames
    BY BoundAssumption DEF AllKinds
  <2>. QED BY <1>3, <2>3, <2>4, FrameType
<1>5. s \in Seq(Tokens)
  <2>1. w \in Seq(Tokens) /\ Base(frames, Len(frames) + 1) = Len(w)
    BY <1>1, <1>3, Layout
  <2>2. CASE Len(frames) = 0
    <3>1. Sent(frames, Len(frames) + 1) = <<>> /\ Len(frames) + 1 = 1
      BY <1>1, <2>2, SentEnd
    <3>2. <<>> \in Seq(Tokens)
      OBVIOUS
    <3>. QED BY ONLY <1>3, <3>1, <3>2, Zenon
  <2>3. CASE Len(frames) # 0
    <3>1. 1 \in 1 .. Len(frames)
      BY <1>1, <2>3 DEF Possible
    <3>. QED BY ONLY <1>1, <1>3, <3>1, SentStep, Zenon
  <2>. QED BY <2>2, <2>3
<1>6. n \in 0 .. 16
  BY <1>3, <1>4, TailsAssumption
<1>7. g \in Seq(Tokens) /\ Len(g) = n /\ \A i \in 1 .. n : g[i] = f[16 - n + i]
  <2>1. g = SubSeq(f, 16 - n + 1, 16)
    BY ONLY <1>3, <1>4, Zenon DEF Remainder
  <2>2. 16 - n + 1 \in 1 .. 17 /\ n \in Nat /\ n <= 16
    BY <1>6
  <2>3. g \in Seq(Tokens) /\ Len(g) = n
    <3>1. PICK m : m = 16 - n + 1
      OBVIOUS
    <3>2. m \in 1 .. 17 /\ 16 - m + 1 = n
      BY <2>2, <3>1
    <3>3. ASSUME NEW i \in m .. 16 PROVE f[i] \in Tokens
      <4>1. i \in 1 .. Len(f)
        BY <1>4, <3>2
      <4>. QED BY ONLY <1>4, <4>1, ElementOfSeq, Zenon
    <3>4. m \in Int /\ 16 \in Int
      BY <3>2
    <3>5. SubSeq(f, m, 16) \in Seq(Tokens)
      BY <3>3, <3>4, SubSeqProperties
    <3>6. Len(SubSeq(f, m, 16)) = IF m <= 16 THEN 16 - m + 1 ELSE 0
      BY <3>3, <3>4, SubSeqProperties
    <3>7. g = SubSeq(f, m, 16)
      BY ONLY <2>1, <3>1, Zenon
    <3>. QED BY <2>2, <3>2, <3>5, <3>6, <3>7
  <2>4. ASSUME NEW i \in 1 .. n PROVE g[i] = f[16 - n + i]
    <3>1. PICK m, k : m = 16 - n + 1 /\ k = 16 - n + i
      OBVIOUS
    <3>2. m \in 1 .. 17 /\ 16 - m + 1 = n /\ m + i - 1 = k /\ m \in Int /\ 16 \in Int
      BY <2>2, <3>1
    <3>3. \A d \in m .. 16 : f[d] \in Tokens
      <4> SUFFICES ASSUME NEW d \in m .. 16 PROVE f[d] \in Tokens
        OBVIOUS
      <4>1. d \in 1 .. Len(f)
        BY <1>4, <3>2
      <4>. QED BY ONLY <1>4, <4>1, ElementOfSeq, Zenon
    <3>4. PICK h : h = SubSeq(f, m, 16)
      OBVIOUS
    <3>5. h[i] = f[m + i - 1]
      BY ONLY <3>2, <3>3, <3>4, i \in 1 .. n, SubSeqProperties
    <3>. QED BY ONLY <2>1, <3>1, <3>2, <3>4, <3>5, Zenon
  <2>. QED BY <2>3, <2>4
<1>8. /\ rest = g \o s /\ w = f \o s
  BY ONLY <1>2, <1>3, Zenon DEF All
<1>9. /\ rest \in Seq(Tokens) /\ Len(rest) = n + Len(s) /\ Len(s) \in Nat
      /\ \A i \in 1 .. n : rest[i] = g[i]
      /\ \A i \in 1 .. Len(s) : rest[n + i] = s[i]
  <2>1. g \in Seq(Tokens) /\ Len(g) = n /\ n \in Nat
    BY <1>6, <1>7
  <2>2. /\ g \o s \in Seq(Tokens) /\ Len(g \o s) = Len(g) + Len(s) /\ Len(s) \in Nat
        /\ \A i \in 1 .. Len(g) : (g \o s)[i] = g[i]
        /\ \A i \in 1 .. Len(s) : (g \o s)[Len(g) + i] = s[i]
    <3>1. PICK tokens : tokens = Tokens
      OBVIOUS
    <3>2. g \in Seq(tokens) /\ s \in Seq(tokens)
      BY ONLY <1>5, <2>1, <3>1
    <3>. QED BY ONLY <3>1, <3>2, Joined
  <2>. QED BY ONLY <1>8, <2>1, <2>2, Zenon
<1>10. /\ w \in Seq(Tokens) /\ Len(w) = 16 + Len(s)
       /\ \A i \in 1 .. 16 : w[i] = f[i]
       /\ \A i \in 1 .. Len(s) : w[16 + i] = s[i]
  <2>1. /\ f \o s \in Seq(Tokens) /\ Len(f \o s) = Len(f) + Len(s)
        /\ \A i \in 1 .. Len(f) : (f \o s)[i] = f[i]
        /\ \A i \in 1 .. Len(s) : (f \o s)[Len(f) + i] = s[i]
    <3>1. PICK tokens : tokens = Tokens
      OBVIOUS
    <3>2. f \in Seq(tokens) /\ s \in Seq(tokens)
      BY ONLY <1>4, <1>5, <3>1
    <3>. QED BY ONLY <3>1, <3>2, Joined
  <2>. QED BY ONLY <1>4, <1>8, <2>1, Zenon
<1>11. Got = 16 - n
  <2>1. Got = Len(w) - Len(rest)
    BY ONLY <1>3, Zenon DEF Got
  <2>. QED BY <1>6, <1>9, <1>10, <2>1
<1>12. ASSUME NEW i \in 1 .. Len(rest) PROVE rest[i] = w[Got + i]
  <2>1. CASE i \in 1 .. n
    <3>1. 16 - n + i \in 1 .. 16 /\ Got + i = 16 - n + i
      BY <1>6, <1>11, <2>1
    <3>. QED BY ONLY <1>7, <1>9, <1>10, <2>1, <3>1, Zenon
  <2>2. CASE i \notin 1 .. n
    <3>1. PICK j : j = i - n
      OBVIOUS
    <3>2. j \in 1 .. Len(s) /\ i = n + j /\ Got + i = 16 + j
      BY <1>6, <1>9, <1>11, <2>2, <3>1
    <3>. QED BY ONLY <1>9, <1>10, <3>2, Zenon
  <2>. QED BY <2>1, <2>2
<1>13. Ring(rb) /\ rb.used = 0
  <2>1. Size \in Nat /\ Size >= 16 /\ CR \in Tokens
    BY SizeAssumption DEF Tokens, Marks
  <2>2. rb = [buf |-> [i \in 0 .. (Size - 1) |-> CR], used |-> 0, read |-> 0, write |-> 0]
    BY Zenon DEF ReadInit, rb_init
  <2>3. rb.used = 0 /\ rb.read = 0 /\ rb.write = 0
    BY <2>2
  <2>4. Wrap(rb.read + rb.used) = Wrap(rb.write)
    BY <2>3
  <2>5. rb \in RingBuffer
    BY <2>1, <2>2 DEF RingBuffer
  <2>. QED BY <2>3, <2>4, <2>5 DEF Ring
<1>14. Stream
  <2>1. Len(rest) <= Len(w) /\ rb.used <= Got
    BY <1>6, <1>9, <1>10, <1>11, <1>13
  <2>2. \A i \in 0 .. (rb.used - 1) : At(i) = w[Here + i + 1]
    BY <1>13
  <2>. QED BY ONLY <1>1, <1>3, <1>9, <1>12, <1>13, <2>1, <2>2, Zenon DEF Stream
<1>15. damage \in {-1, 0} /\ (damage = -1 => n = 0)
  BY <1>2, <1>6
<1>16. Got <= 16 /\ (n = 0 => Got = 16)
  BY <1>6, <1>11
<1> QED BY <1>13, <1>14, <1>15, <1>16

LEMMA InitFlow ==
  ASSUME ReadInit
  PROVE  Flow
<1>1. Stream /\ rb.used = 0 /\ Got <= 16 /\ damage \in {-1, 0}
  BY InitParts
<1>2. /\ delivered = <<>> /\ read_result = 0 /\ pc = "wait" /\ cut = {}
  BY DEF ReadInit
<1>3. Possible(frames) /\ Len(rest) \in Nat /\ Got = Len(All(frames)) - Len(rest) /\ Got \in Nat
  BY <1>1, StreamParts DEF Got
<1>4. ASSUME NEW j, j \in TornBy(Len(rest)) \/ j \in CutBy(Len(rest)) PROVE FALSE
  <2>1. PICK b, e, g : b = Base(frames, j) /\ e = Base(frames, j + 1) /\ g = Got
    BY Zenon
  <2>2. j \in 1 .. Len(frames)
    BY <1>3, <1>4, Torn
  <2>3. /\ b \in Nat /\ 16 <= b
        /\ j \in TornBy(Len(rest)) <=> frames[j] = "cmgs" /\ g - b \in {4, 5}
        /\ j \in CutBy(Len(rest)) <=> b < g /\ g < e
    BY ONLY <1>3, <2>1, <2>2, Torn, Zenon
  <2>4. ~(g - b \in {4, 5}) /\ ~(b < g)
    BY <1>1, <1>3, <2>1, <2>3
  <2>. QED BY <1>4, <2>3, <2>4
<1>5. <<>> \in Seq(Seq(Tokens)) /\ damage \in -1 .. MaxFrames
  BY <1>1, BoundAssumption
<1> QED BY <1>1, <1>2, <1>4, <1>5 DEF Flow

LEMMA TurnRange ==
  ASSUME NEW w, NEW c, NEW u \in Nat, NEW r, NEW m, NEW r2, NEW p2, NEW l,
         Turn(w, c, u, r, m, r2, p2, l)
  PROVE  m \in 0 .. u /\ l \in 0 .. u /\ r2 \in {0, 1} /\ p2 \in {"parse", "wait"}
<1>1. m \in 0 .. u
  BY Zenon DEF Turn
<1>2. \/ l = 0 \/ (l = 3 /\ u >= 3) \/ (l = 2 /\ u >= 2) \/ l \in 1 .. u
  BY Zenon DEF Turn, TurnBefore, TurnIn, TurnCssi, TurnLines, TurnLine, Pair
<1>3. r2 \in {0, 1} /\ p2 \in {"parse", "wait"}
  BY Zenon DEF Turn, TurnBefore, TurnIn, TurnCssi, TurnLines, TurnLine
<1>4. l \in 0 .. u
  BY <1>2
<1> QED BY <1>1, <1>3, <1>4

LEMMA TextType ==
  ASSUME NEW w \in Seq(Tokens), NEW c \in Nat, NEW l \in Nat, l = 0 \/ c + l - 1 <= Len(w)
  PROVE  Text(w, c, l) \in Seq(Tokens)
<1>1. ASSUME NEW i \in 1 .. (l - 1) PROVE w[c + i] \in Tokens
  <2>1. c + i \in 1 .. Len(w)
    OBVIOUS
  <2>. QED BY ONLY <2>1, w \in Seq(Tokens), ElementOfSeq, Zenon
<1>2. Text(w, c, l) = [i \in 1 .. (l - 1) |-> w[c + i]]
  BY Zenon DEF Text
<1>3. CASE l = 0
  <2>1. 1 .. (l - 1) = 1 .. 0
    BY <1>3
  <2>2. PICK n \in Nat : 1 .. (l - 1) = 1 .. n
    BY <2>1
  <2>. QED BY <1>1, <1>2, <2>2
<1>4. CASE l # 0
  <2>1. l - 1 \in Nat
    BY <1>4
  <2>. QED BY <1>1, <1>2, <2>1
<1> QED BY <1>3, <1>4

LEMMA FlowTurn ==
  ASSUME Flow, NEW m, NEW l, Turned(m, l)
  PROVE  Flow'
<1>1. PICK w, c, u, r, r2, p2 : /\ w = All(frames) /\ c = Here /\ u = rb.used
                                /\ r = read_result /\ r2 = read_result' /\ p2 = pc'
  BY Zenon
<1>2. Turn(w, c, u, r, m, r2, p2, l) /\ Effects(m, l)
  BY ONLY <1>1, Turned(m, l), Zenon DEF Turned
<1>3. /\ u \in Nat /\ c \in Nat /\ w \in Seq(Tokens) /\ Len(w) \in Nat /\ Got <= Len(w)
      /\ Got = c + u /\ Got \in Nat
  <2>1. Stream
    BY DEF Flow
  <2>. QED BY <1>1, <2>1, StreamParts
<1>4. m \in 0 .. u /\ l \in 0 .. u /\ r2 \in {0, 1} /\ p2 \in {"parse", "wait"}
  BY <1>2, <1>3, TurnRange
<1>5. /\ Stream' /\ rb.used' = u - m /\ Here' = c + m /\ Got' = Got
      /\ delivered' = (IF l = 0 THEN delivered ELSE Append(delivered, Text(w, c, l)))
      /\ frames' = frames /\ rest' = rest /\ damage' = damage /\ cut' = cut
  BY ONLY <1>1, <1>2, Zenon DEF Effects
<1>6. delivered' \in Seq(Seq(Tokens))
  <2>1. l \in Nat /\ (l = 0 \/ c + l - 1 <= Len(w))
    BY <1>3, <1>4
  <2>2. Text(w, c, l) \in Seq(Tokens)
    BY <1>3, <2>1, TextType
  <2>3. delivered \in Seq(Seq(Tokens))
    BY DEF Flow
  <2>. QED BY <1>5, <2>2, <2>3
<1>7. /\ damage' \in -1 .. MaxFrames /\ cut' \subseteq DOMAIN frames'
      /\ \A j \in TornBy(Len(rest))' : j <= damage'
      /\ CutBy(Len(rest))' \subseteq cut'
  BY ONLY <1>5, Flow, Zenon DEF Flow, TornBy, CutBy, Sent
<1>8. pc' = "wait" /\ rb.used' > 0 => Awaits(All(frames), Here, rb.used, read_result)'
  <2> SUFFICES ASSUME pc' = "wait" PROVE Awaits(All(frames), Here, rb.used, read_result)'
    OBVIOUS
  <2>1. m = 0 /\ r2 = r /\ Awaits(w, c, u, r)
    BY ONLY <1>1, <1>2, pc' = "wait", WaitTurn, Zenon
  <2>2. Here' = c /\ rb.used' = u
    BY <1>3, <1>5, <2>1
  <2>3. All(frames)' = w
    BY ONLY <1>1, <1>5, Zenon DEF All, Sent
  <2>4. Awaits(All(frames)', Here', rb.used', read_result')
    BY ONLY <1>1, <2>1, <2>2, <2>3, Zenon
  <2>. QED BY ONLY <2>4, Zenon DEF Awaits, Turn, TurnBefore, TurnIn, TurnCssi, TurnLines, TurnLine,
              Pair, BreakAt, OkLineAt, DoubledAt, ListingAt
<1>9. read_result' \in {0, 1} /\ pc' \in {"wait", "parse", "disconnected"} /\ pc' # "disconnected"
  BY <1>1, <1>4
<1> QED BY ONLY <1>5, <1>6, <1>7, <1>8, <1>9, Zenon DEF Flow

LEMMA FlowRead ==
  ASSUME Flow, Read
  PROVE  /\ Flow' /\ pc' = "parse" /\ frames' = frames /\ read_result' = read_result
         /\ delivered' = delivered /\ Here' = Here /\ Got < Got'
         /\ damage <= damage' /\ cut \subseteq cut'
<1>1. PICK n \in 1 .. rb_free :
        /\ n <= Len(rest)
        /\ rb' = rb_write(rb, SubSeq(rest, 1, n))
        /\ rest' = SubSeq(rest, n + 1, Len(rest))
        /\ damage' = Max({damage} \cup TornBy(Len(rest) - n))
        /\ cut' = cut \cup CutBy(Len(rest) - n)
  BY Zenon DEF Read
<1>2. /\ frames' = frames /\ read_result' = read_result /\ delivered' = delivered /\ pc' = "parse"
  BY DEF Read
<1>3. Stream
  BY DEF Flow
<1>4. /\ Stream' /\ rb.used' = rb.used + n /\ Here' = Here /\ Got' = Got + n
      /\ Len(rest') = Len(rest) - n
  BY ONLY <1>1, <1>2, <1>3, StreamReads, Zenon
<1>5. Got \in Nat /\ Len(rest) \in Nat /\ n \in Nat /\ n >= 1 /\ Possible(frames)
  <2>1. rb_free \in Nat
    BY <1>3, StreamParts DEF rb_free
  <2>. QED BY <1>3, <2>1, StreamParts
<1>6. PICK left : left = Len(rest) - n
  OBVIOUS
<1>7. left \in Nat
  BY <1>1, <1>5, <1>6
<1>8. DOMAIN frames = 1 .. Len(frames) /\ Len(frames) \in Nat /\ Len(frames) <= MaxFrames
  BY <1>5 DEF Possible
<1>9. /\ TornBy(left) \subseteq 1 .. Len(frames) /\ CutBy(left) \subseteq 1 .. Len(frames)
  BY <1>5, <1>7, Torn
<1>10. /\ damage' \in -1 .. MaxFrames /\ damage <= damage' /\ \A j \in TornBy(left) : j <= damage'
  <2>1. PICK T : T = {damage} \cup TornBy(left)
    OBVIOUS
  <2>2. damage \in -1 .. MaxFrames /\ MaxFrames \in Nat
    BY BoundAssumption DEF Flow
  <2>3. T \subseteq -1 .. MaxFrames /\ T # {}
    BY <1>8, <1>9, <2>1, <2>2
  <2>4. damage' = Max(T)
    BY ONLY <1>1, <1>6, <2>1, Zenon
  <2>5. damage' \in T /\ \A m \in T : m <= damage'
    BY <2>2, <2>3, <2>4, Largest
  <2>. QED BY <2>1, <2>3, <2>5
<1>11. cut' = cut \cup CutBy(left) /\ cut \subseteq DOMAIN frames
  BY <1>1, <1>6 DEF Flow
<1>12. TornBy(Len(rest))' = TornBy(left) /\ CutBy(Len(rest))' = CutBy(left)
  BY ONLY <1>2, <1>4, <1>6, Zenon DEF TornBy, CutBy, Sent
<1>13. cut' \subseteq DOMAIN frames' /\ CutBy(Len(rest))' \subseteq cut'
  BY <1>2, <1>8, <1>9, <1>11, <1>12
<1>14. Flow'
  <2>1. read_result \in {0, 1} /\ delivered \in Seq(Seq(Tokens))
    BY DEF Flow
  <2>2. pc' # "wait" /\ pc' # "disconnected" /\ pc' \in {"wait", "parse", "disconnected"}
    BY <1>2
  <2>. QED BY ONLY <1>2, <1>4, <1>10, <1>12, <1>13, <2>1, <2>2, Zenon DEF Flow
<1>15. Got < Got'
  BY <1>4, <1>5
<1> QED BY <1>2, <1>4, <1>10, <1>11, <1>14, <1>15

LEMMA StreamSame ==
  ASSUME Stream, frames' = frames, rest' = rest, rb' = rb
  PROVE  Stream' /\ rb.used' = rb.used /\ Here' = Here /\ Got' = Got
<1>1. 0 \in 0 .. rb.used
  BY StreamParts
<1>2. Stream' /\ Here' = Here + 0 /\ Got' = Got /\ Here \in Nat
  BY <1>1, StreamSkips, StreamParts
<1> QED BY <1>2

LEMMA FlowOther ==
  ASSUME Flow, Overflow \/ NothingLeft \/ UNCHANGED readVars
  PROVE  Flow'
<1>1. /\ frames' = frames /\ rest' = rest /\ rb' = rb /\ read_result' = read_result
      /\ delivered' = delivered /\ damage' = damage /\ cut' = cut
  BY Zenon DEF Overflow, NothingLeft, More, readVars
<1>2. Stream' /\ rb.used' = rb.used /\ Here' = Here /\ Got' = Got
  BY <1>1, StreamSame DEF Flow
<1>3. /\ delivered' \in Seq(Seq(Tokens)) /\ read_result' \in {0, 1}
      /\ damage' \in -1 .. MaxFrames /\ cut' \subseteq DOMAIN frames'
      /\ \A j \in TornBy(Len(rest))' : j <= damage'
      /\ CutBy(Len(rest))' \subseteq cut'
  BY ONLY <1>1, Flow, Zenon DEF Flow, TornBy, CutBy, Sent
<1>4. Awaits(All(frames), Here, rb.used, read_result)'
        <=> Awaits(All(frames), Here, rb.used, read_result)
  <2>1. All(frames)' = All(frames)
    BY ONLY <1>1, Zenon DEF All, Sent
  <2>2. Awaits(All(frames)', Here', rb.used', read_result')
          <=> Awaits(All(frames), Here, rb.used, read_result)
    BY ONLY <1>1, <1>2, <2>1, Zenon
  <2>. QED BY ONLY <2>2, Zenon DEF Awaits, Turn, TurnBefore, TurnIn, TurnCssi, TurnLines, TurnLine,
              Pair, BreakAt, OkLineAt, DoubledAt, ListingAt
<1>5. CASE Overflow
  <2>1. pc = "wait" /\ pc' = "disconnected" /\ rb_free = 0
    BY <1>5 DEF Overflow
  <2>2. Stream
    BY DEF Flow
  <2>3. PICK w, t, c, u, r : /\ w = All(frames) /\ t = Len(All(frames)) /\ c = Here /\ u = rb.used
                             /\ r = read_result
    BY Zenon
  <2>4. /\ Size \in Nat /\ Size >= 16 /\ u \in Nat /\ c \in Nat /\ Got <= t /\ Got = c + u
        /\ t \in Nat
        /\ Possible(frames)
    BY <2>2, <2>3, StreamParts
  <2>5. u >= 16 /\ c + u <= t /\ c < t
    BY <2>1, <2>3, <2>4 DEF rb_free
  <2>6. Awaits(w, c, u, r)
    <3>1. rb.used > 0
      BY <2>3, <2>4, <2>5
    <3>. QED BY ONLY <2>1, <2>3, <3>1, Flow, Zenon DEF Flow
  <2>7. PICK k \in 0 .. Len(frames) : Base(frames, k) <= c /\ c < Base(frames, k + 1)
    BY ONLY <2>3, <2>4, <2>5, Located, Zenon
  <2>8. PICK b, e, kind, x : /\ b = Base(frames, k) /\ e = Base(frames, k + 1)
                             /\ kind = Kind(frames, k) /\ x = Texts[Number(k)]
    BY Zenon
  <2>9. Cell(w, t, b, e, kind, x)
    BY ONLY <2>3, <2>4, <2>8, k \in 0 .. Len(frames), Cells, Zenon
  <2>10. kind = "long"
    <3>1. b <= c /\ c < e
      BY ONLY <2>7, <2>8
    <3>. QED BY ONLY <2>4, <2>5, <2>6, <2>9, <3>1, Full
  <2>11. k # 0 /\ frames[k] = "long" /\ k \in DOMAIN frames
    <3>1. k # 0 /\ frames[k] = "long"
      BY <2>8, <2>10 DEF Kind
    <3>. QED BY <2>4, <3>1 DEF Possible
  <2>12. \E j \in DOMAIN frames' : frames'[j] = "long"
    BY ONLY <1>1, <2>11, Zenon
  <2>13. pc' # "wait" /\ pc' \in {"wait", "parse", "disconnected"}
    BY <2>1
  <2>. QED BY ONLY <1>2, <1>3, <2>12, <2>13, Zenon DEF Flow
<1>6. CASE NothingLeft
  <2>1. rb.used = 0 /\ pc' = "wait"
    BY <1>6 DEF NothingLeft, More
  <2>2. ~(rb.used' > 0) /\ pc' # "disconnected" /\ pc' \in {"wait", "parse", "disconnected"}
    BY <1>2, <2>1
  <2>. QED BY ONLY <1>2, <1>3, <2>2, Zenon DEF Flow
<1>7. CASE UNCHANGED readVars
  <2>1. pc' = pc
    BY <1>7 DEF readVars
  <2>. QED BY ONLY <1>1, <1>2, <1>3, <1>4, <2>1, Flow, Zenon DEF Flow
<1> QED BY <1>5, <1>6, <1>7

-----------------------------------------------------------------------------
(* The turns of the parser at the bytes it may meet.                        *)

(* Less than need bytes make the thread wait for more; else m0 bytes are    *)
(* taken, l0 - 1 of them are delivered, and read_result becomes r0.         *)
Goes(u, r, m, r2, p2, l, need, m0, r0, l0) ==
  \/ u >= need /\ m = m0 /\ r2 = r0 /\ p2 = "parse" /\ l = l0
  \/ u < need /\ m = 0 /\ r2 = r /\ p2 = "wait" /\ l = 0

(* A line break opens a result, *)
LEMMA AtBreak ==
  ASSUME NEW w, NEW c \in Nat, NEW u \in Nat, NEW m, NEW r2, NEW p2, NEW l,
         Turn(w, c, u, 0, m, r2, p2, l), w[c + 1] = CR, w[c + 2] = LF
  PROVE  Goes(u, 0, m, r2, p2, l, 2, 2, 1, 0)
<1>1. TurnBefore(w, c, u, m, r2, p2, l)
  BY DEF Turn
<1>2. Pair(w, c, u, CR, LF) <=> u >= 2
  BY DEF Pair
<1>3. u < 2 <=> ~(u >= 2)
  OBVIOUS
<1> QED BY ONLY <1>1, <1>2, <1>3, Zenon DEF TurnBefore, Goes

(* a line feed is passed over, *)
LEMMA AtFeed ==
  ASSUME NEW w, NEW c \in Nat, NEW u \in Nat, NEW m, NEW r2, NEW p2, NEW l,
         Turn(w, c, u, 0, m, r2, p2, l), w[c + 1] = LF
  PROVE  Goes(u, 0, m, r2, p2, l, 2, 1, 0, 0)
<1>1. TurnBefore(w, c, u, m, r2, p2, l)
  BY DEF Turn
<1>2. ~Pair(w, c, u, CR, LF)
  BY DEF Pair, CR, LF
<1>3. ~(u < 2) => u >= 2
  OBVIOUS
<1> QED BY ONLY <1>1, <1>2, <1>3, w[c + 1] = LF, Zenon DEF TurnBefore, Goes

(* other bytes as far as the next carriage return, *)
LEMMA AtOther ==
  ASSUME NEW w, NEW c \in Nat, NEW u \in Nat, NEW m, NEW r2, NEW p2, NEW l,
         Turn(w, c, u, 0, m, r2, p2, l), NEW d \in Nat, d >= 1, u > d, w[c + 1] # LF,
         w[c + (d + 1)] = CR, \A q \in 1 .. d : w[c + q] # CR
  PROVE  Goes(u, 0, m, r2, p2, l, d + 1, d + 1, 0, 0)
<1>1. TurnBefore(w, c, u, m, r2, p2, l)
  BY DEF Turn
<1>2. ~Pair(w, c, u, CR, LF) /\ ~(u < 2)
  <2>1. 1 \in 1 .. d
    OBVIOUS
  <2>. QED BY <2>1 DEF Pair
<1>3. /\ r2 = 0 /\ p2 = "parse" /\ l = 0 /\ m \in 1 .. u /\ (w[c + m] = CR \/ m = u)
      /\ \A q \in 1 .. (m - 1) : w[c + q] # CR
  BY ONLY <1>1, <1>2, w[c + 1] # LF, Zenon DEF TurnBefore
<1>4. ~(m > d + 1)
  <2> SUFFICES ASSUME m > d + 1 PROVE FALSE
    OBVIOUS
  <2>1. d + 1 \in 1 .. (m - 1)
    BY <1>3
  <2>. QED BY ONLY <1>3, <2>1, w[c + (d + 1)] = CR, Zenon
<1>5. ~(m < d + 1)
  <2> SUFFICES ASSUME m < d + 1 PROVE FALSE
    OBVIOUS
  <2>1. m \in 1 .. d /\ m # u
    BY <1>3
  <2>. QED BY ONLY <1>3, <2>1, \A q \in 1 .. d : w[c + q] # CR, Zenon
<1> QED BY <1>3, <1>4, <1>5 DEF Goes

(* a line is taken with its line break, *)
LEMMA AtLine ==
  ASSUME NEW w, NEW c \in Nat, NEW u \in Nat, NEW m, NEW r2, NEW p2, NEW l,
         Turn(w, c, u, 1, m, r2, p2, l), NEW d \in Nat,
         w[c + d + 1] = CR, w[c + d + 2] = LF, \A q \in 0 .. (d - 1) : w[c + q + 1] # CR,
         ~Pair(w, c, u, "+", "CSSI:"), ~DoubledAt(w, c, u), ~Pair(w, c, u, ">", Space),
         ~ListingAt(w, c, u)
  PROVE  Goes(u, 1, m, r2, p2, l, d + 2, d + 2, 0, d + 1)
<1>1. TurnLine(w, c, u, m, r2, p2, l)
  <2>1. TurnIn(w, c, u, m, r2, p2, l)
    BY DEF Turn
  <2>. QED BY <2>1, Zenon DEF TurnIn, TurnCssi, TurnLines
<1>2. u >= d + 2 => BreakAt(w, c, u, d)
  BY DEF BreakAt
<1>3. \A q \in 0 .. (d - 1) : ~BreakAt(w, c, u, q)
  BY DEF BreakAt
<1>4. CASE /\ r2 = 0 /\ p2 = "parse" /\ l \in 1 .. u /\ m = l + 1 /\ BreakAt(w, c, u, l - 1)
           /\ \A q \in 0 .. (l - 2) : ~BreakAt(w, c, u, q)
  <2>1. u >= l + 1
    BY <1>4 DEF BreakAt
  <2>2. ~(l - 1 < d)
    <3> SUFFICES ASSUME l - 1 < d PROVE FALSE
      OBVIOUS
    <3>1. l - 1 \in 0 .. (d - 1)
      BY <1>4
    <3>. QED BY <1>3, <1>4, <3>1
  <2>3. ~(l - 1 > d)
    <3> SUFFICES ASSUME l - 1 > d PROVE FALSE
      OBVIOUS
    <3>1. d \in 0 .. (l - 2) /\ u >= d + 2
      BY <1>4, <2>1
    <3>. QED BY <1>2, <1>4, <3>1
  <2>. QED BY <1>4, <2>1, <2>2, <2>3 DEF Goes
<1>5. CASE /\ m = 0 /\ r2 = 1 /\ p2 = "wait" /\ l = 0
           /\ \A q \in 0 .. u : ~BreakAt(w, c, u, q)
  <2>1. u < d + 2
    <3> SUFFICES ASSUME ~(u < d + 2) PROVE FALSE
      OBVIOUS
    <3>1. d \in 0 .. u /\ u >= d + 2
      OBVIOUS
    <3>. QED BY <1>2, <1>5, <3>1
  <2>. QED BY <1>5, <2>1 DEF Goes
<1> QED BY ONLY <1>1, <1>4, <1>5, Zenon DEF TurnLine

(* and a list with the OK behind it. *)
LEMMA AtList ==
  ASSUME NEW w, NEW c \in Nat, NEW u \in Nat, NEW m, NEW r2, NEW p2, NEW l,
         Turn(w, c, u, 1, m, r2, p2, l), NEW d \in Nat, u >= 2,
         w[c + 1] = "+", w[c + 2] \in {"CMGR:", "CLCC:"},
         \A v \in Nat : v >= d + 7 => OkLineAt(w, c, v, d),
         \A q \in 0 .. (d - 1) : ~OkLineAt(w, c, u, q)
  PROVE  Goes(u, 1, m, r2, p2, l, d + 7, IF w[c + 2] = "CMGR:" THEN d + 7 ELSE d + 1, 0, d)
<1>1. TurnLines(w, c, u, m, r2, p2, l)
  <2>1. w[c + 2] # "CSSI:" /\ w[c + 1] # CR /\ w[c + 1] # ">"
    BY DEF CR
  <2>2. ListingAt(w, c, u)
    BY DEF ListingAt
  <2>3. TurnIn(w, c, u, m, r2, p2, l)
    BY DEF Turn
  <2>. QED BY ONLY <2>1, <2>2, <2>3, Zenon DEF TurnIn, TurnCssi, TurnLine, Pair, DoubledAt
<1>2. CASE /\ r2 = 0 /\ p2 = "parse" /\ l \in 1 .. u /\ OkLineAt(w, c, u, l)
           /\ \A q \in 0 .. (l - 1) : ~OkLineAt(w, c, u, q)
           /\ m = IF w[c + 2] = "CMGR:" THEN l + 7 ELSE l + 1
  <2>1. u >= l + 7
    BY <1>2 DEF OkLineAt
  <2>2. ~(l < d)
    <3> SUFFICES ASSUME l < d PROVE FALSE
      OBVIOUS
    <3>1. l \in 0 .. (d - 1)
      BY <1>2
    <3>. QED BY <1>2, <3>1
  <2>3. ~(l > d)
    <3> SUFFICES ASSUME l > d PROVE FALSE
      OBVIOUS
    <3>1. d \in 0 .. (l - 1) /\ u >= d + 7
      BY <1>2, <2>1
    <3>. QED BY <1>2, <3>1
  <2>4. l = d
    BY <1>2, <2>2, <2>3
  <2>. QED BY <1>2, <2>1, <2>4 DEF Goes
<1>3. CASE /\ m = 0 /\ r2 = 1 /\ p2 = "wait" /\ l = 0
           /\ \A q \in 0 .. u : ~OkLineAt(w, c, u, q)
  <2>1. u < d + 7
    <3> SUFFICES ASSUME ~(u < d + 7) PROVE FALSE
      OBVIOUS
    <3>1. d \in 0 .. u /\ u >= d + 7
      OBVIOUS
    <3>. QED BY <1>3, <3>1
  <2>. QED BY <1>3, <2>1 DEF Goes
<1> QED BY ONLY <1>1, <1>2, <1>3, Zenon DEF TurnLines

LEMMA AtOne ==
  ASSUME NEW w, NEW c \in Nat, NEW u \in Nat, NEW m, NEW r2, NEW p2, NEW l,
         Turn(w, c, u, 1, m, r2, p2, l), u < 2
  PROVE  m = 0 /\ r2 = 1 /\ p2 = "wait" /\ l = 0
<1>1. TurnIn(w, c, u, m, r2, p2, l)
  BY DEF Turn
<1>2. ~(u >= 2) /\ ~(u >= 4) /\ \A o \in 1 .. u : ~(o - 1 + 2 <= u)
  OBVIOUS
<1>3. TurnLine(w, c, u, m, r2, p2, l)
  BY ONLY <1>1, <1>2, Zenon DEF TurnIn, TurnCssi, TurnLines, Pair, DoubledAt, ListingAt
<1>4. \A o \in 1 .. u : ~BreakAt(w, c, u, o - 1)
  BY ONLY <1>2, Zenon DEF BreakAt
<1> QED BY ONLY <1>3, <1>4, Zenon DEF TurnLine

LEMMA OkTurns ==
  ASSUME NEW w, NEW b \in Nat, NEW e, NEW x, x \notin Marks, OkAt(w, b, e, x),
         NEW c \in Nat, NEW u \in Nat, NEW r, NEW m, NEW r2, NEW p2, NEW l,
         Turn(w, c, u, r, m, r2, p2, l)
  PROVE  /\ c = b + 2 /\ r = 1 => Goes(u, r, m, r2, p2, l, 4, 4, 0, 3)
         /\ c = b /\ r = 1 => Goes(u, r, m, r2, p2, l, 2, 2, 0, 1)
         /\ c = b + 2 /\ r = 0 /\ u >= 3 => Goes(u, r, m, r2, p2, l, 3, 3, 0, 0)
         /\ c = b + 5 /\ r = 0 => Goes(u, r, m, r2, p2, l, 2, 1, 0, 0)
<1>1. /\ x # CR /\ x # LF /\ x # "+" /\ x # ">"
      /\ CR # LF /\ CR # "+" /\ CR # ">" /\ LF # "+" /\ LF # ">" /\ LF # "O" /\ CR # "O"
      /\ CR # "K"
      /\ Space # CR /\ Space # LF
  BY DEF Marks, CR, LF, Space
<1>2. ASSUME c = b + 2, r = 1
      PROVE  Goes(u, r, m, r2, p2, l, 4, 4, 0, 3)
  <2>1. /\ w[c + 1] = "O" /\ w[c + 2] = "K" /\ w[c + 3] = CR /\ w[c + 4] = LF
    BY <1>2 DEF OkAt
  <2>2. Turn(w, c, u, 1, m, r2, p2, l)
    BY <1>2
  <2>3. PICK d : d = 2
    OBVIOUS
  <2>4. ASSUME NEW q \in 0 .. (d - 1) PROVE w[c + q + 1] # CR
    <3>1. CASE q = 0
      BY <1>1, <2>1, <3>1 DEF CR
    <3>2. CASE q = 1
      BY <1>1, <2>1, <3>2 DEF CR
    <3>. QED BY <2>3, <3>1, <3>2
  <2>5. /\ ~Pair(w, c, u, "+", "CSSI:") /\ ~DoubledAt(w, c, u)
        /\ ~Pair(w, c, u, ">", Space) /\ ~ListingAt(w, c, u)
    BY <1>1, <2>1 DEF Pair, DoubledAt, ListingAt
  <2>6. w[c + d + 1] = CR /\ w[c + d + 2] = LF /\ d \in Nat
    BY <2>1, <2>3
  <2>7. Goes(u, 1, m, r2, p2, l, d + 2, d + 2, 0, d + 1)
    BY ONLY <2>2, <2>4, <2>5, <2>6, c \in Nat, u \in Nat, AtLine
  <2>. QED BY <1>2, <2>3, <2>7
<1>3. ASSUME c = b, r = 1
      PROVE  Goes(u, r, m, r2, p2, l, 2, 2, 0, 1)
  <2>1. /\ w[c + 1] = CR /\ w[c + 2] = LF /\ w[c + 3] = "O" /\ w[c + 4] = "K"
        /\ w[c + 5] = CR /\ w[c + 6] = LF
    BY <1>3 DEF OkAt
  <2>2. Turn(w, c, u, 1, m, r2, p2, l)
    BY <1>3
  <2>3. PICK d : d = 0
    OBVIOUS
  <2>4. ASSUME NEW q \in 0 .. (d - 1) PROVE w[c + q + 1] # CR
    BY <2>3
  <2>5. /\ ~Pair(w, c, u, "+", "CSSI:") /\ ~DoubledAt(w, c, u)
        /\ ~Pair(w, c, u, ">", Space) /\ ~ListingAt(w, c, u)
    BY <1>1, <2>1 DEF Pair, DoubledAt, ListingAt
  <2>6. w[c + d + 1] = CR /\ w[c + d + 2] = LF /\ d \in Nat
    BY <2>1, <2>3
  <2>7. Goes(u, 1, m, r2, p2, l, d + 2, d + 2, 0, d + 1)
    BY ONLY <2>2, <2>4, <2>5, <2>6, c \in Nat, u \in Nat, AtLine
  <2>. QED BY <1>3, <2>3, <2>7
<1>4. ASSUME c = b + 2, r = 0, u >= 3
      PROVE  Goes(u, r, m, r2, p2, l, 3, 3, 0, 0)
  <2>1. /\ w[c + 1] = "O" /\ w[c + 2] = "K" /\ w[c + 3] = CR /\ w[c + 4] = LF
    BY <1>4 DEF OkAt
  <2>2. Turn(w, c, u, 0, m, r2, p2, l)
    BY <1>4
  <2>3. PICK d : d = 2
    OBVIOUS
  <2>4. ASSUME NEW q \in 1 .. d PROVE w[c + q] # CR
    <3>1. CASE q = 1
      BY <1>1, <2>1, <3>1 DEF CR
    <3>2. CASE q = 2
      BY <1>1, <2>1, <3>2 DEF CR
    <3>. QED BY <2>3, <3>1, <3>2
  <2>5. d \in Nat /\ d >= 1 /\ u > d /\ w[c + 1] # LF /\ w[c + (d + 1)] = CR
    BY <1>1, <1>4, <2>1, <2>3
  <2>6. Goes(u, 0, m, r2, p2, l, d + 1, d + 1, 0, 0)
    BY ONLY <2>2, <2>4, <2>5, c \in Nat, u \in Nat, AtOther
  <2>. QED BY <1>4, <2>3, <2>6
<1>5. ASSUME c = b + 5, r = 0
      PROVE  Goes(u, r, m, r2, p2, l, 2, 1, 0, 0)
  <2>1. /\ w[c + 1] = LF
    BY <1>5 DEF OkAt
  <2>2. Turn(w, c, u, 0, m, r2, p2, l)
    BY <1>5
  <2>. QED BY <1>5, <2>1, <2>2, AtFeed
<1> QED BY <1>2, <1>3, <1>4, <1>5

LEMMA CregTurns ==
  ASSUME NEW w, NEW b \in Nat, NEW e, NEW x, x \notin Marks, CregAt(w, b, e, x),
         NEW c \in Nat, NEW u \in Nat, NEW r, NEW m, NEW r2, NEW p2, NEW l,
         Turn(w, c, u, r, m, r2, p2, l)
  PROVE  /\ c = b + 2 /\ r = 1 => Goes(u, r, m, r2, p2, l, 5, 5, 0, 4)
         /\ c = b /\ r = 1 => Goes(u, r, m, r2, p2, l, 2, 2, 0, 1)
         /\ c = b + 2 /\ r = 0 /\ u >= 4 => Goes(u, r, m, r2, p2, l, 4, 4, 0, 0)
         /\ c = b + 6 /\ r = 0 => Goes(u, r, m, r2, p2, l, 2, 1, 0, 0)
<1>1. /\ x # CR /\ x # LF /\ x # "+" /\ x # ">"
      /\ CR # LF /\ CR # "+" /\ CR # ">" /\ LF # "+" /\ LF # ">" /\ LF # "O" /\ CR # "O"
      /\ CR # "K"
      /\ Space # CR /\ Space # LF
  BY DEF Marks, CR, LF, Space
<1>2. ASSUME c = b + 2, r = 1
      PROVE  Goes(u, r, m, r2, p2, l, 5, 5, 0, 4)
  <2>1. /\ w[c + 1] = "+" /\ w[c + 2] = "CREG:" /\ w[c + 3] = x /\ w[c + 4] = CR
        /\ w[c + 5] = LF
    BY <1>2 DEF CregAt
  <2>2. Turn(w, c, u, 1, m, r2, p2, l)
    BY <1>2
  <2>3. PICK d : d = 3
    OBVIOUS
  <2>4. ASSUME NEW q \in 0 .. (d - 1) PROVE w[c + q + 1] # CR
    <3>1. CASE q = 0
      BY <1>1, <2>1, <3>1 DEF CR
    <3>2. CASE q = 1
      BY <1>1, <2>1, <3>2 DEF CR
    <3>3. CASE q = 2
      BY <1>1, <2>1, <3>3 DEF CR
    <3>. QED BY <2>3, <3>1, <3>2, <3>3
  <2>5. /\ ~Pair(w, c, u, "+", "CSSI:") /\ ~DoubledAt(w, c, u)
        /\ ~Pair(w, c, u, ">", Space) /\ ~ListingAt(w, c, u)
    BY <1>1, <2>1 DEF Pair, DoubledAt, ListingAt
  <2>6. w[c + d + 1] = CR /\ w[c + d + 2] = LF /\ d \in Nat
    BY <2>1, <2>3
  <2>7. Goes(u, 1, m, r2, p2, l, d + 2, d + 2, 0, d + 1)
    BY ONLY <2>2, <2>4, <2>5, <2>6, c \in Nat, u \in Nat, AtLine
  <2>. QED BY <1>2, <2>3, <2>7
<1>3. ASSUME c = b, r = 1
      PROVE  Goes(u, r, m, r2, p2, l, 2, 2, 0, 1)
  <2>1. /\ w[c + 1] = CR /\ w[c + 2] = LF /\ w[c + 3] = "+" /\ w[c + 4] = "CREG:"
        /\ w[c + 5] = x /\ w[c + 6] = CR /\ w[c + 7] = LF
    BY <1>3 DEF CregAt
  <2>2. Turn(w, c, u, 1, m, r2, p2, l)
    BY <1>3
  <2>3. PICK d : d = 0
    OBVIOUS
  <2>4. ASSUME NEW q \in 0 .. (d - 1) PROVE w[c + q + 1] # CR
    BY <2>3
  <2>5. /\ ~Pair(w, c, u, "+", "CSSI:") /\ ~DoubledAt(w, c, u)
        /\ ~Pair(w, c, u, ">", Space) /\ ~ListingAt(w, c, u)
    BY <1>1, <2>1 DEF Pair, DoubledAt, ListingAt
  <2>6. w[c + d + 1] = CR /\ w[c + d + 2] = LF /\ d \in Nat
    BY <2>1, <2>3
  <2>7. Goes(u, 1, m, r2, p2, l, d + 2, d + 2, 0, d + 1)
    BY ONLY <2>2, <2>4, <2>5, <2>6, c \in Nat, u \in Nat, AtLine
  <2>. QED BY <1>3, <2>3, <2>7
<1>4. ASSUME c = b + 2, r = 0, u >= 4
      PROVE  Goes(u, r, m, r2, p2, l, 4, 4, 0, 0)
  <2>1. /\ w[c + 1] = "+" /\ w[c + 2] = "CREG:" /\ w[c + 3] = x /\ w[c + 4] = CR
        /\ w[c + 5] = LF
    BY <1>4 DEF CregAt
  <2>2. Turn(w, c, u, 0, m, r2, p2, l)
    BY <1>4
  <2>3. PICK d : d = 3
    OBVIOUS
  <2>4. ASSUME NEW q \in 1 .. d PROVE w[c + q] # CR
    <3>1. CASE q = 1
      BY <1>1, <2>1, <3>1 DEF CR
    <3>2. CASE q = 2
      BY <1>1, <2>1, <3>2 DEF CR
    <3>3. CASE q = 3
      BY <1>1, <2>1, <3>3 DEF CR
    <3>. QED BY <2>3, <3>1, <3>2, <3>3
  <2>5. d \in Nat /\ d >= 1 /\ u > d /\ w[c + 1] # LF /\ w[c + (d + 1)] = CR
    BY <1>1, <1>4, <2>1, <2>3
  <2>6. Goes(u, 0, m, r2, p2, l, d + 1, d + 1, 0, 0)
    BY ONLY <2>2, <2>4, <2>5, c \in Nat, u \in Nat, AtOther
  <2>. QED BY <1>4, <2>3, <2>6
<1>5. ASSUME c = b + 6, r = 0
      PROVE  Goes(u, r, m, r2, p2, l, 2, 1, 0, 0)
  <2>1. /\ w[c + 1] = LF
    BY <1>5 DEF CregAt
  <2>2. Turn(w, c, u, 0, m, r2, p2, l)
    BY <1>5
  <2>. QED BY <1>5, <2>1, <2>2, AtFeed
<1> QED BY <1>2, <1>3, <1>4, <1>5

LEMMA PromptTurns ==
  ASSUME NEW w, NEW b \in Nat, NEW e, NEW x, x \notin Marks, PromptAt(w, b, e, x),
         NEW c \in Nat, NEW u \in Nat, NEW r, NEW m, NEW r2, NEW p2, NEW l,
         Turn(w, c, u, r, m, r2, p2, l)
  PROVE  /\ c = b + 2 /\ r = 1 => Goes(u, r, m, r2, p2, l, 2, 2, 0, 2)
<1>1. /\ x # CR /\ x # LF /\ x # "+" /\ x # ">"
      /\ CR # LF /\ CR # "+" /\ CR # ">" /\ LF # "+" /\ LF # ">" /\ LF # "O" /\ CR # "O"
      /\ CR # "K"
      /\ Space # CR /\ Space # LF
  BY DEF Marks, CR, LF, Space
<1>2. ASSUME c = b + 2, r = 1
      PROVE  Goes(u, r, m, r2, p2, l, 2, 2, 0, 2)
  <2>1. /\ w[c + 1] = ">" /\ w[c + 2] = Space
    BY <1>2 DEF PromptAt
  <2>2. Turn(w, c, u, 1, m, r2, p2, l)
    BY <1>2
  <2>3. CASE u >= 2
    <3>1. Pair(w, c, u, ">", Space)
      BY <2>1, <2>3 DEF Pair
    <3>2. TurnIn(w, c, u, m, r2, p2, l)
      BY <2>2 DEF Turn
    <3>3. m = 2 /\ r2 = 0 /\ p2 = "parse" /\ l = 2
      <4>1. w[c + 1] # "+" /\ w[c + 1] # CR
        BY <1>1, <2>1
      <4>. QED BY ONLY <3>1, <3>2, <4>1, Zenon
               DEF TurnIn, TurnCssi, TurnLines, TurnLine, Pair, DoubledAt, ListingAt
    <3>. QED BY <1>2, <2>3, <3>3 DEF Goes
  <2>4. CASE ~(u >= 2)
    <3>1. m = 0 /\ r2 = 1 /\ p2 = "wait" /\ l = 0
      BY <2>2, <2>4, AtOne
    <3>. QED BY <1>2, <2>4, <3>1 DEF Goes
  <2>. QED BY <2>3, <2>4
<1> QED BY <1>2

LEMMA CmgrTurns ==
  ASSUME NEW w, NEW b \in Nat, NEW e, NEW x, x \notin Marks, CmgrAt(w, b, e, x),
         NEW c \in Nat, NEW u \in Nat, NEW r, NEW m, NEW r2, NEW p2, NEW l,
         Turn(w, c, u, r, m, r2, p2, l)
  PROVE  /\ c = b + 2 /\ r = 1 => Goes(u, r, m, r2, p2, l, 14, 14, 0, 7)
         /\ c = b /\ r = 1 => Goes(u, r, m, r2, p2, l, 2, 2, 0, 1)
         /\ c = b + 2 /\ r = 0 /\ u >= 4 => Goes(u, r, m, r2, p2, l, 4, 4, 0, 0)
         /\ c = b + 6 /\ r = 0 => Goes(u, r, m, r2, p2, l, 2, 1, 0, 0)
         /\ c = b + 7 /\ r = 0 /\ u >= 2 => Goes(u, r, m, r2, p2, l, 2, 2, 0, 0)
         /\ c = b + 9 /\ r = 0 => Goes(u, r, m, r2, p2, l, 2, 1, 0, 0)
         /\ c = b + 10 /\ r = 0 => Goes(u, r, m, r2, p2, l, 2, 2, 1, 0)
         /\ c = b + 12 /\ r = 1 => Goes(u, r, m, r2, p2, l, 4, 4, 0, 3)
<1>1. /\ x # CR /\ x # LF /\ x # "+" /\ x # ">"
      /\ CR # LF /\ CR # "+" /\ CR # ">" /\ LF # "+" /\ LF # ">" /\ LF # "O" /\ CR # "O"
      /\ CR # "K"
      /\ Space # CR /\ Space # LF
  BY DEF Marks, CR, LF, Space
<1>2. ASSUME c = b + 2, r = 1
      PROVE  Goes(u, r, m, r2, p2, l, 14, 14, 0, 7)
  <2>1. /\ w[c + 1] = "+" /\ w[c + 2] = "CMGR:" /\ w[c + 3] = x /\ w[c + 4] = CR
        /\ w[c + 5] = LF /\ w[c + 6] = x /\ w[c + 7] = CR /\ w[c + 8] = LF
        /\ w[c + 9] = CR /\ w[c + 10] = LF /\ w[c + 11] = "O" /\ w[c + 12] = "K"
        /\ w[c + 13] = CR /\ w[c + 14] = LF
    BY <1>2 DEF CmgrAt
  <2>2. Turn(w, c, u, 1, m, r2, p2, l)
    BY <1>2
  <2>3. CASE u >= 2
    <3>1. PICK d : d = 7
      OBVIOUS
    <3>2. ASSUME NEW v \in Nat, v >= d + 7 PROVE OkLineAt(w, c, v, d)
      BY <2>1, <3>1, <3>2 DEF OkLineAt
    <3>3. ASSUME NEW q \in 0 .. (d - 1) PROVE ~OkLineAt(w, c, u, q)
      <4>1. q = 0 \/ q = 1 \/ q = 2 \/ q = 3 \/ q = 4 \/ q = 5 \/ q = 6
        BY <3>1
      <4>. QED BY <1>1, <2>1, <4>1 DEF OkLineAt
    <3>4. d \in Nat /\ w[c + 1] = "+" /\ w[c + 2] \in {"CMGR:", "CLCC:"}
      BY <2>1, <3>1
    <3>5. Goes(u, 1, m, r2, p2, l, d + 7, IF w[c + 2] = "CMGR:" THEN d + 7 ELSE d + 1, 0, d)
      BY ONLY <2>2, <2>3, <3>2, <3>3, <3>4, c \in Nat, u \in Nat, AtList
    <3>. QED BY <1>2, <2>1, <3>1, <3>5
  <2>4. CASE ~(u >= 2)
    <3>1. m = 0 /\ r2 = 1 /\ p2 = "wait" /\ l = 0
      BY <2>2, <2>4, AtOne
    <3>. QED BY <1>2, <2>4, <3>1 DEF Goes
  <2>. QED BY <2>3, <2>4
<1>3. ASSUME c = b, r = 1
      PROVE  Goes(u, r, m, r2, p2, l, 2, 2, 0, 1)
  <2>1. /\ w[c + 1] = CR /\ w[c + 2] = LF /\ w[c + 3] = "+" /\ w[c + 4] = "CMGR:"
        /\ w[c + 5] = x /\ w[c + 6] = CR /\ w[c + 7] = LF /\ w[c + 8] = x
        /\ w[c + 9] = CR /\ w[c + 10] = LF /\ w[c + 11] = CR /\ w[c + 12] = LF
        /\ w[c + 13] = "O" /\ w[c + 14] = "K" /\ w[c + 15] = CR /\ w[c + 16] = LF
    BY <1>3 DEF CmgrAt
  <2>2. Turn(w, c, u, 1, m, r2, p2, l)
    BY <1>3
  <2>3. PICK d : d = 0
    OBVIOUS
  <2>4. ASSUME NEW q \in 0 .. (d - 1) PROVE w[c + q + 1] # CR
    BY <2>3
  <2>5. /\ ~Pair(w, c, u, "+", "CSSI:") /\ ~DoubledAt(w, c, u)
        /\ ~Pair(w, c, u, ">", Space) /\ ~ListingAt(w, c, u)
    BY <1>1, <2>1 DEF Pair, DoubledAt, ListingAt
  <2>6. w[c + d + 1] = CR /\ w[c + d + 2] = LF /\ d \in Nat
    BY <2>1, <2>3
  <2>7. Goes(u, 1, m, r2, p2, l, d + 2, d + 2, 0, d + 1)
    BY ONLY <2>2, <2>4, <2>5, <2>6, c \in Nat, u \in Nat, AtLine
  <2>. QED BY <1>3, <2>3, <2>7
<1>4. ASSUME c = b + 2, r = 0, u >= 4
      PROVE  Goes(u, r, m, r2, p2, l, 4, 4, 0, 0)
  <2>1. /\ w[c + 1] = "+" /\ w[c + 2] = "CMGR:" /\ w[c + 3] = x /\ w[c + 4] = CR
        /\ w[c + 5] = LF /\ w[c + 6] = x /\ w[c + 7] = CR /\ w[c + 8] = LF
        /\ w[c + 9] = CR /\ w[c + 10] = LF /\ w[c + 11] = "O" /\ w[c + 12] = "K"
        /\ w[c + 13] = CR /\ w[c + 14] = LF
    BY <1>4 DEF CmgrAt
  <2>2. Turn(w, c, u, 0, m, r2, p2, l)
    BY <1>4
  <2>3. PICK d : d = 3
    OBVIOUS
  <2>4. ASSUME NEW q \in 1 .. d PROVE w[c + q] # CR
    <3>1. CASE q = 1
      BY <1>1, <2>1, <3>1 DEF CR
    <3>2. CASE q = 2
      BY <1>1, <2>1, <3>2 DEF CR
    <3>3. CASE q = 3
      BY <1>1, <2>1, <3>3 DEF CR
    <3>. QED BY <2>3, <3>1, <3>2, <3>3
  <2>5. d \in Nat /\ d >= 1 /\ u > d /\ w[c + 1] # LF /\ w[c + (d + 1)] = CR
    BY <1>1, <1>4, <2>1, <2>3
  <2>6. Goes(u, 0, m, r2, p2, l, d + 1, d + 1, 0, 0)
    BY ONLY <2>2, <2>4, <2>5, c \in Nat, u \in Nat, AtOther
  <2>. QED BY <1>4, <2>3, <2>6
<1>5. ASSUME c = b + 6, r = 0
      PROVE  Goes(u, r, m, r2, p2, l, 2, 1, 0, 0)
  <2>1. /\ w[c + 1] = LF /\ w[c + 2] = x /\ w[c + 3] = CR /\ w[c + 4] = LF
        /\ w[c + 5] = CR /\ w[c + 6] = LF /\ w[c + 7] = "O" /\ w[c + 8] = "K"
        /\ w[c + 9] = CR /\ w[c + 10] = LF
    BY <1>5 DEF CmgrAt
  <2>2. Turn(w, c, u, 0, m, r2, p2, l)
    BY <1>5
  <2>. QED BY <1>5, <2>1, <2>2, AtFeed
<1>6. ASSUME c = b + 7, r = 0, u >= 2
      PROVE  Goes(u, r, m, r2, p2, l, 2, 2, 0, 0)
  <2>1. /\ w[c + 1] = x /\ w[c + 2] = CR /\ w[c + 3] = LF /\ w[c + 4] = CR
        /\ w[c + 5] = LF /\ w[c + 6] = "O" /\ w[c + 7] = "K" /\ w[c + 8] = CR
        /\ w[c + 9] = LF
    BY <1>6 DEF CmgrAt
  <2>2. Turn(w, c, u, 0, m, r2, p2, l)
    BY <1>6
  <2>3. PICK d : d = 1
    OBVIOUS
  <2>4. ASSUME NEW q \in 1 .. d PROVE w[c + q] # CR
    <3>1. CASE q = 1
      BY <1>1, <2>1, <3>1 DEF CR
    <3>. QED BY <2>3, <3>1
  <2>5. d \in Nat /\ d >= 1 /\ u > d /\ w[c + 1] # LF /\ w[c + (d + 1)] = CR
    BY <1>1, <1>6, <2>1, <2>3
  <2>6. Goes(u, 0, m, r2, p2, l, d + 1, d + 1, 0, 0)
    BY ONLY <2>2, <2>4, <2>5, c \in Nat, u \in Nat, AtOther
  <2>. QED BY <1>6, <2>3, <2>6
<1>7. ASSUME c = b + 9, r = 0
      PROVE  Goes(u, r, m, r2, p2, l, 2, 1, 0, 0)
  <2>1. /\ w[c + 1] = LF /\ w[c + 2] = CR /\ w[c + 3] = LF /\ w[c + 4] = "O"
        /\ w[c + 5] = "K" /\ w[c + 6] = CR /\ w[c + 7] = LF
    BY <1>7 DEF CmgrAt
  <2>2. Turn(w, c, u, 0, m, r2, p2, l)
    BY <1>7
  <2>. QED BY <1>7, <2>1, <2>2, AtFeed
<1>8. ASSUME c = b + 10, r = 0
      PROVE  Goes(u, r, m, r2, p2, l, 2, 2, 1, 0)
  <2>1. /\ w[c + 1] = CR /\ w[c + 2] = LF /\ w[c + 3] = "O" /\ w[c + 4] = "K"
        /\ w[c + 5] = CR /\ w[c + 6] = LF
    BY <1>8 DEF CmgrAt
  <2>2. Turn(w, c, u, 0, m, r2, p2, l)
    BY <1>8
  <2>. QED BY <1>8, <2>1, <2>2, AtBreak
<1>9. ASSUME c = b + 12, r = 1
      PROVE  Goes(u, r, m, r2, p2, l, 4, 4, 0, 3)
  <2>1. /\ w[c + 1] = "O" /\ w[c + 2] = "K" /\ w[c + 3] = CR /\ w[c + 4] = LF
    BY <1>9 DEF CmgrAt
  <2>2. Turn(w, c, u, 1, m, r2, p2, l)
    BY <1>9
  <2>3. PICK d : d = 2
    OBVIOUS
  <2>4. ASSUME NEW q \in 0 .. (d - 1) PROVE w[c + q + 1] # CR
    <3>1. CASE q = 0
      BY <1>1, <2>1, <3>1 DEF CR
    <3>2. CASE q = 1
      BY <1>1, <2>1, <3>2 DEF CR
    <3>. QED BY <2>3, <3>1, <3>2
  <2>5. /\ ~Pair(w, c, u, "+", "CSSI:") /\ ~DoubledAt(w, c, u)
        /\ ~Pair(w, c, u, ">", Space) /\ ~ListingAt(w, c, u)
    BY <1>1, <2>1 DEF Pair, DoubledAt, ListingAt
  <2>6. w[c + d + 1] = CR /\ w[c + d + 2] = LF /\ d \in Nat
    BY <2>1, <2>3
  <2>7. Goes(u, 1, m, r2, p2, l, d + 2, d + 2, 0, d + 1)
    BY ONLY <2>2, <2>4, <2>5, <2>6, c \in Nat, u \in Nat, AtLine
  <2>. QED BY <1>9, <2>3, <2>7
<1> QED BY <1>2, <1>3, <1>4, <1>5, <1>6, <1>7, <1>8, <1>9

LEMMA ClccTurns ==
  ASSUME NEW w, NEW b \in Nat, NEW e, NEW x, x \notin Marks, ClccAt(w, b, e, x),
         NEW c \in Nat, NEW u \in Nat, NEW r, NEW m, NEW r2, NEW p2, NEW l,
         Turn(w, c, u, r, m, r2, p2, l)
  PROVE  /\ c = b + 2 /\ r = 1 => Goes(u, r, m, r2, p2, l, 16, 10, 0, 9)
         /\ c = b /\ r = 1 => Goes(u, r, m, r2, p2, l, 2, 2, 0, 1)
         /\ c = b + 2 /\ r = 0 /\ u >= 4 => Goes(u, r, m, r2, p2, l, 4, 4, 0, 0)
         /\ c = b + 6 /\ r = 0 => Goes(u, r, m, r2, p2, l, 2, 1, 0, 0)
         /\ c = b + 7 /\ r = 0 /\ u >= 4 => Goes(u, r, m, r2, p2, l, 4, 4, 0, 0)
         /\ c = b + 11 /\ r = 0 => Goes(u, r, m, r2, p2, l, 2, 1, 0, 0)
         /\ c = b + 12 /\ r = 0 => Goes(u, r, m, r2, p2, l, 2, 2, 1, 0)
         /\ c = b + 14 /\ r = 1 => Goes(u, r, m, r2, p2, l, 4, 4, 0, 3)
<1>1. /\ x # CR /\ x # LF /\ x # "+" /\ x # ">"
      /\ CR # LF /\ CR # "+" /\ CR # ">" /\ LF # "+" /\ LF # ">" /\ LF # "O" /\ CR # "O"
      /\ CR # "K"
      /\ Space # CR /\ Space # LF
  BY DEF Marks, CR, LF, Space
<1>2. ASSUME c = b + 2, r = 1
      PROVE  Goes(u, r, m, r2, p2, l, 16, 10, 0, 9)
  <2>1. /\ w[c + 1] = "+" /\ w[c + 2] = "CLCC:" /\ w[c + 3] = x /\ w[c + 4] = CR
        /\ w[c + 5] = LF /\ w[c + 6] = "+" /\ w[c + 7] = "CLCC:" /\ w[c + 8] = x
        /\ w[c + 9] = CR /\ w[c + 10] = LF /\ w[c + 11] = CR /\ w[c + 12] = LF
        /\ w[c + 13] = "O" /\ w[c + 14] = "K" /\ w[c + 15] = CR /\ w[c + 16] = LF
    BY <1>2 DEF ClccAt
  <2>2. Turn(w, c, u, 1, m, r2, p2, l)
    BY <1>2
  <2>3. CASE u >= 2
    <3>1. PICK d : d = 9
      OBVIOUS
    <3>2. ASSUME NEW v \in Nat, v >= d + 7 PROVE OkLineAt(w, c, v, d)
      BY <2>1, <3>1, <3>2 DEF OkLineAt
    <3>3. ASSUME NEW q \in 0 .. (d - 1) PROVE ~OkLineAt(w, c, u, q)
      <4>1. q = 0 \/ q = 1 \/ q = 2 \/ q = 3 \/ q = 4 \/ q = 5 \/ q = 6 \/ q = 7 \/ q = 8
        BY <3>1
      <4>. QED BY <1>1, <2>1, <4>1 DEF OkLineAt
    <3>4. d \in Nat /\ w[c + 1] = "+" /\ w[c + 2] \in {"CMGR:", "CLCC:"}
      BY <2>1, <3>1
    <3>5. Goes(u, 1, m, r2, p2, l, d + 7, IF w[c + 2] = "CMGR:" THEN d + 7 ELSE d + 1, 0, d)
      BY ONLY <2>2, <2>3, <3>2, <3>3, <3>4, c \in Nat, u \in Nat, AtList
    <3>. QED BY <1>2, <2>1, <3>1, <3>5
  <2>4. CASE ~(u >= 2)
    <3>1. m = 0 /\ r2 = 1 /\ p2 = "wait" /\ l = 0
      BY <2>2, <2>4, AtOne
    <3>. QED BY <1>2, <2>4, <3>1 DEF Goes
  <2>. QED BY <2>3, <2>4
<1>3. ASSUME c = b, r = 1
      PROVE  Goes(u, r, m, r2, p2, l, 2, 2, 0, 1)
  <2>1. /\ w[c + 1] = CR /\ w[c + 2] = LF /\ w[c + 3] = "+" /\ w[c + 4] = "CLCC:"
        /\ w[c + 5] = x /\ w[c + 6] = CR /\ w[c + 7] = LF /\ w[c + 8] = "+"
        /\ w[c + 9] = "CLCC:" /\ w[c + 10] = x /\ w[c + 11] = CR /\ w[c + 12] = LF
        /\ w[c + 13] = CR /\ w[c + 14] = LF /\ w[c + 15] = "O" /\ w[c + 16] = "K"
        /\ w[c + 17] = CR /\ w[c + 18] = LF
    BY <1>3 DEF ClccAt
  <2>2. Turn(w, c, u, 1, m, r2, p2, l)
    BY <1>3
  <2>3. PICK d : d = 0
    OBVIOUS
  <2>4. ASSUME NEW q \in 0 .. (d - 1) PROVE w[c + q + 1] # CR
    BY <2>3
  <2>5. /\ ~Pair(w, c, u, "+", "CSSI:") /\ ~DoubledAt(w, c, u)
        /\ ~Pair(w, c, u, ">", Space) /\ ~ListingAt(w, c, u)
    BY <1>1, <2>1 DEF Pair, DoubledAt, ListingAt
  <2>6. w[c + d + 1] = CR /\ w[c + d + 2] = LF /\ d \in Nat
    BY <2>1, <2>3
  <2>7. Goes(u, 1, m, r2, p2, l, d + 2, d + 2, 0, d + 1)
    BY ONLY <2>2, <2>4, <2>5, <2>6, c \in Nat, u \in Nat, AtLine
  <2>. QED BY <1>3, <2>3, <2>7
<1>4. ASSUME c = b + 2, r = 0, u >= 4
      PROVE  Goes(u, r, m, r2, p2, l, 4, 4, 0, 0)
  <2>1. /\ w[c + 1] = "+" /\ w[c + 2] = "CLCC:" /\ w[c + 3] = x /\ w[c + 4] = CR
        /\ w[c + 5] = LF /\ w[c + 6] = "+" /\ w[c + 7] = "CLCC:" /\ w[c + 8] = x
        /\ w[c + 9] = CR /\ w[c + 10] = LF /\ w[c + 11] = CR /\ w[c + 12] = LF
        /\ w[c + 13] = "O" /\ w[c + 14] = "K" /\ w[c + 15] = CR /\ w[c + 16] = LF
    BY <1>4 DEF ClccAt
  <2>2. Turn(w, c, u, 0, m, r2, p2, l)
    BY <1>4
  <2>3. PICK d : d = 3
    OBVIOUS
  <2>4. ASSUME NEW q \in 1 .. d PROVE w[c + q] # CR
    <3>1. CASE q = 1
      BY <1>1, <2>1, <3>1 DEF CR
    <3>2. CASE q = 2
      BY <1>1, <2>1, <3>2 DEF CR
    <3>3. CASE q = 3
      BY <1>1, <2>1, <3>3 DEF CR
    <3>. QED BY <2>3, <3>1, <3>2, <3>3
  <2>5. d \in Nat /\ d >= 1 /\ u > d /\ w[c + 1] # LF /\ w[c + (d + 1)] = CR
    BY <1>1, <1>4, <2>1, <2>3
  <2>6. Goes(u, 0, m, r2, p2, l, d + 1, d + 1, 0, 0)
    BY ONLY <2>2, <2>4, <2>5, c \in Nat, u \in Nat, AtOther
  <2>. QED BY <1>4, <2>3, <2>6
<1>5. ASSUME c = b + 6, r = 0
      PROVE  Goes(u, r, m, r2, p2, l, 2, 1, 0, 0)
  <2>1. /\ w[c + 1] = LF /\ w[c + 2] = "+" /\ w[c + 3] = "CLCC:" /\ w[c + 4] = x
        /\ w[c + 5] = CR /\ w[c + 6] = LF /\ w[c + 7] = CR /\ w[c + 8] = LF
        /\ w[c + 9] = "O" /\ w[c + 10] = "K" /\ w[c + 11] = CR /\ w[c + 12] = LF
    BY <1>5 DEF ClccAt
  <2>2. Turn(w, c, u, 0, m, r2, p2, l)
    BY <1>5
  <2>. QED BY <1>5, <2>1, <2>2, AtFeed
<1>6. ASSUME c = b + 7, r = 0, u >= 4
      PROVE  Goes(u, r, m, r2, p2, l, 4, 4, 0, 0)
  <2>1. /\ w[c + 1] = "+" /\ w[c + 2] = "CLCC:" /\ w[c + 3] = x /\ w[c + 4] = CR
        /\ w[c + 5] = LF /\ w[c + 6] = CR /\ w[c + 7] = LF /\ w[c + 8] = "O"
        /\ w[c + 9] = "K" /\ w[c + 10] = CR /\ w[c + 11] = LF
    BY <1>6 DEF ClccAt
  <2>2. Turn(w, c, u, 0, m, r2, p2, l)
    BY <1>6
  <2>3. PICK d : d = 3
    OBVIOUS
  <2>4. ASSUME NEW q \in 1 .. d PROVE w[c + q] # CR
    <3>1. CASE q = 1
      BY <1>1, <2>1, <3>1 DEF CR
    <3>2. CASE q = 2
      BY <1>1, <2>1, <3>2 DEF CR
    <3>3. CASE q = 3
      BY <1>1, <2>1, <3>3 DEF CR
    <3>. QED BY <2>3, <3>1, <3>2, <3>3
  <2>5. d \in Nat /\ d >= 1 /\ u > d /\ w[c + 1] # LF /\ w[c + (d + 1)] = CR
    BY <1>1, <1>6, <2>1, <2>3
  <2>6. Goes(u, 0, m, r2, p2, l, d + 1, d + 1, 0, 0)
    BY ONLY <2>2, <2>4, <2>5, c \in Nat, u \in Nat, AtOther
  <2>. QED BY <1>6, <2>3, <2>6
<1>7. ASSUME c = b + 11, r = 0
      PROVE  Goes(u, r, m, r2, p2, l, 2, 1, 0, 0)
  <2>1. /\ w[c + 1] = LF /\ w[c + 2] = CR /\ w[c + 3] = LF /\ w[c + 4] = "O"
        /\ w[c + 5] = "K" /\ w[c + 6] = CR /\ w[c + 7] = LF
    BY <1>7 DEF ClccAt
  <2>2. Turn(w, c, u, 0, m, r2, p2, l)
    BY <1>7
  <2>. QED BY <1>7, <2>1, <2>2, AtFeed
<1>8. ASSUME c = b + 12, r = 0
      PROVE  Goes(u, r, m, r2, p2, l, 2, 2, 1, 0)
  <2>1. /\ w[c + 1] = CR /\ w[c + 2] = LF /\ w[c + 3] = "O" /\ w[c + 4] = "K"
        /\ w[c + 5] = CR /\ w[c + 6] = LF
    BY <1>8 DEF ClccAt
  <2>2. Turn(w, c, u, 0, m, r2, p2, l)
    BY <1>8
  <2>. QED BY <1>8, <2>1, <2>2, AtBreak
<1>9. ASSUME c = b + 14, r = 1
      PROVE  Goes(u, r, m, r2, p2, l, 4, 4, 0, 3)
  <2>1. /\ w[c + 1] = "O" /\ w[c + 2] = "K" /\ w[c + 3] = CR /\ w[c + 4] = LF
    BY <1>9 DEF ClccAt
  <2>2. Turn(w, c, u, 1, m, r2, p2, l)
    BY <1>9
  <2>3. PICK d : d = 2
    OBVIOUS
  <2>4. ASSUME NEW q \in 0 .. (d - 1) PROVE w[c + q + 1] # CR
    <3>1. CASE q = 0
      BY <1>1, <2>1, <3>1 DEF CR
    <3>2. CASE q = 1
      BY <1>1, <2>1, <3>2 DEF CR
    <3>. QED BY <2>3, <3>1, <3>2
  <2>5. /\ ~Pair(w, c, u, "+", "CSSI:") /\ ~DoubledAt(w, c, u)
        /\ ~Pair(w, c, u, ">", Space) /\ ~ListingAt(w, c, u)
    BY <1>1, <2>1 DEF Pair, DoubledAt, ListingAt
  <2>6. w[c + d + 1] = CR /\ w[c + d + 2] = LF /\ d \in Nat
    BY <2>1, <2>3
  <2>7. Goes(u, 1, m, r2, p2, l, d + 2, d + 2, 0, d + 1)
    BY ONLY <2>2, <2>4, <2>5, <2>6, c \in Nat, u \in Nat, AtLine
  <2>. QED BY <1>9, <2>3, <2>7
<1> QED BY <1>2, <1>3, <1>4, <1>5, <1>6, <1>7, <1>8, <1>9

LEMMA CssiTurns ==
  ASSUME NEW w, NEW b \in Nat, NEW e, NEW x, x \notin Marks, CssiAt(w, b, e, x),
         NEW c \in Nat, NEW u \in Nat, NEW r, NEW m, NEW r2, NEW p2, NEW l,
         Turn(w, c, u, r, m, r2, p2, l)
  PROVE  /\ c = b + 2 /\ r = 1 => Goes(u, r, m, r2, p2, l, 3, 3, 0, 3)
<1>1. /\ x # CR /\ x # LF /\ x # "+" /\ x # ">"
      /\ CR # LF /\ CR # "+" /\ CR # ">" /\ LF # "+" /\ LF # ">" /\ LF # "O" /\ CR # "O"
      /\ CR # "K"
      /\ Space # CR /\ Space # LF
  BY DEF Marks, CR, LF, Space
<1>2. ASSUME c = b + 2, r = 1
      PROVE  Goes(u, r, m, r2, p2, l, 3, 3, 0, 3)
  <2>1. /\ w[c + 1] = "+" /\ w[c + 2] = "CSSI:" /\ w[c + 3] = x
    BY <1>2 DEF CssiAt
  <2>2. Turn(w, c, u, 1, m, r2, p2, l)
    BY <1>2
  <2>3. CASE u >= 2
    <3>1. Pair(w, c, u, "+", "CSSI:")
      BY <2>1, <2>3 DEF Pair
    <3>2. TurnIn(w, c, u, m, r2, p2, l)
      BY <2>2 DEF Turn
    <3>3. TurnCssi(w, c, u, m, r2, p2, l)
      <4>1. /\ w[c + 1] # ">" /\ w[c + 1] # CR
            /\ w[c + 2] \notin {"CMGR:", "CNUM:", "CLCC:"}
        BY <1>1, <2>1
      <4>. QED BY ONLY <3>1, <3>2, <4>1, Zenon
               DEF TurnIn, TurnLines, TurnLine, Pair, DoubledAt, ListingAt
    <3>. QED BY <1>2, <2>3, <3>3 DEF Goes, TurnCssi
  <2>4. CASE ~(u >= 2)
    <3>1. m = 0 /\ r2 = 1 /\ p2 = "wait" /\ l = 0
      BY <2>2, <2>4, AtOne
    <3>. QED BY <1>2, <2>4, <3>1 DEF Goes
  <2>. QED BY <2>3, <2>4
<1> QED BY <1>2

LEMMA CmgsTurns ==
  ASSUME NEW w, NEW b \in Nat, NEW e, NEW x, x \notin Marks, CmgsAt(w, b, e, x),
         NEW c \in Nat, NEW u \in Nat, NEW r, NEW m, NEW r2, NEW p2, NEW l,
         Turn(w, c, u, r, m, r2, p2, l)
  PROVE  /\ c = b + 2 /\ r = 1 /\ u \notin {2, 3} => Goes(u, r, m, r2, p2, l, 4, 2, 1, 0)
         /\ c = b /\ r = 1 => Goes(u, r, m, r2, p2, l, 2, 2, 0, 1)
         /\ c = b + 2 /\ r = 0 => Goes(u, r, m, r2, p2, l, 2, 2, 1, 0)
         /\ c = b + 4 /\ r = 1 => Goes(u, r, m, r2, p2, l, 5, 5, 0, 4)
<1>1. /\ x # CR /\ x # LF /\ x # "+" /\ x # ">"
      /\ CR # LF /\ CR # "+" /\ CR # ">" /\ LF # "+" /\ LF # ">" /\ LF # "O" /\ CR # "O"
      /\ CR # "K"
      /\ Space # CR /\ Space # LF
  BY DEF Marks, CR, LF, Space
<1>2. ASSUME c = b + 2, r = 1, u \notin {2, 3}
      PROVE  Goes(u, r, m, r2, p2, l, 4, 2, 1, 0)
  <2>1. /\ w[c + 1] = CR /\ w[c + 2] = LF /\ w[c + 3] = "+" /\ w[c + 4] = "CMGS:"
        /\ w[c + 5] = x /\ w[c + 6] = CR /\ w[c + 7] = LF
    BY <1>2 DEF CmgsAt
  <2>2. Turn(w, c, u, 1, m, r2, p2, l)
    BY <1>2
  <2>3. CASE u >= 4
    <3>1. DoubledAt(w, c, u)
      BY <2>1, <2>3 DEF DoubledAt
    <3>2. TurnIn(w, c, u, m, r2, p2, l)
      BY <2>2 DEF Turn
    <3>3. m = 2 /\ r2 = 1 /\ p2 = "parse" /\ l = 0
      <4>1. w[c + 1] # "+" /\ w[c + 1] # ">"
        BY <1>1, <2>1
      <4>. QED BY ONLY <3>1, <3>2, <4>1, Zenon
               DEF TurnIn, TurnCssi, TurnLines, TurnLine, Pair, ListingAt
    <3>. QED BY <1>2, <2>3, <3>3 DEF Goes
  <2>4. CASE ~(u >= 4)
    <3>1. u < 2
      BY <1>2, <2>4
    <3>2. m = 0 /\ r2 = 1 /\ p2 = "wait" /\ l = 0
      BY <2>2, <3>1, AtOne
    <3>. QED BY <1>2, <3>1, <3>2 DEF Goes
  <2>. QED BY <2>3, <2>4
<1>3. ASSUME c = b, r = 1
      PROVE  Goes(u, r, m, r2, p2, l, 2, 2, 0, 1)
  <2>1. /\ w[c + 1] = CR /\ w[c + 2] = LF /\ w[c + 3] = CR /\ w[c + 4] = LF
        /\ w[c + 5] = "+" /\ w[c + 6] = "CMGS:" /\ w[c + 7] = x /\ w[c + 8] = CR
        /\ w[c + 9] = LF
    BY <1>3 DEF CmgsAt
  <2>2. Turn(w, c, u, 1, m, r2, p2, l)
    BY <1>3
  <2>3. PICK d : d = 0
    OBVIOUS
  <2>4. ASSUME NEW q \in 0 .. (d - 1) PROVE w[c + q + 1] # CR
    BY <2>3
  <2>5. /\ ~Pair(w, c, u, "+", "CSSI:") /\ ~DoubledAt(w, c, u)
        /\ ~Pair(w, c, u, ">", Space) /\ ~ListingAt(w, c, u)
    BY <1>1, <2>1 DEF Pair, DoubledAt, ListingAt
  <2>6. w[c + d + 1] = CR /\ w[c + d + 2] = LF /\ d \in Nat
    BY <2>1, <2>3
  <2>7. Goes(u, 1, m, r2, p2, l, d + 2, d + 2, 0, d + 1)
    BY ONLY <2>2, <2>4, <2>5, <2>6, c \in Nat, u \in Nat, AtLine
  <2>. QED BY <1>3, <2>3, <2>7
<1>4. ASSUME c = b + 2, r = 0
      PROVE  Goes(u, r, m, r2, p2, l, 2, 2, 1, 0)
  <2>1. /\ w[c + 1] = CR /\ w[c + 2] = LF /\ w[c + 3] = "+" /\ w[c + 4] = "CMGS:"
        /\ w[c + 5] = x /\ w[c + 6] = CR /\ w[c + 7] = LF
    BY <1>4 DEF CmgsAt
  <2>2. Turn(w, c, u, 0, m, r2, p2, l)
    BY <1>4
  <2>. QED BY <1>4, <2>1, <2>2, AtBreak
<1>5. ASSUME c = b + 4, r = 1
      PROVE  Goes(u, r, m, r2, p2, l, 5, 5, 0, 4)
  <2>1. /\ w[c + 1] = "+" /\ w[c + 2] = "CMGS:" /\ w[c + 3] = x /\ w[c + 4] = CR
        /\ w[c + 5] = LF
    BY <1>5 DEF CmgsAt
  <2>2. Turn(w, c, u, 1, m, r2, p2, l)
    BY <1>5
  <2>3. PICK d : d = 3
    OBVIOUS
  <2>4. ASSUME NEW q \in 0 .. (d - 1) PROVE w[c + q + 1] # CR
    <3>1. CASE q = 0
      BY <1>1, <2>1, <3>1 DEF CR
    <3>2. CASE q = 1
      BY <1>1, <2>1, <3>2 DEF CR
    <3>3. CASE q = 2
      BY <1>1, <2>1, <3>3 DEF CR
    <3>. QED BY <2>3, <3>1, <3>2, <3>3
  <2>5. /\ ~Pair(w, c, u, "+", "CSSI:") /\ ~DoubledAt(w, c, u)
        /\ ~Pair(w, c, u, ">", Space) /\ ~ListingAt(w, c, u)
    BY <1>1, <2>1 DEF Pair, DoubledAt, ListingAt
  <2>6. w[c + d + 1] = CR /\ w[c + d + 2] = LF /\ d \in Nat
    BY <2>1, <2>3
  <2>7. Goes(u, 1, m, r2, p2, l, d + 2, d + 2, 0, d + 1)
    BY ONLY <2>2, <2>4, <2>5, <2>6, c \in Nat, u \in Nat, AtLine
  <2>. QED BY <1>5, <2>3, <2>7
<1> QED BY <1>2, <1>3, <1>4, <1>5

LEMMA LongTurns ==
  ASSUME NEW w, NEW b \in Nat, NEW e, NEW x, x \notin Marks, LongAt(w, b, e, x),
         NEW c \in Nat, NEW u \in Nat, NEW r, NEW m, NEW r2, NEW p2, NEW l,
         Turn(w, c, u, r, m, r2, p2, l)
  PROVE  c = b + 2 /\ r = 1 => Goes(u, r, m, r2, p2, l, Size + 4, Size + 4, 0, Size + 3)
<1> SUFFICES ASSUME c = b + 2, r = 1
             PROVE  Goes(u, r, m, r2, p2, l, Size + 4, Size + 4, 0, Size + 3)
  OBVIOUS
<1>1. x # CR /\ CR # "+" /\ "+" # ">"
  BY DEF Marks, CR
<1>2. Size \in Nat
  BY SizeAssumption
<1>3. /\ w[c + 1] = "+" /\ w[c + 2] = "CUSD:"
      /\ w[c + Size + 3] = CR /\ w[c + Size + 4] = LF
  BY <1>2 DEF LongAt
<1>4. \A i \in 1 .. Size : w[c + 2 + i] = x
  <2>1. ASSUME NEW i \in 1 .. Size PROVE w[c + 2 + i] = x
    <3>1. c + 2 + i = b + 4 + i
      BY <1>2
    <3>. QED BY ONLY <3>1, i \in 1 .. Size, LongAt(w, b, e, x), Zenon DEF LongAt
  <2>. QED BY <2>1
<1>5. PICK d : d = Size + 2
  OBVIOUS
<1>6. d \in Nat /\ w[c + d + 1] = CR /\ w[c + d + 2] = LF
  BY <1>2, <1>3, <1>5
<1>7. ASSUME NEW q \in 0 .. (d - 1) PROVE w[c + q + 1] # CR
  <2>1. CASE q = 0 \/ q = 1
    BY <1>1, <1>3, <2>1 DEF CR
  <2>2. CASE ~(q = 0 \/ q = 1)
    <3>1. PICK i : i = q - 1
      OBVIOUS
    <3>2. i \in 1 .. Size /\ c + q + 1 = c + 2 + i
      BY <1>2, <1>5, <2>2, <3>1
    <3>. QED BY ONLY <1>1, <1>4, <3>2, Zenon
  <2>. QED BY <2>1, <2>2
<1>8. /\ ~Pair(w, c, u, "+", "CSSI:") /\ ~DoubledAt(w, c, u)
      /\ ~Pair(w, c, u, ">", Space) /\ ~ListingAt(w, c, u)
  BY <1>1, <1>3 DEF Pair, DoubledAt, ListingAt
<1>9. Turn(w, c, u, 1, m, r2, p2, l)
  OBVIOUS
<1>10. Goes(u, 1, m, r2, p2, l, d + 2, d + 2, 0, d + 1)
  BY ONLY <1>6, <1>7, <1>8, <1>9, c \in Nat, u \in Nat, AtLine
<1> QED BY <1>2, <1>5, <1>10

-----------------------------------------------------------------------------
(* What at_response must see.                                              *)

LEMMA ExpectedIs ==
  ASSUME NEW j
  PROVE  /\ Expected("ok", j) = << <<"O", "K">> >>
         /\ Expected("creg", j) = << <<"+", "CREG:", Texts[j]>> >>
         /\ Expected("prompt", j) = << <<">">> >>
         /\ Expected("cmgr", j) = << <<"+", "CMGR:", Texts[j], CR, LF, Texts[j]>> >>
         /\ Expected("clcc", j) = << <<"+", "CLCC:", Texts[j], CR, LF, "+", "CLCC:", Texts[j]>>,
                                     <<"O", "K">> >>
         /\ Expected("cssi", j) = << <<"+", "CSSI:">> >>
         /\ Expected("cmgs", j) = << <<"+", "CMGS:", Texts[j]>> >>
         /\ Expected("long", j) = <<>>
BY DEF Expected

LEMMA Spelled ==
  ASSUME NEW T, NEW a \in T, NEW b \in T, NEW x \in T, NEW c \in T, NEW l \in T
  PROVE  /\ <<a>> \in Seq(T) /\ <<a, b>> \in Seq(T) /\ <<a, b, x>> \in Seq(T)
         /\ <<a, b, x, c, l, x>> \in Seq(T) /\ <<a, b, x, c, l, a, b, x>> \in Seq(T)
OBVIOUS

LEMMA ExpectedType ==
  ASSUME NEW kind \in AllKinds, NEW j \in 1 .. MaxFrames
  PROVE  Expected(kind, j) \in Seq(Seq(Tokens))
<1>1. PICK x : x = Texts[j]
  OBVIOUS
<1>2. PICK T : T = Tokens
  OBVIOUS
<1>3. /\ CR \in T /\ LF \in T /\ "+" \in T /\ ">" \in T /\ "O" \in T /\ "K" \in T
      /\ "CREG:" \in T /\ "CMGR:" \in T /\ "CLCC:" \in T /\ "CSSI:" \in T
      /\ "CMGS:" \in T /\ x \in T
  BY <1>1, <1>2 DEF Tokens, Marks
<1>4. PICK S : S = Seq(T)
  OBVIOUS
<1>5. /\ <<"O", "K">> \in S /\ <<"+", "CREG:", x>> \in S /\ <<">">> \in S
      /\ <<"+", "CMGR:", x, CR, LF, x>> \in S
      /\ <<"+", "CLCC:", x, CR, LF, "+", "CLCC:", x>> \in S
      /\ <<"+", "CSSI:">> \in S /\ <<"+", "CMGS:", x>> \in S
  BY ONLY <1>3, <1>4, Spelled, Zenon
<1>6. \A a \in S, b \in S : <<a>> \in Seq(S) /\ <<a, b>> \in Seq(S)
  BY ONLY Spelled, Zenon
<1>7. <<>> \in Seq(S)
  OBVIOUS
<1>8. Expected(kind, j) \in Seq(S)
  <2>1. \/ kind = "ok" \/ kind = "creg" \/ kind = "prompt" \/ kind = "cmgr" \/ kind = "clcc"
        \/ kind = "cssi" \/ kind = "cmgs" \/ kind = "long"
    BY Zenon DEF AllKinds
  <2>. QED BY ONLY <1>1, <1>5, <1>6, <1>7, <2>1, ExpectedIs, Zenon
<1> QED BY ONLY <1>2, <1>4, <1>8, Zenon

LEMMA ExpectedStep ==
  ASSUME Possible(frames), NEW j \in 1 .. Len(frames)
  PROVE  /\ ExpectedOf(j, Len(frames)) \in Seq(Seq(Tokens))
         /\ ExpectedOf(j + 1, Len(frames)) \in Seq(Seq(Tokens))
         /\ Expected(frames[j], j) \in Seq(Seq(Tokens))
         /\ ExpectedOf(j, Len(frames)) = Expected(frames[j], j) \o ExpectedOf(j + 1, Len(frames))
<1> DEFINE n == Len(frames)
           F(i) == Expected(frames[i], i)
           s == [i \in 1 .. (n - j + 1) |-> F(j + i - 1)]
           t == [i \in 1 .. (n - (j + 1) + 1) |-> F((j + 1) + i - 1)]
<1>1. n \in Nat /\ n <= MaxFrames /\ j <= n /\ 1 <= j
  BY DEF Possible
<1>2. PICK S : S = Seq(Tokens)
  OBVIOUS
<1>3. \A i \in 1 .. n : F(i) \in Seq(S)
  BY ONLY <1>2, Possible(frames), AnswerType, ExpectedType, Zenon
<1>4. ExpectedOf(j, n) = FlattenSeq(s) /\ ExpectedOf(j + 1, n) = FlattenSeq(t)
  BY Zenon DEF ExpectedOf
<1> HIDE DEF F
<1>5. s \in Seq(Seq(S)) /\ Len(s) = n - j + 1
  <2>1. \A i \in 1 .. (n - j + 1) : j + i - 1 \in 1 .. n
    BY <1>1
  <2>. QED BY <1>1, <1>3, <2>1
<1>6. t \in Seq(Seq(S)) /\ Len(t) = n - j
  <2>1. \A i \in 1 .. (n - (j + 1) + 1) : (j + 1) + i - 1 \in 1 .. n
    BY <1>1
  <2>. QED BY <1>1, <1>3, <2>1
<1>7. \A i \in 1 .. Len(t) : s[i + 1] = t[i]
  <2> SUFFICES ASSUME NEW i \in 1 .. Len(t) PROVE s[i + 1] = t[i]
    OBVIOUS
  <2>1. /\ i + 1 \in 1 .. (n - j + 1) /\ i \in 1 .. (n - (j + 1) + 1)
        /\ j + (i + 1) - 1 = (j + 1) + i - 1
    BY <1>1, <1>6
  <2>. QED BY <2>1
<1>8. s[1] = F(j)
  <2>1. 1 \in 1 .. (n - j + 1) /\ j + 1 - 1 = j
    BY <1>1
  <2>. QED BY <2>1
<1> HIDE DEF s, t
<1>9. Len(s) = Len(t) + 1
  BY <1>1, <1>5, <1>6
<1>10. FlattenSeq(s) = s[1] \o FlattenSeq(t)
  BY ONLY <1>5, <1>6, <1>7, <1>9, FlattenFront
<1>11. FlattenSeq(s) \in Seq(S) /\ FlattenSeq(t) \in Seq(S)
  BY ONLY <1>5, <1>6, FlattenIs
<1>12. F(j) \in Seq(S)
  BY ONLY <1>3, j \in 1 .. Len(frames)
<1> QED BY ONLY <1>2, <1>4, <1>8, <1>10, <1>11, <1>12, Zenon DEF F

LEMMA ExpectedEnd ==
  ASSUME Possible(frames)
  PROVE  ExpectedOf(Len(frames) + 1, Len(frames)) = <<>>
<1> DEFINE n == Len(frames)
           t == [i \in 1 .. (n - (n + 1) + 1) |->
                   Expected(frames[(n + 1) + i - 1], (n + 1) + i - 1)]
<1>1. n \in Nat
  BY DEF Possible
<1>2. ExpectedOf(n + 1, n) = FlattenSeq(t)
  BY Zenon DEF ExpectedOf
<1>3. t = <<>>
  BY <1>1
<1>4. FlattenSeq(<<>>) = <<>>
  BY DEF FlattenSeq
<1> QED BY ONLY <1>2, <1>3, <1>4, Zenon

LEMMA TextIs ==
  ASSUME NEW w, NEW c \in Nat
  PROVE  /\ Text(w, c, 2) = <<w[c + 1]>>
         /\ Text(w, c, 3) = <<w[c + 1], w[c + 2]>>
         /\ Text(w, c, 4) = <<w[c + 1], w[c + 2], w[c + 3]>>
         /\ Text(w, c, 7) = <<w[c + 1], w[c + 2], w[c + 3], w[c + 4], w[c + 5], w[c + 6]>>
         /\ Text(w, c, 9) = <<w[c + 1], w[c + 2], w[c + 3], w[c + 4], w[c + 5], w[c + 6],
                              w[c + 7], w[c + 8]>>
BY DEF Text

-----------------------------------------------------------------------------
(* The places of an answer at which the parser stands in step with the      *)
(* modem: the offset in the answer, read_result, and how many of the        *)
(* results of the answer have been delivered.                              *)
Place(kind, o, r, done) ==
  \/ o = 0 /\ r = 0 /\ done = 0
  \/ o = 2 /\ r = 1 /\ done = 0
  \/ kind = "cmgs" /\ o = 4 /\ r = 1 /\ done = 0
  \/ kind = "clcc" /\ done = 1 /\ ((o = 12 /\ r = 0) \/ (o = 14 /\ r = 1))

Owed(kind, j, done) == IF done = 0 THEN Expected(kind, j) ELSE << <<"O", "K">> >>
Out(w, c, l) == IF l = 0 THEN <<>> ELSE <<Text(w, c, l)>>

(* A turn waits, goes on to a place of the same answer, or ends the answer. *)
Stepped(w, b, e, kind, j, o, r, done, u, m, r2, p2, l) ==
  \/ p2 = "wait" /\ m = 0 /\ r2 = r /\ l = 0 /\ b + o + u < e
  \/ /\ p2 = "parse"
     /\ \E done2 : /\ Place(kind, o + m, r2, done2)
                   /\ Owed(kind, j, done) = Out(w, b + o, l) \o Owed(kind, j, done2)
  \/ /\ p2 = "parse"
     /\ b + o + m = e /\ r2 = 0 /\ Owed(kind, j, done) = Out(w, b + o, l)

LEMMA OwedType ==
  ASSUME NEW kind \in AllKinds, NEW j \in 1 .. MaxFrames, NEW done
  PROVE  Owed(kind, j, done) \in Seq(Seq(Tokens))
<1>1. Expected(kind, j) \in Seq(Seq(Tokens))
  BY ExpectedType
<1>2. "O" \in Tokens /\ "K" \in Tokens
  BY DEF Tokens, Marks
<1>3. << <<"O", "K">> >> \in Seq(Seq(Tokens))
  <2>1. <<"O", "K">> \in Seq(Tokens)
    BY <1>2, Spelled
  <2>. QED BY ONLY <2>1, Spelled, Zenon
<1> QED BY ONLY <1>1, <1>3, Zenon DEF Owed

LEMMA Stays ==
  ASSUME NEW w, NEW b, NEW e, NEW kind \in AllKinds, NEW j \in 1 .. MaxFrames, NEW o, NEW r,
         NEW u, NEW m, NEW r2, NEW p2, p2 = "parse", NEW l, l = 0, NEW done, NEW done2,
         Place(kind, o, r, done), Place(kind, o + m, r2, done2), done = done2
  PROVE  Stepped(w, b, e, kind, j, o, r, done, u, m, r2, p2, l)
<1>1. Owed(kind, j, done) \in Seq(Seq(Tokens))
  BY OwedType
<1>2. Owed(kind, j, done) = <<>> \o Owed(kind, j, done2)
  <2>1. PICK S, s : S = Seq(Tokens) /\ s = Owed(kind, j, done)
    BY Zenon
  <2>2. s = <<>> \o s
    BY <1>1, <2>1, ConcatEmptySeq
  <2>. QED BY ONLY <2>1, <2>2, done = done2, Zenon
<1>3. Out(w, b + o, l) = <<>>
  BY DEF Out
<1> QED BY ONLY <1>2, <1>3, p2 = "parse", Place(kind, o + m, r2, done2), Zenon DEF Stepped

LEMMA TwoOf ==
  ASSUME NEW a, NEW b
  PROVE  <<a, b>> = <<a>> \o <<b>>
<1>1. PICK S : S = {a, b}
  OBVIOUS
<1>2. PICK s, t, r : s = <<a>> /\ t = <<b>> /\ r = <<a, b>>
  OBVIOUS
<1>3. s \in Seq(S) /\ t \in Seq(S) /\ r \in Seq(S)
  BY <1>1, <1>2
<1>4. /\ s \o t \in Seq(S) /\ Len(s \o t) = Len(s) + Len(t)
      /\ \A i \in 1 .. Len(s) + Len(t) : (s \o t)[i] = IF i <= Len(s) THEN s[i] ELSE t[i - Len(s)]
  BY ONLY <1>3, ConcatProperties
<1>5. Len(s) = 1 /\ Len(t) = 1 /\ s[1] = a /\ t[1] = b /\ Len(r) = 2 /\ r[1] = a /\ r[2] = b
  BY <1>2
<1>6. \A i \in 1 .. 2 : (s \o t)[i] = r[i]
  BY <1>4, <1>5
<1>7. s \o t = r
  BY ONLY <1>3, <1>4, <1>5, <1>6, SeqEqual
<1> QED BY ONLY <1>2, <1>7, Zenon

LEMMA Pauses ==
  ASSUME NEW w, NEW b, NEW e, NEW kind, NEW j, NEW o, NEW r, NEW u, NEW m, NEW r2, NEW p2,
         NEW l, NEW done, p2 = "wait", m = 0, r2 = r, l = 0, b + o + u < e
  PROVE  Stepped(w, b, e, kind, j, o, r, done, u, m, r2, p2, l)
BY Zenon DEF Stepped

LEMMA Closes ==
  ASSUME NEW w, NEW b, NEW e, NEW kind, NEW j, NEW o, NEW r, NEW u, NEW m, NEW r2, NEW p2,
         NEW l, NEW done, p2 = "parse", b + o + m = e, r2 = 0, l # 0,
         Owed(kind, j, done) = <<Text(w, b + o, l)>>
  PROVE  Stepped(w, b, e, kind, j, o, r, done, u, m, r2, p2, l)
BY Zenon DEF Stepped, Out

LEMMA OpensFirst ==
  ASSUME NEW w, NEW b \in Nat, NEW e, NEW kind \in AllKinds, NEW j \in 1 .. MaxFrames,
         Laid(w, b, e, kind, Texts[j]), NEW u \in Nat, NEW m, NEW r2, NEW p2, NEW l,
         Turn(w, b + 0, u, 0, m, r2, p2, l)
  PROVE  Stepped(w, b, e, kind, j, 0, 0, 0, u, m, r2, p2, l)
<1>1. w[b + 1] = CR /\ w[b + 2] = LF
  BY Begins
<1>2. PICK c : c = b + 0
  OBVIOUS
<1>3. c \in Nat /\ w[c + 1] = CR /\ w[c + 2] = LF /\ Turn(w, c, u, 0, m, r2, p2, l)
  BY <1>1, <1>2
<1>4. Goes(u, 0, m, r2, p2, l, 2, 2, 1, 0)
  BY ONLY <1>3, u \in Nat, AtBreak
<1>5. CASE m = 2 /\ r2 = 1 /\ p2 = "parse" /\ l = 0
  <2>1. Place(kind, 0 + m, r2, 0) /\ Place(kind, 0, 0, 0)
    BY <1>5 DEF Place
  <2>. QED BY <1>5, <2>1, Stays
<1>6. CASE u < 2 /\ m = 0 /\ r2 = 0 /\ p2 = "wait" /\ l = 0
  <2>1. Size \in Nat
    BY SizeAssumption
  <2>2. b + 0 + u < e
    BY ONLY <1>6, <2>1, kind \in AllKinds, Laid(w, b, e, kind, Texts[j]), b \in Nat, u \in Nat
       DEF AllKinds, Laid, OkAt, CregAt, PromptAt, CmgrAt, ClccAt, CssiAt, CmgsAt, LongAt
  <2>. QED BY <1>6, <2>2, Pauses
<1> QED BY <1>4, <1>5, <1>6 DEF Goes

LEMMA OkSteps ==
  ASSUME NEW w, NEW b \in Nat, NEW e, NEW kind, kind = "ok", NEW j \in 1 .. MaxFrames,
         NEW x, x = Texts[j], x \notin Marks, OkAt(w, b, e, x), NEW o, NEW r, NEW done,
         Place(kind, o, r, done), o # 0, NEW u \in Nat, NEW m, NEW r2, NEW p2, NEW l,
         Turn(w, b + o, u, r, m, r2, p2, l)
  PROVE  Stepped(w, b, e, kind, j, o, r, done, u, m, r2, p2, l)
<1>1. kind \in AllKinds
  BY DEF AllKinds
<1>2. (o = 2 /\ r = 1 /\ done = 0)
  BY DEF Place
<1>3. CASE o = 2 /\ r = 1 /\ done = 0
  <2>1. PICK c : c = b + o
    OBVIOUS
  <2>2. c \in Nat /\ c = b + 2 /\ r = 1 /\ Turn(w, c, u, r, m, r2, p2, l)
    BY <1>3, <2>1
  <2>3. Goes(u, r, m, r2, p2, l, 4, 4, 0, 3)
    BY ONLY <2>2, b \in Nat, u \in Nat, x \notin Marks, OkAt(w, b, e, x), OkTurns
  <2>4. CASE u < 4 /\ m = 0 /\ r2 = r /\ p2 = "wait" /\ l = 0
    <3>1. b + o + u < e
      BY <1>3, <2>4 DEF OkAt
    <3>. QED BY <2>4, <3>1, Pauses
  <2>5. CASE m = 4 /\ r2 = 0 /\ p2 = "parse" /\ l = 3
    <3>1. Text(w, c, 3) = <<"O", "K">>
      BY <2>2, TextIs DEF OkAt
    <3>2. Owed(kind, j, done) = << <<"O", "K">> >>
      BY ONLY <1>3, kind = "ok", x = Texts[j], ExpectedIs, Zenon DEF Owed
    <3>3. Owed(kind, j, done) = <<Text(w, b + o, l)>>
      BY ONLY <2>1, <2>5, <3>1, <3>2, Zenon
    <3>4. b + o + m = e
      BY <1>3, <2>5 DEF OkAt
    <3>5. r2 = 0 /\ p2 = "parse" /\ l # 0
      BY <2>5
    <3>. QED BY ONLY <3>3, <3>4, <3>5, Closes, Zenon
  <2>. QED BY <2>3, <2>4, <2>5 DEF Goes
<1> QED BY <1>2, <1>3

LEMMA CregSteps ==
  ASSUME NEW w, NEW b \in Nat, NEW e, NEW kind, kind = "creg", NEW j \in 1 .. MaxFrames,
         NEW x, x = Texts[j], x \notin Marks, CregAt(w, b, e, x), NEW o, NEW r, NEW done,
         Place(kind, o, r, done), o # 0, NEW u \in Nat, NEW m, NEW r2, NEW p2, NEW l,
         Turn(w, b + o, u, r, m, r2, p2, l)
  PROVE  Stepped(w, b, e, kind, j, o, r, done, u, m, r2, p2, l)
<1>1. kind \in AllKinds
  BY DEF AllKinds
<1>2. (o = 2 /\ r = 1 /\ done = 0)
  BY DEF Place
<1>3. CASE o = 2 /\ r = 1 /\ done = 0
  <2>1. PICK c : c = b + o
    OBVIOUS
  <2>2. c \in Nat /\ c = b + 2 /\ r = 1 /\ Turn(w, c, u, r, m, r2, p2, l)
    BY <1>3, <2>1
  <2>3. Goes(u, r, m, r2, p2, l, 5, 5, 0, 4)
    BY ONLY <2>2, b \in Nat, u \in Nat, x \notin Marks, CregAt(w, b, e, x), CregTurns
  <2>4. CASE u < 5 /\ m = 0 /\ r2 = r /\ p2 = "wait" /\ l = 0
    <3>1. b + o + u < e
      BY <1>3, <2>4 DEF CregAt
    <3>. QED BY <2>4, <3>1, Pauses
  <2>5. CASE m = 5 /\ r2 = 0 /\ p2 = "parse" /\ l = 4
    <3>1. Text(w, c, 4) = <<"+", "CREG:", x>>
      BY <2>2, TextIs DEF CregAt
    <3>2. Owed(kind, j, done) = << <<"+", "CREG:", x>> >>
      BY ONLY <1>3, kind = "creg", x = Texts[j], ExpectedIs, Zenon DEF Owed
    <3>3. Owed(kind, j, done) = <<Text(w, b + o, l)>>
      BY ONLY <2>1, <2>5, <3>1, <3>2, Zenon
    <3>4. b + o + m = e
      BY <1>3, <2>5 DEF CregAt
    <3>5. r2 = 0 /\ p2 = "parse" /\ l # 0
      BY <2>5
    <3>. QED BY ONLY <3>3, <3>4, <3>5, Closes, Zenon
  <2>. QED BY <2>3, <2>4, <2>5 DEF Goes
<1> QED BY <1>2, <1>3

LEMMA PromptSteps ==
  ASSUME NEW w, NEW b \in Nat, NEW e, NEW kind, kind = "prompt", NEW j \in 1 .. MaxFrames,
         NEW x, x = Texts[j], x \notin Marks, PromptAt(w, b, e, x), NEW o, NEW r, NEW done,
         Place(kind, o, r, done), o # 0, NEW u \in Nat, NEW m, NEW r2, NEW p2, NEW l,
         Turn(w, b + o, u, r, m, r2, p2, l)
  PROVE  Stepped(w, b, e, kind, j, o, r, done, u, m, r2, p2, l)
<1>1. kind \in AllKinds
  BY DEF AllKinds
<1>2. (o = 2 /\ r = 1 /\ done = 0)
  BY DEF Place
<1>3. CASE o = 2 /\ r = 1 /\ done = 0
  <2>1. PICK c : c = b + o
    OBVIOUS
  <2>2. c \in Nat /\ c = b + 2 /\ r = 1 /\ Turn(w, c, u, r, m, r2, p2, l)
    BY <1>3, <2>1
  <2>3. Goes(u, r, m, r2, p2, l, 2, 2, 0, 2)
    BY ONLY <2>2, b \in Nat, u \in Nat, x \notin Marks, PromptAt(w, b, e, x), PromptTurns
  <2>4. CASE u < 2 /\ m = 0 /\ r2 = r /\ p2 = "wait" /\ l = 0
    <3>1. b + o + u < e
      BY <1>3, <2>4 DEF PromptAt
    <3>. QED BY <2>4, <3>1, Pauses
  <2>5. CASE m = 2 /\ r2 = 0 /\ p2 = "parse" /\ l = 2
    <3>1. Text(w, c, 2) = <<">">>
      BY <2>2, TextIs DEF PromptAt
    <3>2. Owed(kind, j, done) = << <<">">> >>
      BY ONLY <1>3, kind = "prompt", x = Texts[j], ExpectedIs, Zenon DEF Owed
    <3>3. Owed(kind, j, done) = <<Text(w, b + o, l)>>
      BY ONLY <2>1, <2>5, <3>1, <3>2, Zenon
    <3>4. b + o + m = e
      BY <1>3, <2>5 DEF PromptAt
    <3>5. r2 = 0 /\ p2 = "parse" /\ l # 0
      BY <2>5
    <3>. QED BY ONLY <3>3, <3>4, <3>5, Closes, Zenon
  <2>. QED BY <2>3, <2>4, <2>5 DEF Goes
<1> QED BY <1>2, <1>3

LEMMA CmgrSteps ==
  ASSUME NEW w, NEW b \in Nat, NEW e, NEW kind, kind = "cmgr", NEW j \in 1 .. MaxFrames,
         NEW x, x = Texts[j], x \notin Marks, CmgrAt(w, b, e, x), NEW o, NEW r, NEW done,
         Place(kind, o, r, done), o # 0, NEW u \in Nat, NEW m, NEW r2, NEW p2, NEW l,
         Turn(w, b + o, u, r, m, r2, p2, l)
  PROVE  Stepped(w, b, e, kind, j, o, r, done, u, m, r2, p2, l)
<1>1. kind \in AllKinds
  BY DEF AllKinds
<1>2. (o = 2 /\ r = 1 /\ done = 0)
  BY DEF Place
<1>3. CASE o = 2 /\ r = 1 /\ done = 0
  <2>1. PICK c : c = b + o
    OBVIOUS
  <2>2. c \in Nat /\ c = b + 2 /\ r = 1 /\ Turn(w, c, u, r, m, r2, p2, l)
    BY <1>3, <2>1
  <2>3. Goes(u, r, m, r2, p2, l, 14, 14, 0, 7)
    BY ONLY <2>2, b \in Nat, u \in Nat, x \notin Marks, CmgrAt(w, b, e, x), CmgrTurns
  <2>4. CASE u < 14 /\ m = 0 /\ r2 = r /\ p2 = "wait" /\ l = 0
    <3>1. b + o + u < e
      BY <1>3, <2>4 DEF CmgrAt
    <3>. QED BY <2>4, <3>1, Pauses
  <2>5. CASE m = 14 /\ r2 = 0 /\ p2 = "parse" /\ l = 7
    <3>1. Text(w, c, 7) = <<"+", "CMGR:", x, CR, LF, x>>
      BY <2>2, TextIs DEF CmgrAt
    <3>2. Owed(kind, j, done) = << <<"+", "CMGR:", x, CR, LF, x>> >>
      BY ONLY <1>3, kind = "cmgr", x = Texts[j], ExpectedIs, Zenon DEF Owed
    <3>3. Owed(kind, j, done) = <<Text(w, b + o, l)>>
      BY ONLY <2>1, <2>5, <3>1, <3>2, Zenon
    <3>4. b + o + m = e
      BY <1>3, <2>5 DEF CmgrAt
    <3>5. r2 = 0 /\ p2 = "parse" /\ l # 0
      BY <2>5
    <3>. QED BY ONLY <3>3, <3>4, <3>5, Closes, Zenon
  <2>. QED BY <2>3, <2>4, <2>5 DEF Goes
<1> QED BY <1>2, <1>3

LEMMA ClccSteps ==
  ASSUME NEW w, NEW b \in Nat, NEW e, NEW kind, kind = "clcc", NEW j \in 1 .. MaxFrames,
         NEW x, x = Texts[j], x \notin Marks, ClccAt(w, b, e, x), NEW o, NEW r, NEW done,
         Place(kind, o, r, done), o # 0, NEW u \in Nat, NEW m, NEW r2, NEW p2, NEW l,
         Turn(w, b + o, u, r, m, r2, p2, l)
  PROVE  Stepped(w, b, e, kind, j, o, r, done, u, m, r2, p2, l)
<1>1. kind \in AllKinds
  BY DEF AllKinds
<1>2. (o = 2 /\ r = 1 /\ done = 0) \/ (o = 12 /\ r = 0 /\ done = 1) \/ (o = 14 /\ r = 1 /\ done = 1)
  BY DEF Place
<1>3. CASE o = 2 /\ r = 1 /\ done = 0
  <2>1. PICK c : c = b + o
    OBVIOUS
  <2>2. c \in Nat /\ c = b + 2 /\ r = 1 /\ Turn(w, c, u, r, m, r2, p2, l)
    BY <1>3, <2>1
  <2>3. Goes(u, r, m, r2, p2, l, 16, 10, 0, 9)
    BY ONLY <2>2, b \in Nat, u \in Nat, x \notin Marks, ClccAt(w, b, e, x), ClccTurns
  <2>4. CASE u < 16 /\ m = 0 /\ r2 = r /\ p2 = "wait" /\ l = 0
    <3>1. b + o + u < e
      BY <1>3, <2>4 DEF ClccAt
    <3>. QED BY <2>4, <3>1, Pauses
  <2>5. CASE m = 10 /\ r2 = 0 /\ p2 = "parse" /\ l = 9
    <3>1. Text(w, c, 9) = <<"+", "CLCC:", x, CR, LF, "+", "CLCC:", x>>
      BY <2>2, TextIs DEF ClccAt
    <3>2. Owed(kind, j, done) = << <<"+", "CLCC:", x, CR, LF, "+", "CLCC:", x>>, <<"O", "K">> >>
      BY ONLY <1>3, kind = "clcc", x = Texts[j], ExpectedIs, Zenon DEF Owed
    <3>3. Owed(kind, j, 1) = << <<"O", "K">> >>
      BY DEF Owed
    <3>4. PICK t, ok : t = <<"+", "CLCC:", x, CR, LF, "+", "CLCC:", x>> /\ ok = <<"O", "K">>
      BY Zenon
    <3>5. <<t, ok>> = <<t>> \o <<ok>>
      BY ONLY TwoOf, Zenon
    <3>6. Out(w, b + o, l) = <<t>>
      <4>1. l # 0
        BY <2>5
      <4>. QED BY ONLY <2>1, <2>5, <3>1, <3>4, <4>1, Zenon DEF Out
    <3>7. Owed(kind, j, done) = Out(w, b + o, l) \o Owed(kind, j, 1)
      BY ONLY <3>2, <3>3, <3>4, <3>5, <3>6, Zenon
    <3>8. Place(kind, o + m, r2, 1)
      BY <1>3, <2>5 DEF Place
    <3>. QED BY ONLY <2>5, <3>7, <3>8, Zenon DEF Stepped
  <2>. QED BY <2>3, <2>4, <2>5 DEF Goes
<1>4. CASE o = 12 /\ r = 0 /\ done = 1
  <2>1. PICK c : c = b + o
    OBVIOUS
  <2>2. c \in Nat /\ c = b + 12 /\ r = 0 /\ Turn(w, c, u, r, m, r2, p2, l)
    BY <1>4, <2>1
  <2>3. Goes(u, r, m, r2, p2, l, 2, 2, 1, 0)
    BY ONLY <2>2, b \in Nat, u \in Nat, x \notin Marks, ClccAt(w, b, e, x), ClccTurns
  <2>4. CASE u < 2 /\ m = 0 /\ r2 = r /\ p2 = "wait" /\ l = 0
    <3>1. b + o + u < e
      BY <1>4, <2>4 DEF ClccAt
    <3>. QED BY <2>4, <3>1, Pauses
  <2>5. CASE m = 2 /\ r2 = 1 /\ p2 = "parse" /\ l = 0
    <3>1. Place(kind, o + m, r2, done)
      BY <1>4, <2>5 DEF Place
    <3>. QED BY <1>1, <2>5, <3>1, Stays
  <2>. QED BY <2>3, <2>4, <2>5 DEF Goes
<1>5. CASE o = 14 /\ r = 1 /\ done = 1
  <2>1. PICK c : c = b + o
    OBVIOUS
  <2>2. c \in Nat /\ c = b + 14 /\ r = 1 /\ Turn(w, c, u, r, m, r2, p2, l)
    BY <1>5, <2>1
  <2>3. Goes(u, r, m, r2, p2, l, 4, 4, 0, 3)
    BY ONLY <2>2, b \in Nat, u \in Nat, x \notin Marks, ClccAt(w, b, e, x), ClccTurns
  <2>4. CASE u < 4 /\ m = 0 /\ r2 = r /\ p2 = "wait" /\ l = 0
    <3>1. b + o + u < e
      BY <1>5, <2>4 DEF ClccAt
    <3>. QED BY <2>4, <3>1, Pauses
  <2>5. CASE m = 4 /\ r2 = 0 /\ p2 = "parse" /\ l = 3
    <3>1. Text(w, c, 3) = <<"O", "K">>
      BY <2>2, TextIs DEF ClccAt
    <3>2. Owed(kind, j, done) = << <<"O", "K">> >>
      BY <1>5 DEF Owed
    <3>3. Owed(kind, j, done) = <<Text(w, b + o, l)>>
      BY ONLY <2>1, <2>5, <3>1, <3>2, Zenon
    <3>4. b + o + m = e
      BY <1>5, <2>5 DEF ClccAt
    <3>5. r2 = 0 /\ p2 = "parse" /\ l # 0
      BY <2>5
    <3>. QED BY ONLY <3>3, <3>4, <3>5, Closes, Zenon
  <2>. QED BY <2>3, <2>4, <2>5 DEF Goes
<1> QED BY <1>2, <1>3, <1>4, <1>5

LEMMA CssiSteps ==
  ASSUME NEW w, NEW b \in Nat, NEW e, NEW kind, kind = "cssi", NEW j \in 1 .. MaxFrames,
         NEW x, x = Texts[j], x \notin Marks, CssiAt(w, b, e, x), NEW o, NEW r, NEW done,
         Place(kind, o, r, done), o # 0, NEW u \in Nat, NEW m, NEW r2, NEW p2, NEW l,
         Turn(w, b + o, u, r, m, r2, p2, l)
  PROVE  Stepped(w, b, e, kind, j, o, r, done, u, m, r2, p2, l)
<1>1. kind \in AllKinds
  BY DEF AllKinds
<1>2. (o = 2 /\ r = 1 /\ done = 0)
  BY DEF Place
<1>3. CASE o = 2 /\ r = 1 /\ done = 0
  <2>1. PICK c : c = b + o
    OBVIOUS
  <2>2. c \in Nat /\ c = b + 2 /\ r = 1 /\ Turn(w, c, u, r, m, r2, p2, l)
    BY <1>3, <2>1
  <2>3. Goes(u, r, m, r2, p2, l, 3, 3, 0, 3)
    BY ONLY <2>2, b \in Nat, u \in Nat, x \notin Marks, CssiAt(w, b, e, x), CssiTurns
  <2>4. CASE u < 3 /\ m = 0 /\ r2 = r /\ p2 = "wait" /\ l = 0
    <3>1. b + o + u < e
      BY <1>3, <2>4 DEF CssiAt
    <3>. QED BY <2>4, <3>1, Pauses
  <2>5. CASE m = 3 /\ r2 = 0 /\ p2 = "parse" /\ l = 3
    <3>1. Text(w, c, 3) = <<"+", "CSSI:">>
      BY <2>2, TextIs DEF CssiAt
    <3>2. Owed(kind, j, done) = << <<"+", "CSSI:">> >>
      BY ONLY <1>3, kind = "cssi", x = Texts[j], ExpectedIs, Zenon DEF Owed
    <3>3. Owed(kind, j, done) = <<Text(w, b + o, l)>>
      BY ONLY <2>1, <2>5, <3>1, <3>2, Zenon
    <3>4. b + o + m = e
      BY <1>3, <2>5 DEF CssiAt
    <3>5. r2 = 0 /\ p2 = "parse" /\ l # 0
      BY <2>5
    <3>. QED BY ONLY <3>3, <3>4, <3>5, Closes, Zenon
  <2>. QED BY <2>3, <2>4, <2>5 DEF Goes
<1> QED BY <1>2, <1>3

LEMMA CmgsSteps ==
  ASSUME NEW w, NEW b \in Nat, NEW e, NEW kind, kind = "cmgs", NEW j \in 1 .. MaxFrames,
         NEW x, x = Texts[j], x \notin Marks, CmgsAt(w, b, e, x), NEW o, NEW r, NEW done,
         Place(kind, o, r, done), o # 0, NEW u \in Nat, NEW m, NEW r2, NEW p2, NEW l,
         Turn(w, b + o, u, r, m, r2, p2, l),
         o = 2 => u \notin {2, 3}
  PROVE  Stepped(w, b, e, kind, j, o, r, done, u, m, r2, p2, l)
<1>1. kind \in AllKinds
  BY DEF AllKinds
<1>2. (o = 2 /\ r = 1 /\ done = 0) \/ (o = 4 /\ r = 1 /\ done = 0)
  BY DEF Place
<1>3. CASE o = 2 /\ r = 1 /\ done = 0
  <2>1. PICK c : c = b + o
    OBVIOUS
  <2>2. c \in Nat /\ c = b + 2 /\ r = 1 /\ Turn(w, c, u, r, m, r2, p2, l)
    BY <1>3, <2>1
  <2>. u \notin {2, 3}
    BY <1>3
  <2>3. Goes(u, r, m, r2, p2, l, 4, 2, 1, 0)
    BY ONLY <2>2, b \in Nat, u \in Nat, x \notin Marks, CmgsAt(w, b, e, x), u \notin {2, 3},
            CmgsTurns
  <2>4. CASE u < 4 /\ m = 0 /\ r2 = r /\ p2 = "wait" /\ l = 0
    <3>1. b + o + u < e
      BY <1>3, <2>4 DEF CmgsAt
    <3>. QED BY <2>4, <3>1, Pauses
  <2>5. CASE m = 2 /\ r2 = 1 /\ p2 = "parse" /\ l = 0
    <3>1. Place(kind, o + m, r2, done)
      BY <1>3, <2>5 DEF Place
    <3>. QED BY <1>1, <2>5, <3>1, Stays
  <2>. QED BY <2>3, <2>4, <2>5 DEF Goes
<1>4. CASE o = 4 /\ r = 1 /\ done = 0
  <2>1. PICK c : c = b + o
    OBVIOUS
  <2>2. c \in Nat /\ c = b + 4 /\ r = 1 /\ Turn(w, c, u, r, m, r2, p2, l)
    BY <1>4, <2>1
  <2>3. Goes(u, r, m, r2, p2, l, 5, 5, 0, 4)
    BY ONLY <2>2, b \in Nat, u \in Nat, x \notin Marks, CmgsAt(w, b, e, x), CmgsTurns
  <2>4. CASE u < 5 /\ m = 0 /\ r2 = r /\ p2 = "wait" /\ l = 0
    <3>1. b + o + u < e
      BY <1>4, <2>4 DEF CmgsAt
    <3>. QED BY <2>4, <3>1, Pauses
  <2>5. CASE m = 5 /\ r2 = 0 /\ p2 = "parse" /\ l = 4
    <3>1. Text(w, c, 4) = <<"+", "CMGS:", x>>
      BY <2>2, TextIs DEF CmgsAt
    <3>2. Owed(kind, j, done) = << <<"+", "CMGS:", x>> >>
      BY ONLY <1>4, kind = "cmgs", x = Texts[j], ExpectedIs, Zenon DEF Owed
    <3>3. Owed(kind, j, done) = <<Text(w, b + o, l)>>
      BY ONLY <2>1, <2>5, <3>1, <3>2, Zenon
    <3>4. b + o + m = e
      BY <1>4, <2>5 DEF CmgsAt
    <3>5. r2 = 0 /\ p2 = "parse" /\ l # 0
      BY <2>5
    <3>. QED BY ONLY <3>3, <3>4, <3>5, Closes, Zenon
  <2>. QED BY <2>3, <2>4, <2>5 DEF Goes
<1> QED BY <1>2, <1>3, <1>4

LEMMA LongSteps ==
  ASSUME NEW w, NEW b \in Nat, NEW e, NEW kind, kind = "long", NEW j \in 1 .. MaxFrames,
         NEW x, x \notin Marks, LongAt(w, b, e, x), NEW o, NEW r, NEW done,
         Place(kind, o, r, done), o # 0, NEW u \in Nat, u <= Size, NEW m, NEW r2, NEW p2,
         NEW l, Turn(w, b + o, u, r, m, r2, p2, l)
  PROVE  Stepped(w, b, e, kind, j, o, r, done, u, m, r2, p2, l)
<1>1. o = 2 /\ r = 1
  BY DEF Place
<1>2. PICK c : c = b + o
  OBVIOUS
<1>3. c \in Nat /\ c = b + 2 /\ r = 1 /\ Turn(w, c, u, r, m, r2, p2, l)
  BY <1>1, <1>2
<1>4. Goes(u, r, m, r2, p2, l, Size + 4, Size + 4, 0, Size + 3)
  BY ONLY <1>3, b \in Nat, u \in Nat, x \notin Marks, LongAt(w, b, e, x), LongTurns
<1>5. ~(u >= Size + 4) /\ b + o + u < e
  BY SizeAssumption, <1>1 DEF LongAt
<1> QED BY <1>4, <1>5, Pauses DEF Goes

LEMMA Steps ==
  ASSUME NEW w, NEW b \in Nat, NEW e, NEW kind \in AllKinds, NEW j \in 1 .. MaxFrames,
         Laid(w, b, e, kind, Texts[j]), NEW o, NEW r, NEW done, Place(kind, o, r, done),
         NEW u \in Nat, u <= Size, kind = "cmgs" /\ o = 2 => u \notin {2, 3},
         NEW m, NEW r2, NEW p2, NEW l, Turn(w, b + o, u, r, m, r2, p2, l)
  PROVE  Stepped(w, b, e, kind, j, o, r, done, u, m, r2, p2, l)
<1>1. PICK x : x = Texts[j]
  OBVIOUS
<1>2. x \notin Marks
  BY <1>1, TextsAssumption
<1>3. CASE o = 0
  <2>1. r = 0 /\ done = 0
    BY <1>3 DEF Place
  <2>2. Turn(w, b + 0, u, 0, m, r2, p2, l)
    BY ONLY <1>3, <2>1, Turn(w, b + o, u, r, m, r2, p2, l), Zenon
  <2>3. Stepped(w, b, e, kind, j, 0, 0, 0, u, m, r2, p2, l)
    BY <2>2, OpensFirst
  <2>. QED BY ONLY <1>3, <2>1, <2>3, Zenon
<1>4. CASE o # 0
  <2>1. CASE kind = "ok"
    <3>1. OkAt(w, b, e, x)
      BY <1>1, <2>1 DEF Laid
    <3>. QED BY <1>1, <1>2, <1>4, <2>1, <3>1, OkSteps
  <2>2. CASE kind = "creg"
    <3>1. CregAt(w, b, e, x)
      BY <1>1, <2>2 DEF Laid
    <3>. QED BY <1>1, <1>2, <1>4, <2>2, <3>1, CregSteps
  <2>3. CASE kind = "prompt"
    <3>1. PromptAt(w, b, e, x)
      BY <1>1, <2>3 DEF Laid
    <3>. QED BY <1>1, <1>2, <1>4, <2>3, <3>1, PromptSteps
  <2>4. CASE kind = "cmgr"
    <3>1. CmgrAt(w, b, e, x)
      BY <1>1, <2>4 DEF Laid
    <3>. QED BY <1>1, <1>2, <1>4, <2>4, <3>1, CmgrSteps
  <2>5. CASE kind = "clcc"
    <3>1. ClccAt(w, b, e, x)
      BY <1>1, <2>5 DEF Laid
    <3>. QED BY <1>1, <1>2, <1>4, <2>5, <3>1, ClccSteps
  <2>6. CASE kind = "cssi"
    <3>1. CssiAt(w, b, e, x)
      BY <1>1, <2>6 DEF Laid
    <3>. QED BY <1>1, <1>2, <1>4, <2>6, <3>1, CssiSteps
  <2>7. CASE kind = "cmgs"
    <3>1. CmgsAt(w, b, e, x)
      BY <1>1, <2>7 DEF Laid
    <3>. QED BY <1>1, <1>2, <1>4, <2>7, <3>1, CmgsSteps
  <2>8. CASE kind = "long"
    <3>1. LongAt(w, b, e, x)
      BY <1>1, <2>8 DEF Laid
    <3>. QED BY <1>1, <1>2, <1>4, <2>8, <3>1, LongSteps
  <2>. QED BY <2>1, <2>2, <2>3, <2>4, <2>5, <2>6, <2>7, <2>8, Zenon DEF AllKinds
<1> QED BY <1>3, <1>4

-----------------------------------------------------------------------------
(* The parser is in step: it stands in an answer from b on, or at the end   *)
(* of the last one, and what it has delivered and is to deliver make goal.  *)
Due(k, done) ==
  IF done = 0 THEN ExpectedOf(k, Len(frames))
  ELSE << <<"O", "K">> >> \o ExpectedOf(k + 1, Len(frames))

Stands(k, o, r, done) ==
  \/ o = 0 /\ r = 0 /\ done = 0
  \/ k <= Len(frames) /\ Place(frames[k], o, r, done)

InStep(b, goal) ==
  \E k \in b .. (Len(frames) + 1), o \in Nat, done \in {0, 1} :
    /\ Here = Base(frames, k) + o
    /\ Stands(k, o, read_result, done)
    /\ delivered \o Due(k, done) = goal

LEMMA DueIs ==
  ASSUME Possible(frames), NEW k \in 1 .. Len(frames), NEW done
  PROVE  Due(k, done) = Owed(frames[k], k, done) \o ExpectedOf(k + 1, Len(frames))
BY ONLY Possible(frames), k \in 1 .. Len(frames), ExpectedStep, Zenon DEF Due, Owed

(* What a step leaves alone. *)
LEMMA SameAnswers ==
  ASSUME frames' = frames
  PROVE  /\ \A k : Base(frames, k)' = Base(frames, k)
         /\ \A k, done : Due(k, done)' = Due(k, done)
         /\ Len(frames)' = Len(frames)
<1>1. \A k : Base(frames, k)' = Base(frames, k)
  BY Zenon DEF Base, All, Sent
<1>2. \A k, done : Due(k, done)' = Due(k, done)
  BY Zenon DEF Due, ExpectedOf
<1> QED BY <1>1, <1>2

LEMMA InStepStays ==
  ASSUME NEW b, NEW goal, InStep(b, goal), frames' = frames, Here' = Here,
         read_result' = read_result, delivered' = delivered
  PROVE  InStep(b, goal)'
<1>1. PICK k \in b .. (Len(frames) + 1), o \in Nat, done \in {0, 1} :
        /\ Here = Base(frames, k) + o
        /\ Stands(k, o, read_result, done)
        /\ delivered \o Due(k, done) = goal
  BY Zenon DEF InStep
<1>2. /\ Base(frames, k)' = Base(frames, k) /\ Due(k, done)' = Due(k, done)
      /\ Stands(k, o, read_result, done)'
      /\ Len(frames)' = Len(frames)
  <2>1. Stands(k, o, read_result, done)'
    BY ONLY <1>1, read_result' = read_result, frames' = frames, Zenon DEF Stands, Place
  <2>. QED BY <2>1, SameAnswers
<1> QED BY ONLY <1>1, <1>2, Here' = Here, delivered' = delivered, Zenon DEF InStep

(* A turn keeps the parser in step, unless a read tore a doubled break. *)
LEMMA InStepTurn ==
  ASSUME Flow, NEW m, NEW l, Turned(m, l), NEW b \in 1 .. (Len(frames) + 1), damage < b,
         NEW goal, InStep(b, goal)
  PROVE  InStep(b, goal)'
<1>1. PICK k \in b .. (Len(frames) + 1), o \in Nat, done \in {0, 1} :
        /\ Here = Base(frames, k) + o
        /\ Stands(k, o, read_result, done)
        /\ delivered \o Due(k, done) = goal
  BY Zenon DEF InStep
<1>2. PICK w, n, c, u, r, r2, p2, d, e, f :
        /\ w = All(frames) /\ n = Len(frames) /\ c = Here /\ u = rb.used
        /\ r = read_result /\ r2 = read_result' /\ p2 = pc' /\ d = delivered
        /\ e = Base(frames, k) /\ f = Base(frames, k + 1)
  BY Zenon
<1>3. /\ u \in Nat /\ u <= Size /\ c \in Nat /\ w \in Seq(Tokens) /\ Len(w) \in Nat
      /\ Got <= Len(w) /\ Got = c + u /\ Possible(frames) /\ Len(rest) \in Nat
      /\ Len(w) - Len(rest) = Got /\ n \in Nat
  <2>1. Stream
    BY DEF Flow
  <2>2. /\ u \in 0 .. Size /\ Size \in Nat /\ Size >= 16 /\ c \in Nat /\ w \in Seq(Tokens)
        /\ Len(w) \in Nat /\ Got <= Len(w) /\ Got = c + u /\ Possible(frames)
        /\ Len(rest) \in Nat /\ Len(rest) = Len(w) - Got /\ Got \in Nat
    BY ONLY <1>2, <2>1, StreamParts, Zenon
  <2>. QED BY <1>2, <2>2 DEF Possible
<1>4. /\ Turn(w, c, u, r, m, r2, p2, l)
      /\ Here' = c + m /\ frames' = frames
      /\ delivered' = IF l = 0 THEN d ELSE Append(d, Text(w, c, l))
  BY ONLY <1>2, Turned(m, l), Zenon DEF Turned, Effects
<1>5. k \in Nat /\ k >= 1 /\ k >= b /\ k <= n + 1
  BY <1>2, <1>3
<1>6. k <= n
  <2> SUFFICES ASSUME ~(k <= n) PROVE FALSE
    OBVIOUS
  <2>1. k = n + 1 /\ o = 0
    BY <1>1, <1>2, <1>3, <1>5 DEF Stands
  <2>2. e = Len(w)
    BY ONLY <1>2, <1>3, <2>1, Layout, Zenon
  <2>3. u >= 1
    BY ONLY <1>4, Zenon DEF Turn
  <2>. QED BY <1>1, <1>2, <1>3, <2>1, <2>2, <2>3
<1>7. k \in 1 .. n /\ k \in 0 .. n /\ k # 0 /\ k \in 1 .. Len(frames) /\ k \in 0 .. Len(frames)
  BY <1>2, <1>3, <1>5, <1>6
<1>8. PICK kind : kind = frames[k]
  OBVIOUS
<1>9. Kind(frames, k) = kind /\ Number(k) = k
  BY ONLY <1>7, <1>8, Zenon DEF Kind, Number
<1>10. kind \in AllKinds /\ k \in 1 .. MaxFrames
  BY ONLY <1>3, <1>7, <1>8, AnswerType, Zenon
<1>11. e \in Nat /\ Laid(w, e, f, kind, Texts[k])
  BY ONLY <1>2, <1>3, <1>7, <1>9, Lies, Zenon
<1>12. c = e + o /\ Place(kind, o, r, done)
  <2>1. o = 0 /\ r = 0 /\ done = 0 => Place(kind, o, r, done)
    BY Zenon DEF Place
  <2>. QED BY ONLY <1>1, <1>2, <1>8, <2>1, Zenon DEF Stands
<1>13. kind = "cmgs" /\ o = 2 => u \notin {2, 3}
  <2> SUFFICES ASSUME kind = "cmgs", o = 2, u \in {2, 3} PROVE FALSE
    OBVIOUS
  <2>1. k \in TornBy(Len(rest)) <=> frames[k] = "cmgs" /\ (Len(w) - Len(rest)) - e \in {4, 5}
    BY ONLY <1>2, <1>3, <1>7, Torn, Zenon
  <2>2. (Len(w) - Len(rest)) - e \in {4, 5}
    BY <1>3, <1>11, <1>12
  <2>3. k <= damage
    BY ONLY <1>8, <2>1, <2>2, kind = "cmgs", Flow, Zenon DEF Flow
  <2>4. damage \in Int /\ b \in Nat
    BY BoundAssumption DEF Flow
  <2>. QED BY <1>5, <2>3, <2>4
<1>14. Stepped(w, e, f, kind, k, o, r, done, u, m, r2, p2, l)
  <2>1. Turn(w, e + o, u, r, m, r2, p2, l)
    BY ONLY <1>4, <1>12, Zenon
  <2>. QED BY ONLY <1>3, <1>10, <1>11, <1>12, <1>13, <2>1, o \in Nat, Steps
<1>15. PICK S, out, tail : S = Seq(Tokens) /\ out = Out(w, c, l) /\ tail = ExpectedOf(k + 1, n)
  BY Zenon
<1>16. m \in 0 .. u /\ l \in 0 .. u
  BY ONLY <1>3, <1>4, TurnRange
<1>17. out \in Seq(S) /\ delivered' = d \o out /\ d \in Seq(S)
  <2>1. d \in Seq(S)
    BY ONLY <1>2, <1>15, Flow, Zenon DEF Flow
  <2>2. CASE l = 0
    <3>1. out = <<>> /\ delivered' = d
      BY <1>4, <1>15, <2>2 DEF Out
    <3>. QED BY <2>1, <3>1, ConcatEmptySeq
  <2>3. CASE l # 0
    <3>1. PICK t : t = Text(w, c, l)
      OBVIOUS
    <3>2. t \in S
      <4>1. l \in Nat /\ c + l - 1 <= Len(w)
        BY <1>3, <1>16
      <4>. QED BY ONLY <1>3, <1>15, <3>1, <4>1, TextType
    <3>3. out = <<t>> /\ delivered' = Append(d, t)
      BY ONLY <1>4, <1>15, <2>3, <3>1, Zenon DEF Out
    <3>. QED BY ONLY <2>1, <3>2, <3>3
  <2>. QED BY <2>2, <2>3
<1>18. tail \in Seq(S) /\ d \o Due(k, done) = goal /\ Due(k, done) = Owed(kind, k, done) \o tail
  BY ONLY <1>1, <1>2, <1>3, <1>7, <1>8, <1>15, ExpectedStep, DueIs, Zenon
<1>19. \A g : Owed(kind, k, g) \in Seq(S)
  BY ONLY <1>10, <1>15, OwedType, Zenon
<1>20. /\ \A i : Base(frames, i)' = Base(frames, i)
       /\ \A i, g : Due(i, g)' = Due(i, g)
       /\ Len(frames)' = Len(frames)
  BY <1>4, SameAnswers
<1>21. ASSUME NEW i \in b .. (n + 1), NEW o2 \in Nat, NEW g \in {0, 1},
              c + m = Base(frames, i) + o2, Stands(i, o2, r2, g), delivered' \o Due(i, g) = goal
       PROVE  InStep(b, goal)'
  <2>1. Stands(i, o2, read_result, g)'
    BY ONLY <1>2, <1>4, <1>21, Zenon DEF Stands, Place
  <2>. QED BY ONLY <1>2, <1>4, <1>20, <1>21, <2>1, Zenon DEF InStep
<1>22. CASE m = 0 /\ r2 = r /\ l = 0
  <2>1. Here' = Here /\ read_result' = read_result /\ delivered' = delivered
    BY <1>2, <1>3, <1>4, <1>22
  <2>. QED BY <1>4, <2>1, InStepStays
<1>23. CASE \E g : /\ Place(kind, o + m, r2, g)
                   /\ Owed(kind, k, done) = Out(w, e + o, l) \o Owed(kind, k, g)
  <2>1. PICK g : /\ Place(kind, o + m, r2, g)
                 /\ Owed(kind, k, done) = Out(w, e + o, l) \o Owed(kind, k, g)
    BY <1>23
  <2>2. g \in {0, 1}
    BY <2>1 DEF Place
  <2>3. PICK old, later : old = Owed(kind, k, done) /\ later = Owed(kind, k, g)
    BY Zenon
  <2>4. later \in Seq(S) /\ old = out \o later /\ Due(k, g) = later \o tail
    BY ONLY <1>2, <1>3, <1>7, <1>8, <1>12, <1>15, <1>19, <2>1, <2>3, DueIs, Zenon
  <2>5. (d \o out) \o (later \o tail) = d \o ((out \o later) \o tail)
    <3>1. d \in Seq(S) /\ out \in Seq(S) /\ later \in Seq(S) /\ tail \in Seq(S)
      BY <1>17, <1>18, <2>4
    <3>2. (out \o later) \o tail = out \o (later \o tail)
      <4>1. out \in Seq(S) /\ later \in Seq(S) /\ tail \in Seq(S)
        BY <3>1
      <4>. QED BY ONLY <4>1, ConcatAssociative
    <3>3. PICK z : z = later \o tail
      OBVIOUS
    <3>4. z \in Seq(S)
      BY ONLY <3>1, <3>3, ConcatProperties
    <3>5. (d \o out) \o z = d \o (out \o z)
      BY ONLY <3>1, <3>4, ConcatAssociative
    <3>. QED BY ONLY <3>2, <3>3, <3>5, Zenon
  <2>6. delivered' \o Due(k, g) = goal
    BY ONLY <1>17, <1>18, <2>3, <2>4, <2>5, Zenon
  <2>7. Stands(k, o + m, r2, g)
    BY ONLY <1>2, <1>6, <1>8, <2>1, Zenon DEF Stands
  <2>8. k \in b .. (n + 1) /\ o + m \in Nat /\ c + m = Base(frames, k) + (o + m)
    BY <1>2, <1>3, <1>11, <1>12, <1>16
  <2>. QED BY ONLY <1>21, <2>2, <2>6, <2>7, <2>8, Zenon
<1>24. CASE e + o + m = f /\ r2 = 0 /\ Owed(kind, k, done) = Out(w, e + o, l)
  <2>1. PICK old : old = Owed(kind, k, done)
    OBVIOUS
  <2>2. old = out
    BY ONLY <1>12, <1>15, <1>24, <2>1, Zenon
  <2>3. (d \o out) \o tail = d \o (out \o tail)
    <3>1. d \in Seq(S) /\ out \in Seq(S) /\ tail \in Seq(S)
      BY <1>17, <1>18
    <3>. QED BY ONLY <3>1, ConcatAssociative
  <2>4. Due(k + 1, 0) = tail
    BY ONLY <1>2, <1>15, Zenon DEF Due
  <2>5. delivered' \o Due(k + 1, 0) = goal
    BY ONLY <1>17, <1>18, <2>1, <2>2, <2>3, <2>4, Zenon
  <2>6. Stands(k + 1, 0, r2, 0)
    BY <1>24 DEF Stands
  <2>7. k + 1 \in b .. (n + 1) /\ 0 \in Nat /\ 0 \in {0, 1} /\ c + m = Base(frames, k + 1) + 0
    <3>1. f \in Nat
      BY ONLY <1>2, <1>3, <1>7, Grows, Zenon
    <3>. QED BY <1>2, <1>5, <1>6, <1>12, <1>24, <3>1, b \in Nat
  <2>. QED BY ONLY <1>21, <2>5, <2>6, <2>7, Zenon
<1> QED BY ONLY <1>14, <1>22, <1>23, <1>24, Zenon DEF Stepped

-----------------------------------------------------------------------------
(* Every step.                                                             *)

LEMMA FirstBase ==
  ASSUME Possible(frames)
  PROVE  Base(frames, 1) = 16
<1>1. 0 \in 0 .. Len(frames) /\ 0 + 1 = 1
  BY DEF Possible
<1>2. Kind(frames, 0) = "cmgr" /\ Base(frames, 0) = 0
  BY Zenon DEF Kind, Base
<1>3. Laid(All(frames), 0, Base(frames, 1), "cmgr", Texts[Number(0)])
  BY ONLY <1>1, <1>2, Possible(frames), Lies, Zenon
<1>4. Base(frames, 1) = 0 + 16
  BY ONLY <1>3, Zenon DEF Laid, CmgrAt
<1> QED BY <1>4

LEMMA FlowNext ==
  ASSUME Flow, [ReadNext]_readVars
  PROVE  /\ Flow' /\ frames' = frames /\ damage <= damage' /\ cut \subseteq cut'
         /\ \/ \E m, l : Turned(m, l)
            \/ Here' = Here /\ read_result' = read_result /\ delivered' = delivered
<1>1. CASE Read
  BY <1>1, FlowRead
<1>2. CASE at_read_result_iov
  <2>1. Stream /\ damage \in Int
    BY BoundAssumption DEF Flow
  <2>2. PICK m, l : Turned(m, l)
    BY <1>2, <2>1, ParserTurns
  <2>3. Flow'
    BY <2>2, FlowTurn
  <2>4. frames' = frames /\ damage' = damage /\ cut' = cut
    BY ONLY <2>2, Zenon DEF Turned, Effects
  <2>. QED BY <2>1, <2>2, <2>3, <2>4
<1>3. CASE Overflow \/ NothingLeft \/ UNCHANGED readVars
  <2>1. Stream /\ damage \in Int
    BY BoundAssumption DEF Flow
  <2>2. /\ frames' = frames /\ rest' = rest /\ rb' = rb /\ read_result' = read_result
        /\ delivered' = delivered /\ damage' = damage /\ cut' = cut
    BY <1>3, Zenon DEF Overflow, NothingLeft, More, readVars
  <2>3. Here' = Here
    BY <2>1, <2>2, StreamSame
  <2>4. Flow'
    BY <1>3, FlowOther
  <2>. QED BY <2>1, <2>2, <2>3, <2>4
<1> QED BY ONLY <1>1, <1>2, <1>3, [ReadNext]_readVars, Zenon DEF ReadNext

LEMMA InStepNext ==
  ASSUME Flow, [ReadNext]_readVars, NEW b \in 1 .. (Len(frames) + 1), damage < b,
         NEW goal, InStep(b, goal)
  PROVE  InStep(b, goal)'
<1>1. CASE \E m, l : Turned(m, l)
  BY <1>1, InStepTurn
<1>2. CASE Here' = Here /\ read_result' = read_result /\ delivered' = delivered
  <2>1. frames' = frames
    BY FlowNext
  <2>. QED BY <1>2, <2>1, InStepStays
<1> QED BY <1>1, <1>2, FlowNext

(* A parser in step has delivered all when the port is empty. *)
LEMMA InStepEnd ==
  ASSUME Flow, AllRead, NEW b \in 1 .. (Len(frames) + 1), NEW goal, InStep(b, goal)
  PROVE  delivered = goal
<1>1. PICK k \in b .. (Len(frames) + 1), o \in Nat, done \in {0, 1} :
        /\ Here = Base(frames, k) + o
        /\ Stands(k, o, read_result, done)
        /\ delivered \o Due(k, done) = goal
  BY Zenon DEF InStep
<1>2. PICK w, n, c, u, r, e, f :
        /\ w = All(frames) /\ n = Len(frames) /\ c = Here /\ u = rb.used
        /\ r = read_result /\ e = Base(frames, k) /\ f = Base(frames, k + 1)
  BY Zenon
<1>3. Stream /\ delivered \in Seq(Seq(Tokens))
  BY DEF Flow
<1>4. /\ u \in Nat /\ u <= Size /\ c \in Nat /\ Len(w) \in Nat /\ c + u = Len(w)
      /\ Possible(frames) /\ n \in Nat /\ Base(frames, n + 1) = Len(w)
  <2>1. /\ u \in 0 .. Size /\ Size \in Nat /\ Size >= 16 /\ c \in Nat
        /\ Len(w) \in Nat /\ Got = c + u /\ Possible(frames) /\ Got = Len(w) - Len(rest)
    BY ONLY <1>2, <1>3, StreamParts, Zenon DEF Got
  <2>2. Len(rest) = 0
    BY DEF AllRead
  <2>3. Base(frames, n + 1) = Len(w)
    BY ONLY <1>2, <2>1, Layout, Zenon
  <2>. QED BY <1>2, <2>1, <2>2, <2>3 DEF Possible
<1>5. k \in Nat /\ k >= 1 /\ k <= n + 1
  BY <1>2, <1>4
<1>6. CASE k = n + 1
  <2>1. done = 0
    BY <1>2, <1>4, <1>6, <1>1 DEF Stands
  <2>2. Due(k, done) = <<>>
    BY ONLY <1>2, <1>4, <1>6, <2>1, ExpectedEnd, Zenon DEF Due
  <2>3. delivered \o <<>> = delivered
    BY <1>3, ConcatEmptySeq
  <2>. QED BY <1>1, <2>2, <2>3
<1>7. CASE k # n + 1
  <2>1. k \in 1 .. n /\ k \in 0 .. n /\ k # 0 /\ k <= n /\ k + 1 <= n + 1
        /\ k + 1 \in 0 .. (n + 1) /\ n + 1 \in 0 .. (n + 1)
    BY <1>4, <1>5, <1>7
  <2>2. PICK kind : kind = frames[k]
    OBVIOUS
  <2>3. Kind(frames, k) = kind /\ Number(k) = k
    BY ONLY <2>1, <2>2, Zenon DEF Kind, Number
  <2>4. kind \in AllKinds /\ k \in 1 .. MaxFrames
    BY ONLY <1>2, <1>4, <2>1, <2>2, AnswerType, Zenon
  <2>5. e \in Nat /\ f \in Nat /\ e + 4 <= f /\ Laid(w, e, f, kind, Texts[k]) /\ f <= Len(w)
    BY ONLY <1>2, <1>4, <2>1, <2>3, Lies, Grows, Ordered, Zenon
  <2>6. c = e + o /\ Place(kind, o, r, done)
    <3>1. o = 0 /\ r = 0 /\ done = 0 => Place(kind, o, r, done)
      BY Zenon DEF Place
    <3>. QED BY ONLY <1>1, <1>2, <2>2, <3>1, Zenon DEF Stands
  <2>7. o < f - e
    <3>1. Size \in Nat
      BY SizeAssumption
    <3>. QED BY ONLY <2>4, <2>5, <2>6, <3>1, o \in Nat
             DEF AllKinds, Place, Laid, OkAt, CregAt, PromptAt, CmgrAt, ClccAt, CssiAt, CmgsAt,
                 LongAt
  <2>8. u > 0 /\ ~(e + o + u < f)
    BY <1>4, <2>5, <2>6, <2>7
  <2>9. Awaits(w, c, u, r)
    BY ONLY <1>2, <2>8, Flow, AllRead, Zenon DEF Flow, AllRead
  <2>10. Turn(w, e + o, u, r, 0, r, "wait", 0)
    BY ONLY <2>6, <2>9, Zenon DEF Awaits
  <2>11. kind = "cmgs" /\ o = 2 => u \notin {2, 3}
    <3> SUFFICES ASSUME kind = "cmgs", o = 2 PROVE u \notin {2, 3}
      OBVIOUS
    <3>1. f = e + 9
      BY ONLY <2>5, kind = "cmgs", Zenon DEF Laid, CmgsAt
    <3>. QED BY <1>4, <2>5, <2>8, <3>1
  <2>12. Stepped(w, e, f, kind, k, o, r, done, u, 0, r, "wait", 0)
    BY ONLY <1>4, <2>4, <2>5, <2>6, <2>10, <2>11, o \in Nat, Steps
  <2>13. "wait" # "parse"
    OBVIOUS
  <2>. QED BY ONLY <2>8, <2>12, <2>13, Zenon DEF Stepped
<1> QED BY <1>6, <1>7

-----------------------------------------------------------------------------
(* The theorems.                                                           *)

LEMMA FlowTyped ==
  ASSUME Flow
  PROVE  ReadTypeOK
<1>1. Stream
  BY DEF Flow
<1>2. Possible(frames) /\ rest \in Seq(Tokens) /\ Ring(rb)
  BY <1>1 DEF Stream
<1> QED BY ONLY <1>2, Flow, Zenon DEF Flow, Possible, Ring, ReadTypeOK

(* As long as nothing was damaged, the parser is in step with answer 1. *)
Follows == damage < 0 => InStep(1, ExpectedOf(1, Len(frames)))

LEMMA InitFollows ==
  ASSUME ReadInit
  PROVE  Follows
<1> SUFFICES ASSUME damage < 0 PROVE InStep(1, ExpectedOf(1, Len(frames)))
  BY DEF Follows
<1>1. Stream /\ rb.used = 0 /\ Got = 16
  BY InitParts
<1>2. Possible(frames) /\ Here = 16
  BY <1>1, StreamParts
<1>3. Base(frames, 1) = 16 /\ Len(frames) \in Nat
  BY <1>2, FirstBase DEF Possible
<1>4. delivered = <<>> /\ read_result = 0
  BY DEF ReadInit
<1>5. PICK goal : goal = ExpectedOf(1, Len(frames))
  OBVIOUS
<1>6. goal \in Seq(Seq(Tokens))
  <2>1. CASE Len(frames) = 0
    <3>1. Len(frames) + 1 = 1
      BY <2>1
    <3>2. goal = <<>>
      BY ONLY <1>2, <1>5, <3>1, ExpectedEnd, Zenon
    <3>. QED BY <3>2
  <2>2. CASE Len(frames) # 0
    <3>1. 1 \in 1 .. Len(frames)
      BY <1>3, <2>2
    <3>. QED BY ONLY <1>2, <1>5, <3>1, ExpectedStep, Zenon
  <2>. QED BY <2>1, <2>2
<1>7. delivered \o Due(1, 0) = goal
  <2>1. Due(1, 0) = goal
    BY <1>5 DEF Due
  <2>. QED BY <1>4, <1>6, <2>1, ConcatEmptySeq
<1>8. Here = Base(frames, 1) + 0 /\ Stands(1, 0, read_result, 0)
  BY <1>2, <1>3, <1>4 DEF Stands
<1>9. 1 \in 1 .. (Len(frames) + 1) /\ 0 \in Nat /\ 0 \in {0, 1}
  BY <1>3
<1> QED BY ONLY <1>5, <1>7, <1>8, <1>9, Zenon DEF InStep

LEMMA FollowsNext ==
  ASSUME Flow, [ReadNext]_readVars, Follows
  PROVE  Follows'
<1> SUFFICES ASSUME (damage < 0)' PROVE InStep(1, ExpectedOf(1, Len(frames)))'
  BY DEF Follows
<1>1. frames' = frames /\ damage <= damage' /\ Flow'
  BY FlowNext
<1>2. damage < 0 /\ damage < 1
  <2>1. damage \in Int /\ damage' \in Int
    BY <1>1, BoundAssumption DEF Flow
  <2>. QED BY <1>1, <2>1
<1>3. PICK goal : goal = ExpectedOf(1, Len(frames))
  OBVIOUS
<1>4. InStep(1, goal)
  BY ONLY <1>2, <1>3, Follows, Zenon DEF Follows
<1>5. 1 \in 1 .. (Len(frames) + 1)
  <2>1. Stream
    BY DEF Flow
  <2>. QED BY <2>1 DEF Stream, Possible
<1>6. InStep(1, goal)'
  BY <1>2, <1>4, <1>5, InStepNext
<1>7. ExpectedOf(1, Len(frames))' = goal
  BY ONLY <1>1, <1>3, Zenon DEF ExpectedOf
<1> QED BY ONLY <1>6, <1>7, Zenon DEF InStep, Stands, Place

LEMMA PrefixOf ==
  ASSUME NEW S, NEW s \in Seq(S), NEW t \in Seq(S)
  PROVE  IsPrefix(s, s \o t)
<1>1. PICK z : z = s \o t
  OBVIOUS
<1>2. z \in Seq(S) /\ Len(z) = Len(s) + Len(t) /\ \A i \in 1 .. Len(s) : z[i] = s[i]
  BY <1>1, Joined
<1>3. Len(s) \in Nat /\ Len(t) \in Nat
  OBVIOUS
<1>4. SubSeq(s, 1, Len(s)) = SubSeq(z, 1, Len(s))
  <2>1. /\ SubSeq(s, 1, Len(s)) = [i \in 1 .. Len(s) |-> s[i]]
        /\ SubSeq(z, 1, Len(s)) = [i \in 1 .. Len(s) |-> z[i]]
    BY <1>2, <1>3
  <2>. QED BY <1>2, <2>1
<1> QED BY <1>1, <1>2, <1>3, <1>4 DEF IsPrefix

LEMMA FollowsFramed ==
  ASSUME Flow, Follows
  PROVE  Framed
<1>1. pc = "disconnected" => \E j \in DOMAIN frames : frames[j] = "long"
  BY DEF Flow
<1>2. ASSUME damage < 0
      PROVE  /\ IsPrefix(delivered, ExpectedOf(1, Len(frames)))
             /\ AllRead => delivered = ExpectedOf(1, Len(frames))
  <2>1. PICK goal, n : goal = ExpectedOf(1, Len(frames)) /\ n = Len(frames)
    BY Zenon
  <2>2. InStep(1, goal)
    BY ONLY <1>2, <2>1, Follows, Zenon DEF Follows
  <2>3. Possible(frames) /\ delivered \in Seq(Seq(Tokens)) /\ n \in Nat
    BY <2>1 DEF Flow, Stream, Possible
  <2>4. 1 \in 1 .. (Len(frames) + 1)
    BY <2>1, <2>3
  <2>5. AllRead => delivered = goal
    BY <2>2, <2>4, InStepEnd
  <2>6. PICK k \in 1 .. (Len(frames) + 1), o \in Nat, done \in {0, 1} :
          delivered \o Due(k, done) = goal /\ Stands(k, o, read_result, done)
    BY ONLY <2>2, Zenon DEF InStep
  <2>7. Due(k, done) \in Seq(Seq(Tokens))
    <3>1. CASE k = n + 1
      <4>1. done = 0
        BY <2>1, <2>3, <2>6, <3>1 DEF Stands
      <4>2. Due(k, done) = <<>>
        BY ONLY <2>1, <2>3, <3>1, <4>1, ExpectedEnd, Zenon DEF Due
      <4>. QED BY <4>2
    <3>2. CASE k # n + 1
      <4>1. k \in 1 .. Len(frames)
        BY <2>1, <2>3, <3>2
      <4>2. frames[k] \in AllKinds /\ k \in 1 .. MaxFrames
        BY ONLY <2>3, <4>1, AnswerType, Zenon
      <4>3. PICK S, a, b : /\ S = Seq(Tokens) /\ a = Owed(frames[k], k, done)
                           /\ b = ExpectedOf(k + 1, Len(frames))
        BY Zenon
      <4>4. a \in Seq(S) /\ b \in Seq(S) /\ Due(k, done) = a \o b
        BY ONLY <2>3, <4>1, <4>2, <4>3, OwedType, ExpectedStep, DueIs, Zenon
      <4>. QED BY ONLY <4>3, <4>4, ConcatProperties
    <3>. QED BY <3>1, <3>2
  <2>8. PICK S, z : S = Seq(Tokens) /\ z = Due(k, done)
    BY Zenon
  <2>9. IsPrefix(delivered, delivered \o z)
    <3>1. delivered \in Seq(S) /\ z \in Seq(S)
      BY ONLY <2>3, <2>7, <2>8
    <3>. QED BY ONLY <3>1, PrefixOf
  <2>. QED BY ONLY <2>1, <2>5, <2>6, <2>8, <2>9, Zenon
<1> QED BY ONLY <1>1, <1>2, Zenon DEF Framed

(* The positions of ringbuffer.c stay in the buffer, whatever its size and  *)
(* however the port cuts the bytes.                                        *)
THEOREM ReadTypeCorrect == ReadSpec => []ReadTypeOK
<1>1. ReadInit => Flow
  BY InitFlow
<1>2. Flow /\ [ReadNext]_readVars => Flow'
  BY FlowNext
<1>3. Flow => ReadTypeOK
  BY FlowTyped
<1> QED BY <1>1, <1>2, <1>3, PTL DEF ReadSpec

(* For every buffer of at_read.c and every list of answers, each read       *)
(* ending anywhere: at_response sees each result once, whole and in order,  *)
(* and only an answer longer than the buffer costs the device its port.     *)
THEOREM FramedCorrect == ReadSpec => []Framed
<1> DEFINE FInv == Flow /\ Follows
<1>1. ReadInit => FInv
  BY InitFlow, InitFollows
<1>2. FInv /\ [ReadNext]_readVars => FInv'
  BY FlowNext, FollowsNext
<1>3. FInv => Framed
  BY FollowsFramed
<1> QED BY <1>1, <1>2, <1>3, PTL DEF ReadSpec

-----------------------------------------------------------------------------
(* How the parser finds its way back.  Before an answer that ends with a    *)
(* line break, whatever it takes the bytes for, it does not pass the line   *)
(* break the answer begins with; and then the answer itself, once all of it *)
(* is in the buffer, brings it to its end.                                 *)

Near(kind, o, r) ==
  \/ o \in {0, 2} /\ r \in {0, 1}
  \/ o = 1 /\ r = 0
  \/ kind = "ok" /\ o = 5 /\ r = 0
  \/ kind = "creg" /\ o = 6 /\ r = 0
  \/ kind = "cmgs" /\ o = 4 /\ r = 1
  \/ kind = "cmgr" /\ ((o \in {6, 7, 9, 10} /\ r = 0) \/ (o = 12 /\ r = 1))
  \/ kind = "clcc" /\ ((o \in {6, 7, 11, 12} /\ r = 0) \/ (o = 14 /\ r = 1))

(* The list that a turn takes ends in the answer it stands in. *)
LEMMA ListInside ==
  ASSUME NEW w, NEW t, NEW b, NEW e, NEW kind, NEW x, Cell(w, t, b, e, kind, x),
         NEW c \in Nat, b <= c, c < e, NEW u \in Nat, c + u <= t, NEW m, NEW r2, NEW p2, NEW l,
         TurnLines(w, c, u, m, r2, p2, l)
  PROVE  /\ c + m <= e /\ m \in Nat
         /\ p2 = "wait" => c + u < e
<1>1. ListingAt(w, c, u)
  BY Zenon DEF TurnLines
<1>2. \/ kind = "cmgr" /\ c = b + 2
      \/ kind = "clcc" /\ (c = b + 2 \/ c = b + 7)
  BY <1>1, ListingOnly
<1>3. b \in Nat /\ e \in Nat /\ Laid(w, b, e, kind, x)
  BY DEF Cell
<1>4. /\ kind = "cmgr" => e = b + 16 /\ w[b + 4] = "CMGR:"
      /\ kind = "clcc" => e = b + 18 /\ w[b + 4] = "CLCC:" /\ w[b + 9] = "CLCC:"
  BY ONLY <1>3, Zenon DEF Laid, CmgrAt, ClccAt
<1>5. PICK d : /\ kind = "cmgr" => d = 7
               /\ kind = "clcc" /\ c = b + 2 => d = 9
               /\ kind = "clcc" /\ c # b + 2 => d = 4
  OBVIOUS
<1>6. d \in Nat /\ (u >= d + 7 => OkLineAt(w, c, u, d)) /\ c + d + 7 <= e
  <2>1. /\ kind = "cmgr" /\ c = b + 2 /\ u >= 14 => OkLineAt(w, c, u, 7)
        /\ kind = "clcc" /\ c = b + 2 /\ u >= 16 => OkLineAt(w, c, u, 9)
        /\ kind = "clcc" /\ c = b + 7 /\ u >= 11 => OkLineAt(w, c, u, 4)
    BY ListEnds
  <2>. QED BY <1>2, <1>3, <1>4, <1>5, <2>1
<1>7. CASE /\ r2 = 0 /\ p2 = "parse" /\ l \in 1 .. u /\ OkLineAt(w, c, u, l)
           /\ \A q \in 0 .. (l - 1) : ~OkLineAt(w, c, u, q)
           /\ m = IF w[c + 2] = "CMGR:" THEN l + 7 ELSE l + 1
  <2>1. u >= l + 7
    BY <1>7 DEF OkLineAt
  <2>2. ~(l > d)
    <3> SUFFICES ASSUME l > d PROVE FALSE
      OBVIOUS
    <3>1. d \in 0 .. (l - 1) /\ u >= d + 7
      BY <1>6, <1>7, <2>1
    <3>. QED BY <1>6, <1>7, <3>1
  <2>3. m \in Nat /\ m <= l + 7
    BY <1>7
  <2>4. l <= d /\ l \in Nat
    BY <1>6, <1>7, <2>2
  <2>. QED BY <1>3, <1>6, <1>7, <2>3, <2>4
<1>8. CASE /\ m = 0 /\ r2 = 1 /\ p2 = "wait" /\ l = 0
           /\ \A q \in 0 .. u : ~OkLineAt(w, c, u, q)
  <2>1. ~(u >= d + 7)
    <3> SUFFICES ASSUME u >= d + 7 PROVE FALSE
      OBVIOUS
    <3>1. d \in 0 .. u
      BY <1>6
    <3>. QED BY <1>6, <1>8, <3>1
  <2>. QED BY <1>3, <1>6, <1>8, <2>1
<1> QED BY ONLY <1>7, <1>8, TurnLines(w, c, u, m, r2, p2, l), Zenon DEF TurnLines

(* The line break at b stops every turn from before it. *)
Stopped(b, c, u, m, r2, p2) ==
  /\ c + m <= b \/ (c + m \in {b + 1, b + 2} /\ r2 = 0)
  /\ p2 = "wait" => c + u < b + 2

LEMMA Crosses ==
  ASSUME NEW w, NEW t, NEW a, NEW e, NEW kind, NEW x, NEW b \in Nat, NEW c \in Nat,
         NEW u \in Nat, NEW r, NEW m, NEW r2, NEW p2, NEW l,
         Cell(w, t, a, e, kind, x), Turn(w, c, u, r, m, r2, p2, l),
         e <= b, w[b + 1] = CR, w[b + 2] = LF, a <= c, c < e, c + u <= t
  PROVE  Stopped(b, c, u, m, r2, p2)
<1> SUFFICES /\ c + m <= b \/ (c + m \in {b + 1, b + 2} /\ r2 = 0)
             /\ p2 = "wait" => c + u < b + 2
  BY Zenon DEF Stopped
<1>1. m \in 0 .. u /\ u >= 1 /\ e \in Nat
  BY DEF Turn, Cell
<1>2. CR # LF /\ CR # "+" /\ CR # ">" /\ CR # "CSSI:" /\ CR # Space
  BY DEF CR, LF, Space
<1>3. CASE TurnBefore(w, c, u, m, r2, p2, l)
  <2>1. CASE Pair(w, c, u, CR, LF) /\ m = 2 /\ r2 = 1 /\ p2 = "parse"
    <3>1. w[c + 2] = LF
      BY <2>1 DEF Pair
    <3>2. c + 1 # b
      BY <1>2, <3>1
    <3>. QED BY <1>1, <2>1, <3>2
  <2>2. CASE u < 2 /\ m = 0 /\ r2 = 0 /\ p2 = "wait"
    BY <1>1, <2>2
  <2>3. CASE m = 1 /\ r2 = 0 /\ p2 = "parse"
    BY <1>1, <2>3
  <2>4. CASE /\ r2 = 0 /\ p2 = "parse" /\ m \in 1 .. u
             /\ \A q \in 1 .. (m - 1) : w[c + q] # CR
    <3>1. ~(c + m > b + 1)
      <4> SUFFICES ASSUME c + m > b + 1 PROVE FALSE
        OBVIOUS
      <4>1. PICK q : q = b + 1 - c
        OBVIOUS
      <4>2. q \in 1 .. (m - 1) /\ c + q = b + 1
        BY <1>1, <2>4, <4>1
      <4>. QED BY ONLY <2>4, <4>2, w[b + 1] = CR, Zenon
    <3>. QED BY <1>1, <2>4, <3>1
  <2>. QED BY ONLY <1>3, <2>1, <2>2, <2>3, <2>4, Zenon DEF TurnBefore
<1>4. CASE TurnCssi(w, c, u, m, r2, p2, l)
  <2>1. w[c + 2] = "CSSI:" /\ ((m = 3 /\ r2 = 0 /\ p2 = "parse") \/ (m = 0 /\ u < 3))
    BY ONLY <1>4, Zenon DEF TurnCssi, Pair
  <2>2. c + 1 # b
    BY <1>2, <2>1
  <2>. QED BY <1>1, <2>1, <2>2
<1>5. CASE DoubledAt(w, c, u) /\ m = 2 /\ p2 = "parse"
  <2>1. w[c + 2] = LF
    BY <1>5, Zenon DEF DoubledAt
  <2>2. c + 1 # b
    BY <1>2, <2>1
  <2>. QED BY <1>1, <1>5, <2>2
<1>6. CASE Pair(w, c, u, ">", Space) /\ m = 2 /\ r2 = 0 /\ p2 = "parse"
  BY <1>1, <1>6
<1>7. CASE TurnLines(w, c, u, m, r2, p2, l)
  <2>1. c + m <= e /\ (p2 = "wait" => c + u < e)
    BY <1>7, ListInside
  <2>. QED BY <1>1, <2>1
<1>8. CASE TurnLine(w, c, u, m, r2, p2, l)
  <2>1. CASE /\ r2 = 0 /\ p2 = "parse" /\ l \in 1 .. u /\ m = l + 1 /\ BreakAt(w, c, u, l - 1)
             /\ \A q \in 0 .. (l - 2) : ~BreakAt(w, c, u, q)
    <3>1. u >= l + 1
      BY <2>1 DEF BreakAt
    <3>2. ~(c + m > b + 2)
      <4> SUFFICES ASSUME c + m > b + 2 PROVE FALSE
        OBVIOUS
      <4>1. PICK q : q = b - c
        OBVIOUS
      <4>2. q \in 0 .. (l - 2) /\ c + q + 1 = b + 1 /\ c + q + 2 = b + 2 /\ q + 2 <= u
        BY <1>1, <2>1, <3>1, <4>1
      <4>3. BreakAt(w, c, u, q)
        BY ONLY <4>2, w[b + 1] = CR, w[b + 2] = LF, Zenon DEF BreakAt
      <4>. QED BY <2>1, <4>2, <4>3
    <3>. QED BY <1>1, <2>1, <3>2
  <2>2. CASE m = 0 /\ r2 = 1 /\ p2 = "wait" /\ \A q \in 0 .. u : ~BreakAt(w, c, u, q)
    <3>1. ~(c + u >= b + 2)
      <4> SUFFICES ASSUME c + u >= b + 2 PROVE FALSE
        OBVIOUS
      <4>1. PICK q : q = b - c
        OBVIOUS
      <4>2. q \in 0 .. u /\ c + q + 1 = b + 1 /\ c + q + 2 = b + 2 /\ q + 2 <= u
        BY <1>1, <4>1
      <4>3. BreakAt(w, c, u, q)
        BY ONLY <4>2, w[b + 1] = CR, w[b + 2] = LF, Zenon DEF BreakAt
      <4>. QED BY <2>2, <4>2, <4>3
    <3>. QED BY <1>1, <2>2, <3>1
  <2>. QED BY ONLY <1>8, <2>1, <2>2, Zenon DEF TurnLine
<1> QED BY ONLY <1>3, <1>4, <1>5, <1>6, <1>7, <1>8, Turn(w, c, u, r, m, r2, p2, l), Zenon
        DEF Turn, TurnIn

-----------------------------------------------------------------------------
(* The turns of a parser that came to the answer out of step.               *)
Neared(b, e, kind, o, r, u, m, r2, p2) ==
  \/ p2 = "wait" /\ m = 0 /\ r2 = r /\ u < 2
  \/ p2 = "parse" /\ Near(kind, o + m, r2)
  \/ p2 = "parse" /\ b + o + m = e /\ r2 = 0

LEMMA NearFirst ==
  ASSUME NEW w, NEW b \in Nat, NEW e, NEW kind, w[b + 1] = CR, w[b + 2] = LF, NEW o,
         o \in {0, 1}, NEW u \in Nat, NEW m, NEW r2, NEW p2, NEW l,
         Turn(w, b + o, u, 0, m, r2, p2, l)
  PROVE  Neared(b, e, kind, o, 0, u, m, r2, p2)
<1>1. PICK c : c = b + o
  OBVIOUS
<1>2. c \in Nat /\ Turn(w, c, u, 0, m, r2, p2, l)
  BY <1>1
<1>3. CASE o = 0
  <2>1. w[c + 1] = CR /\ w[c + 2] = LF
    BY <1>1, <1>3
  <2>2. Goes(u, 0, m, r2, p2, l, 2, 2, 1, 0)
    BY ONLY <1>2, <2>1, u \in Nat, AtBreak
  <2>. QED BY <1>3, <2>2 DEF Goes, Neared, Near
<1>4. CASE o = 1
  <2>1. w[c + 1] = LF
    BY <1>1, <1>4
  <2>2. Goes(u, 0, m, r2, p2, l, 2, 1, 0, 0)
    BY ONLY <1>2, <2>1, u \in Nat, AtFeed
  <2>. QED BY <1>4, <2>2 DEF Goes, Neared, Near
<1> QED BY <1>3, <1>4

LEMMA OkNears ==
  ASSUME NEW w, NEW b \in Nat, NEW e, NEW kind, kind = "ok", NEW x, x \notin Marks,
         OkAt(w, b, e, x), NEW o, NEW r, Near(kind, o, r), r = 1 \/ o \notin {0, 1},
         NEW u \in Nat, u >= e - b - o, NEW m, NEW r2, NEW p2, NEW l,
         Turn(w, b + o, u, r, m, r2, p2, l)
  PROVE  Neared(b, e, kind, o, r, u, m, r2, p2)
<1>1. \/ o = 2 /\ r = 1
      \/ o = 0 /\ r = 1
      \/ o = 2 /\ r = 0
      \/ o = 5 /\ r = 0
  BY DEF Near
<1>2. PICK c : c = b + o
  OBVIOUS
<1>3. e = b + 6
  BY DEF OkAt
<1>4. CASE o = 2 /\ r = 1
  <2>1. c \in Nat /\ c = b + 2 /\ r = 1 /\ Turn(w, c, u, r, m, r2, p2, l)
    BY <1>2, <1>4
  <2>2. u >= 4
    BY <1>3, <1>4
  <2>4. Goes(u, r, m, r2, p2, l, 4, 4, 0, 3)
    BY ONLY <2>1, b \in Nat, u \in Nat, x \notin Marks, OkAt(w, b, e, x), OkTurns
  <2>. QED BY <1>3, <1>4, <2>2, <2>4 DEF Goes, Neared
<1>5. CASE o = 0 /\ r = 1
  <2>1. c \in Nat /\ c = b + 0 /\ r = 1 /\ Turn(w, c, u, r, m, r2, p2, l)
    BY <1>2, <1>5
  <2>2. u >= 6
    BY <1>3, <1>5
  <2>4. Goes(u, r, m, r2, p2, l, 2, 2, 0, 1)
    BY ONLY <2>1, b \in Nat, u \in Nat, x \notin Marks, OkAt(w, b, e, x), OkTurns
  <2>. QED BY <1>3, <1>5, <2>2, <2>4 DEF Goes, Neared, Near
<1>6. CASE o = 2 /\ r = 0
  <2>1. c \in Nat /\ c = b + 2 /\ r = 0 /\ Turn(w, c, u, r, m, r2, p2, l)
    BY <1>2, <1>6
  <2>2. u >= 4
    BY <1>3, <1>6
  <2>3. u >= 3
    BY <2>2
  <2>4. Goes(u, r, m, r2, p2, l, 3, 3, 0, 0)
    BY ONLY <2>1, <2>3, b \in Nat, u \in Nat, x \notin Marks, OkAt(w, b, e, x), OkTurns
  <2>. QED BY <1>3, <1>6, <2>2, <2>4 DEF Goes, Neared, Near
<1>7. CASE o = 5 /\ r = 0
  <2>1. c \in Nat /\ c = b + 5 /\ r = 0 /\ Turn(w, c, u, r, m, r2, p2, l)
    BY <1>2, <1>7
  <2>2. u >= 1
    BY <1>3, <1>7
  <2>4. Goes(u, r, m, r2, p2, l, 2, 1, 0, 0)
    BY ONLY <2>1, b \in Nat, u \in Nat, x \notin Marks, OkAt(w, b, e, x), OkTurns
  <2>. QED BY <1>3, <1>7, <2>2, <2>4 DEF Goes, Neared
<1> QED BY ONLY <1>1, <1>4, <1>5, <1>6, <1>7, Zenon

LEMMA CregNears ==
  ASSUME NEW w, NEW b \in Nat, NEW e, NEW kind, kind = "creg", NEW x, x \notin Marks,
         CregAt(w, b, e, x), NEW o, NEW r, Near(kind, o, r), r = 1 \/ o \notin {0, 1},
         NEW u \in Nat, u >= e - b - o, NEW m, NEW r2, NEW p2, NEW l,
         Turn(w, b + o, u, r, m, r2, p2, l)
  PROVE  Neared(b, e, kind, o, r, u, m, r2, p2)
<1>1. \/ o = 2 /\ r = 1
      \/ o = 0 /\ r = 1
      \/ o = 2 /\ r = 0
      \/ o = 6 /\ r = 0
  BY DEF Near
<1>2. PICK c : c = b + o
  OBVIOUS
<1>3. e = b + 7
  BY DEF CregAt
<1>4. CASE o = 2 /\ r = 1
  <2>1. c \in Nat /\ c = b + 2 /\ r = 1 /\ Turn(w, c, u, r, m, r2, p2, l)
    BY <1>2, <1>4
  <2>2. u >= 5
    BY <1>3, <1>4
  <2>4. Goes(u, r, m, r2, p2, l, 5, 5, 0, 4)
    BY ONLY <2>1, b \in Nat, u \in Nat, x \notin Marks, CregAt(w, b, e, x), CregTurns
  <2>. QED BY <1>3, <1>4, <2>2, <2>4 DEF Goes, Neared
<1>5. CASE o = 0 /\ r = 1
  <2>1. c \in Nat /\ c = b + 0 /\ r = 1 /\ Turn(w, c, u, r, m, r2, p2, l)
    BY <1>2, <1>5
  <2>2. u >= 7
    BY <1>3, <1>5
  <2>4. Goes(u, r, m, r2, p2, l, 2, 2, 0, 1)
    BY ONLY <2>1, b \in Nat, u \in Nat, x \notin Marks, CregAt(w, b, e, x), CregTurns
  <2>. QED BY <1>3, <1>5, <2>2, <2>4 DEF Goes, Neared, Near
<1>6. CASE o = 2 /\ r = 0
  <2>1. c \in Nat /\ c = b + 2 /\ r = 0 /\ Turn(w, c, u, r, m, r2, p2, l)
    BY <1>2, <1>6
  <2>2. u >= 5
    BY <1>3, <1>6
  <2>3. u >= 4
    BY <2>2
  <2>4. Goes(u, r, m, r2, p2, l, 4, 4, 0, 0)
    BY ONLY <2>1, <2>3, b \in Nat, u \in Nat, x \notin Marks, CregAt(w, b, e, x), CregTurns
  <2>. QED BY <1>3, <1>6, <2>2, <2>4 DEF Goes, Neared, Near
<1>7. CASE o = 6 /\ r = 0
  <2>1. c \in Nat /\ c = b + 6 /\ r = 0 /\ Turn(w, c, u, r, m, r2, p2, l)
    BY <1>2, <1>7
  <2>2. u >= 1
    BY <1>3, <1>7
  <2>4. Goes(u, r, m, r2, p2, l, 2, 1, 0, 0)
    BY ONLY <2>1, b \in Nat, u \in Nat, x \notin Marks, CregAt(w, b, e, x), CregTurns
  <2>. QED BY <1>3, <1>7, <2>2, <2>4 DEF Goes, Neared
<1> QED BY ONLY <1>1, <1>4, <1>5, <1>6, <1>7, Zenon

LEMMA CmgrNears ==
  ASSUME NEW w, NEW b \in Nat, NEW e, NEW kind, kind = "cmgr", NEW x, x \notin Marks,
         CmgrAt(w, b, e, x), NEW o, NEW r, Near(kind, o, r), r = 1 \/ o \notin {0, 1},
         NEW u \in Nat, u >= e - b - o, NEW m, NEW r2, NEW p2, NEW l,
         Turn(w, b + o, u, r, m, r2, p2, l)
  PROVE  Neared(b, e, kind, o, r, u, m, r2, p2)
<1>1. \/ o = 2 /\ r = 1
      \/ o = 0 /\ r = 1
      \/ o = 2 /\ r = 0
      \/ o = 6 /\ r = 0
      \/ o = 7 /\ r = 0
      \/ o = 9 /\ r = 0
      \/ o = 10 /\ r = 0
      \/ o = 12 /\ r = 1
  BY DEF Near
<1>2. PICK c : c = b + o
  OBVIOUS
<1>3. e = b + 16
  BY DEF CmgrAt
<1>4. CASE o = 2 /\ r = 1
  <2>1. c \in Nat /\ c = b + 2 /\ r = 1 /\ Turn(w, c, u, r, m, r2, p2, l)
    BY <1>2, <1>4
  <2>2. u >= 14
    BY <1>3, <1>4
  <2>4. Goes(u, r, m, r2, p2, l, 14, 14, 0, 7)
    BY ONLY <2>1, b \in Nat, u \in Nat, x \notin Marks, CmgrAt(w, b, e, x), CmgrTurns
  <2>. QED BY <1>3, <1>4, <2>2, <2>4 DEF Goes, Neared
<1>5. CASE o = 0 /\ r = 1
  <2>1. c \in Nat /\ c = b + 0 /\ r = 1 /\ Turn(w, c, u, r, m, r2, p2, l)
    BY <1>2, <1>5
  <2>2. u >= 16
    BY <1>3, <1>5
  <2>4. Goes(u, r, m, r2, p2, l, 2, 2, 0, 1)
    BY ONLY <2>1, b \in Nat, u \in Nat, x \notin Marks, CmgrAt(w, b, e, x), CmgrTurns
  <2>. QED BY <1>3, <1>5, <2>2, <2>4 DEF Goes, Neared, Near
<1>6. CASE o = 2 /\ r = 0
  <2>1. c \in Nat /\ c = b + 2 /\ r = 0 /\ Turn(w, c, u, r, m, r2, p2, l)
    BY <1>2, <1>6
  <2>2. u >= 14
    BY <1>3, <1>6
  <2>3. u >= 4
    BY <2>2
  <2>4. Goes(u, r, m, r2, p2, l, 4, 4, 0, 0)
    BY ONLY <2>1, <2>3, b \in Nat, u \in Nat, x \notin Marks, CmgrAt(w, b, e, x), CmgrTurns
  <2>. QED BY <1>3, <1>6, <2>2, <2>4 DEF Goes, Neared, Near
<1>7. CASE o = 6 /\ r = 0
  <2>1. c \in Nat /\ c = b + 6 /\ r = 0 /\ Turn(w, c, u, r, m, r2, p2, l)
    BY <1>2, <1>7
  <2>2. u >= 10
    BY <1>3, <1>7
  <2>4. Goes(u, r, m, r2, p2, l, 2, 1, 0, 0)
    BY ONLY <2>1, b \in Nat, u \in Nat, x \notin Marks, CmgrAt(w, b, e, x), CmgrTurns
  <2>. QED BY <1>3, <1>7, <2>2, <2>4 DEF Goes, Neared, Near
<1>8. CASE o = 7 /\ r = 0
  <2>1. c \in Nat /\ c = b + 7 /\ r = 0 /\ Turn(w, c, u, r, m, r2, p2, l)
    BY <1>2, <1>8
  <2>2. u >= 9
    BY <1>3, <1>8
  <2>3. u >= 2
    BY <2>2
  <2>4. Goes(u, r, m, r2, p2, l, 2, 2, 0, 0)
    BY ONLY <2>1, <2>3, b \in Nat, u \in Nat, x \notin Marks, CmgrAt(w, b, e, x), CmgrTurns
  <2>. QED BY <1>3, <1>8, <2>2, <2>4 DEF Goes, Neared, Near
<1>9. CASE o = 9 /\ r = 0
  <2>1. c \in Nat /\ c = b + 9 /\ r = 0 /\ Turn(w, c, u, r, m, r2, p2, l)
    BY <1>2, <1>9
  <2>2. u >= 7
    BY <1>3, <1>9
  <2>4. Goes(u, r, m, r2, p2, l, 2, 1, 0, 0)
    BY ONLY <2>1, b \in Nat, u \in Nat, x \notin Marks, CmgrAt(w, b, e, x), CmgrTurns
  <2>. QED BY <1>3, <1>9, <2>2, <2>4 DEF Goes, Neared, Near
<1>10. CASE o = 10 /\ r = 0
  <2>1. c \in Nat /\ c = b + 10 /\ r = 0 /\ Turn(w, c, u, r, m, r2, p2, l)
    BY <1>2, <1>10
  <2>2. u >= 6
    BY <1>3, <1>10
  <2>4. Goes(u, r, m, r2, p2, l, 2, 2, 1, 0)
    BY ONLY <2>1, b \in Nat, u \in Nat, x \notin Marks, CmgrAt(w, b, e, x), CmgrTurns
  <2>. QED BY <1>3, <1>10, <2>2, <2>4 DEF Goes, Neared, Near
<1>11. CASE o = 12 /\ r = 1
  <2>1. c \in Nat /\ c = b + 12 /\ r = 1 /\ Turn(w, c, u, r, m, r2, p2, l)
    BY <1>2, <1>11
  <2>2. u >= 4
    BY <1>3, <1>11
  <2>4. Goes(u, r, m, r2, p2, l, 4, 4, 0, 3)
    BY ONLY <2>1, b \in Nat, u \in Nat, x \notin Marks, CmgrAt(w, b, e, x), CmgrTurns
  <2>. QED BY <1>3, <1>11, <2>2, <2>4 DEF Goes, Neared
<1> QED BY ONLY <1>1, <1>4, <1>5, <1>6, <1>7, <1>8, <1>9, <1>10, <1>11, Zenon

LEMMA ClccNears ==
  ASSUME NEW w, NEW b \in Nat, NEW e, NEW kind, kind = "clcc", NEW x, x \notin Marks,
         ClccAt(w, b, e, x), NEW o, NEW r, Near(kind, o, r), r = 1 \/ o \notin {0, 1},
         NEW u \in Nat, u >= e - b - o, NEW m, NEW r2, NEW p2, NEW l,
         Turn(w, b + o, u, r, m, r2, p2, l)
  PROVE  Neared(b, e, kind, o, r, u, m, r2, p2)
<1>1. \/ o = 2 /\ r = 1
      \/ o = 0 /\ r = 1
      \/ o = 2 /\ r = 0
      \/ o = 6 /\ r = 0
      \/ o = 7 /\ r = 0
      \/ o = 11 /\ r = 0
      \/ o = 12 /\ r = 0
      \/ o = 14 /\ r = 1
  BY DEF Near
<1>2. PICK c : c = b + o
  OBVIOUS
<1>3. e = b + 18
  BY DEF ClccAt
<1>4. CASE o = 2 /\ r = 1
  <2>1. c \in Nat /\ c = b + 2 /\ r = 1 /\ Turn(w, c, u, r, m, r2, p2, l)
    BY <1>2, <1>4
  <2>2. u >= 16
    BY <1>3, <1>4
  <2>4. Goes(u, r, m, r2, p2, l, 16, 10, 0, 9)
    BY ONLY <2>1, b \in Nat, u \in Nat, x \notin Marks, ClccAt(w, b, e, x), ClccTurns
  <2>. QED BY <1>3, <1>4, <2>2, <2>4 DEF Goes, Neared, Near
<1>5. CASE o = 0 /\ r = 1
  <2>1. c \in Nat /\ c = b + 0 /\ r = 1 /\ Turn(w, c, u, r, m, r2, p2, l)
    BY <1>2, <1>5
  <2>2. u >= 18
    BY <1>3, <1>5
  <2>4. Goes(u, r, m, r2, p2, l, 2, 2, 0, 1)
    BY ONLY <2>1, b \in Nat, u \in Nat, x \notin Marks, ClccAt(w, b, e, x), ClccTurns
  <2>. QED BY <1>3, <1>5, <2>2, <2>4 DEF Goes, Neared, Near
<1>6. CASE o = 2 /\ r = 0
  <2>1. c \in Nat /\ c = b + 2 /\ r = 0 /\ Turn(w, c, u, r, m, r2, p2, l)
    BY <1>2, <1>6
  <2>2. u >= 16
    BY <1>3, <1>6
  <2>3. u >= 4
    BY <2>2
  <2>4. Goes(u, r, m, r2, p2, l, 4, 4, 0, 0)
    BY ONLY <2>1, <2>3, b \in Nat, u \in Nat, x \notin Marks, ClccAt(w, b, e, x), ClccTurns
  <2>. QED BY <1>3, <1>6, <2>2, <2>4 DEF Goes, Neared, Near
<1>7. CASE o = 6 /\ r = 0
  <2>1. c \in Nat /\ c = b + 6 /\ r = 0 /\ Turn(w, c, u, r, m, r2, p2, l)
    BY <1>2, <1>7
  <2>2. u >= 12
    BY <1>3, <1>7
  <2>4. Goes(u, r, m, r2, p2, l, 2, 1, 0, 0)
    BY ONLY <2>1, b \in Nat, u \in Nat, x \notin Marks, ClccAt(w, b, e, x), ClccTurns
  <2>. QED BY <1>3, <1>7, <2>2, <2>4 DEF Goes, Neared, Near
<1>8. CASE o = 7 /\ r = 0
  <2>1. c \in Nat /\ c = b + 7 /\ r = 0 /\ Turn(w, c, u, r, m, r2, p2, l)
    BY <1>2, <1>8
  <2>2. u >= 11
    BY <1>3, <1>8
  <2>3. u >= 4
    BY <2>2
  <2>4. Goes(u, r, m, r2, p2, l, 4, 4, 0, 0)
    BY ONLY <2>1, <2>3, b \in Nat, u \in Nat, x \notin Marks, ClccAt(w, b, e, x), ClccTurns
  <2>. QED BY <1>3, <1>8, <2>2, <2>4 DEF Goes, Neared, Near
<1>9. CASE o = 11 /\ r = 0
  <2>1. c \in Nat /\ c = b + 11 /\ r = 0 /\ Turn(w, c, u, r, m, r2, p2, l)
    BY <1>2, <1>9
  <2>2. u >= 7
    BY <1>3, <1>9
  <2>4. Goes(u, r, m, r2, p2, l, 2, 1, 0, 0)
    BY ONLY <2>1, b \in Nat, u \in Nat, x \notin Marks, ClccAt(w, b, e, x), ClccTurns
  <2>. QED BY <1>3, <1>9, <2>2, <2>4 DEF Goes, Neared, Near
<1>10. CASE o = 12 /\ r = 0
  <2>1. c \in Nat /\ c = b + 12 /\ r = 0 /\ Turn(w, c, u, r, m, r2, p2, l)
    BY <1>2, <1>10
  <2>2. u >= 6
    BY <1>3, <1>10
  <2>4. Goes(u, r, m, r2, p2, l, 2, 2, 1, 0)
    BY ONLY <2>1, b \in Nat, u \in Nat, x \notin Marks, ClccAt(w, b, e, x), ClccTurns
  <2>. QED BY <1>3, <1>10, <2>2, <2>4 DEF Goes, Neared, Near
<1>11. CASE o = 14 /\ r = 1
  <2>1. c \in Nat /\ c = b + 14 /\ r = 1 /\ Turn(w, c, u, r, m, r2, p2, l)
    BY <1>2, <1>11
  <2>2. u >= 4
    BY <1>3, <1>11
  <2>4. Goes(u, r, m, r2, p2, l, 4, 4, 0, 3)
    BY ONLY <2>1, b \in Nat, u \in Nat, x \notin Marks, ClccAt(w, b, e, x), ClccTurns
  <2>. QED BY <1>3, <1>11, <2>2, <2>4 DEF Goes, Neared
<1> QED BY ONLY <1>1, <1>4, <1>5, <1>6, <1>7, <1>8, <1>9, <1>10, <1>11, Zenon

LEMMA CmgsNears ==
  ASSUME NEW w, NEW b \in Nat, NEW e, NEW kind, kind = "cmgs", NEW x, x \notin Marks,
         CmgsAt(w, b, e, x), NEW o, NEW r, Near(kind, o, r), r = 1 \/ o \notin {0, 1},
         NEW u \in Nat, u >= e - b - o, NEW m, NEW r2, NEW p2, NEW l,
         Turn(w, b + o, u, r, m, r2, p2, l)
  PROVE  Neared(b, e, kind, o, r, u, m, r2, p2)
<1>1. \/ o = 2 /\ r = 1
      \/ o = 0 /\ r = 1
      \/ o = 2 /\ r = 0
      \/ o = 4 /\ r = 1
  BY DEF Near
<1>2. PICK c : c = b + o
  OBVIOUS
<1>3. e = b + 9
  BY DEF CmgsAt
<1>4. CASE o = 2 /\ r = 1
  <2>1. c \in Nat /\ c = b + 2 /\ r = 1 /\ Turn(w, c, u, r, m, r2, p2, l)
    BY <1>2, <1>4
  <2>2. u >= 7
    BY <1>3, <1>4
  <2>3. u \notin {2, 3}
    BY <2>2
  <2>4. Goes(u, r, m, r2, p2, l, 4, 2, 1, 0)
    BY ONLY <2>1, <2>3, b \in Nat, u \in Nat, x \notin Marks, CmgsAt(w, b, e, x), CmgsTurns
  <2>. QED BY <1>3, <1>4, <2>2, <2>4 DEF Goes, Neared, Near
<1>5. CASE o = 0 /\ r = 1
  <2>1. c \in Nat /\ c = b + 0 /\ r = 1 /\ Turn(w, c, u, r, m, r2, p2, l)
    BY <1>2, <1>5
  <2>2. u >= 9
    BY <1>3, <1>5
  <2>4. Goes(u, r, m, r2, p2, l, 2, 2, 0, 1)
    BY ONLY <2>1, b \in Nat, u \in Nat, x \notin Marks, CmgsAt(w, b, e, x), CmgsTurns
  <2>. QED BY <1>3, <1>5, <2>2, <2>4 DEF Goes, Neared, Near
<1>6. CASE o = 2 /\ r = 0
  <2>1. c \in Nat /\ c = b + 2 /\ r = 0 /\ Turn(w, c, u, r, m, r2, p2, l)
    BY <1>2, <1>6
  <2>2. u >= 7
    BY <1>3, <1>6
  <2>4. Goes(u, r, m, r2, p2, l, 2, 2, 1, 0)
    BY ONLY <2>1, b \in Nat, u \in Nat, x \notin Marks, CmgsAt(w, b, e, x), CmgsTurns
  <2>. QED BY <1>3, <1>6, <2>2, <2>4 DEF Goes, Neared, Near
<1>7. CASE o = 4 /\ r = 1
  <2>1. c \in Nat /\ c = b + 4 /\ r = 1 /\ Turn(w, c, u, r, m, r2, p2, l)
    BY <1>2, <1>7
  <2>2. u >= 5
    BY <1>3, <1>7
  <2>4. Goes(u, r, m, r2, p2, l, 5, 5, 0, 4)
    BY ONLY <2>1, b \in Nat, u \in Nat, x \notin Marks, CmgsAt(w, b, e, x), CmgsTurns
  <2>. QED BY <1>3, <1>7, <2>2, <2>4 DEF Goes, Neared
<1> QED BY ONLY <1>1, <1>4, <1>5, <1>6, <1>7, Zenon

LEMMA NearTurn ==
  ASSUME NEW w, NEW b \in Nat, NEW e, NEW kind \in {"ok", "creg", "cmgr", "clcc", "cmgs"},
         NEW x, x \notin Marks, Laid(w, b, e, kind, x), NEW o, NEW r, Near(kind, o, r),
         NEW u \in Nat, u >= e - b - o, NEW m, NEW r2, NEW p2, NEW l,
         Turn(w, b + o, u, r, m, r2, p2, l)
  PROVE  Neared(b, e, kind, o, r, u, m, r2, p2)
<1>1. CASE o \in {0, 1} /\ r = 0
  <2>1. w[b + 1] = CR /\ w[b + 2] = LF
    BY ONLY kind \in {"ok", "creg", "cmgr", "clcc", "cmgs"}, Laid(w, b, e, kind, x), Zenon
       DEF Laid, OkAt, CregAt, CmgrAt, ClccAt, CmgsAt
  <2>2. Turn(w, b + o, u, 0, m, r2, p2, l)
    BY ONLY <1>1, Turn(w, b + o, u, r, m, r2, p2, l), Zenon
  <2>3. Neared(b, e, kind, o, 0, u, m, r2, p2)
    BY <1>1, <2>1, <2>2, NearFirst
  <2>. QED BY ONLY <1>1, <2>3, Zenon
<1>2. CASE ~(o \in {0, 1} /\ r = 0)
  <2>0. r = 1 \/ o \notin {0, 1}
    BY <1>2 DEF Near
  <2>1. CASE kind = "ok"
    <3>1. OkAt(w, b, e, x)
      BY <2>1 DEF Laid
    <3>. QED BY <2>0, <2>1, <3>1, OkNears
  <2>2. CASE kind = "creg"
    <3>1. CregAt(w, b, e, x)
      BY <2>2 DEF Laid
    <3>. QED BY <2>0, <2>2, <3>1, CregNears
  <2>3. CASE kind = "cmgr"
    <3>1. CmgrAt(w, b, e, x)
      BY <2>3 DEF Laid
    <3>. QED BY <2>0, <2>3, <3>1, CmgrNears
  <2>4. CASE kind = "clcc"
    <3>1. ClccAt(w, b, e, x)
      BY <2>4 DEF Laid
    <3>. QED BY <2>0, <2>4, <3>1, ClccNears
  <2>5. CASE kind = "cmgs"
    <3>1. CmgsAt(w, b, e, x)
      BY <2>5 DEF Laid
    <3>. QED BY <2>0, <2>5, <3>1, CmgsNears
  <2>. QED BY <2>1, <2>2, <2>3, <2>4, <2>5, Zenon
<1> QED BY <1>1, <1>2

-----------------------------------------------------------------------------
(* An answer j that ends with a line break and comes in one read: the       *)
(* parser is before it, or at a place it may come to in it, or in step      *)
(* from the next answer on.                                                *)
Whole == {"ok", "creg", "cmgr", "clcc", "cmgs"}

Regained(j) ==
  \E pre, goal : /\ pre \in Seq(Seq(Tokens)) /\ goal = pre \o ExpectedOf(j + 1, Len(frames))
                 /\ InStep(j + 1, goal)

Approach(j) ==
  \/ Here < Base(frames, j)
  \/ \E o \in Nat : Here = Base(frames, j) + o /\ Near(frames[j], o, read_result)
  \/ Regained(j)

LEMMA ApproachStays ==
  ASSUME NEW j, Approach(j), ~Regained(j), frames' = frames, Here' = Here,
         read_result' = read_result
  PROVE  Approach(j)'
<1>1. Base(frames, j)' = Base(frames, j)
  BY SameAnswers
<1> QED BY ONLY <1>1, Approach(j), ~Regained(j), frames' = frames, Here' = Here,
              read_result' = read_result, Zenon DEF Approach, Near

(* The parser that comes to the end of answer j is in step from there. *)
LEMMA Regains ==
  ASSUME Flow', frames' = frames, NEW j \in 1 .. Len(frames), Here' = Base(frames, j + 1),
         read_result' = 0
  PROVE  Regained(j)'
<1>1. delivered' \in Seq(Seq(Tokens)) /\ Possible(frames) /\ Len(frames) \in Nat
  <2>1. Possible(frames)'
    BY DEF Flow, Stream
  <2>2. Possible(frames)
    BY ONLY <2>1, frames' = frames, Zenon DEF Possible
  <2>. QED BY <2>2 DEF Flow, Possible
<1>2. PICK pre, goal : pre = delivered' /\ goal = pre \o ExpectedOf(j + 1, Len(frames))
  BY Zenon
<1>3. PICK k : k = j + 1
  OBVIOUS
<1>4. /\ k \in k .. (Len(frames) + 1) /\ 0 \in Nat /\ 0 \in {0, 1}
      /\ Base(frames, k) + 0 = Base(frames, k)
  <2>1. Base(frames, k) \in Nat
    BY <1>1, <1>3, Ordered
  <2>. QED BY <1>1, <1>3, <2>1
<1>5. /\ \A i : Base(frames, i)' = Base(frames, i)
      /\ \A i, g : Due(i, g)' = Due(i, g)
      /\ Len(frames)' = Len(frames)
  BY SameAnswers
<1>6. delivered' \o Due(k, 0)' = goal
  BY ONLY <1>2, <1>3, <1>5, Zenon DEF Due
<1>7. Stands(k, 0, read_result, 0)'
  BY DEF Stands
<1>8. InStep(k, goal)'
  BY ONLY <1>3, <1>4, <1>5, <1>6, <1>7, Here' = Base(frames, j + 1), Zenon DEF InStep
<1>9. ExpectedOf(j + 1, Len(frames))' = ExpectedOf(j + 1, Len(frames))
  BY Zenon DEF ExpectedOf
<1> QED BY ONLY <1>1, <1>2, <1>3, <1>8, <1>9, Zenon DEF Regained, InStep, Stands, Place

LEMMA RegainedNext ==
  ASSUME Flow, [ReadNext]_readVars, NEW j \in 1 .. Len(frames), damage <= j, Regained(j)
  PROVE  Regained(j)'
<1>1. PICK pre, goal : /\ pre \in Seq(Seq(Tokens))
                       /\ goal = pre \o ExpectedOf(j + 1, Len(frames))
                       /\ InStep(j + 1, goal)
  BY Zenon DEF Regained
<1>2. PICK k : k = j + 1
  OBVIOUS
<1>3. k \in 1 .. (Len(frames) + 1) /\ damage < k
  <2>1. damage \in Int /\ Len(frames) \in Nat
    BY BoundAssumption DEF Flow, Stream, Possible
  <2>. QED BY <1>2, <2>1
<1>4. InStep(k, goal)'
  <2>1. InStep(k, goal)
    BY <1>1, <1>2
  <2>. QED BY <1>3, <2>1, InStepNext
<1>5. ExpectedOf(j + 1, Len(frames))' = ExpectedOf(j + 1, Len(frames))
  BY FlowNext, Zenon DEF ExpectedOf
<1> QED BY ONLY <1>1, <1>2, <1>4, <1>5, Zenon DEF Regained, InStep, Stands, Place

(* A turn from before an answer ends at its first line break. *)
LEMMA TurnsTo ==
  ASSUME Flow, NEW j \in 1 .. Len(frames), Here < Base(frames, j), NEW m, NEW r2, NEW p2, NEW l,
         Turn(All(frames), Here, rb.used, read_result, m, r2, p2, l)
  PROVE  Stopped(Base(frames, j), Here, rb.used, m, r2, p2)
<1>1. PICK w, n, c, u, r, b, t :
        /\ w = All(frames) /\ n = Len(frames) /\ c = Here /\ u = rb.used
        /\ r = read_result /\ b = Base(frames, j) /\ t = Len(w)
  BY Zenon
<1>2. /\ u \in Nat /\ c \in Nat /\ t \in Nat /\ c + u <= t
      /\ Possible(frames) /\ n \in Nat
  <2>1. Stream
    BY DEF Flow
  <2>2. /\ u \in 0 .. Size /\ Size \in Nat /\ c \in Nat /\ t \in Nat /\ Got <= t
        /\ Got = c + u /\ Possible(frames)
    BY ONLY <1>1, <2>1, StreamParts, Zenon
  <2>. QED BY <1>1, <2>2 DEF Possible
<1>3. Turn(w, c, u, r, m, r2, p2, l) /\ c < b
  BY ONLY <1>1, Here < Base(frames, j), Zenon,
          Turn(All(frames), Here, rb.used, read_result, m, r2, p2, l)
<1>4. u >= 1
  BY ONLY <1>3, Zenon DEF Turn
<1>5. /\ j \in 0 .. n /\ j # 0 /\ j \in 0 .. (n + 1) /\ j \in 0 .. Len(frames)
      /\ j \in 1 .. Len(frames) /\ Len(frames) = n
  BY <1>1, <1>2
<1>6. b \in Nat /\ w[b + 1] = CR /\ w[b + 2] = LF
  <2>1. PICK e, x, kind : /\ e = Base(frames, j + 1) /\ x = Texts[Number(j)]
                          /\ kind = Kind(frames, j)
    BY Zenon
  <2>2. b \in Nat /\ Laid(w, b, e, kind, x) /\ kind \in AllKinds
    BY ONLY <1>1, <1>2, <1>5, <2>1, Lies, AnyAnswer, Zenon
  <2>. QED BY <2>2, Begins
<1>7. c < Len(w) /\ c < t
  BY <1>1, <1>2, <1>4
<1>8. PICK k \in 0 .. n : Base(frames, k) <= c /\ c < Base(frames, k + 1)
  BY ONLY <1>1, <1>2, <1>7, Located, Zenon
<1>9. PICK a, e, kind, x : /\ a = Base(frames, k) /\ e = Base(frames, k + 1)
                           /\ kind = Kind(frames, k) /\ x = Texts[Number(k)]
  BY Zenon
<1>10. Cell(w, t, a, e, kind, x)
  BY ONLY <1>1, <1>2, <1>8, <1>9, Cells, Zenon
<1>11. e \in Nat /\ a \in Nat /\ a <= c /\ c < e
  BY ONLY <1>1, <1>2, <1>8, <1>9, Grows, Zenon
<1>12. e <= b
  <2>1. ~(j <= k)
    <3> SUFFICES ASSUME j <= k PROVE FALSE
      OBVIOUS
    <3>1. k \in 0 .. (n + 1)
      BY <1>2
    <3>2. b <= a
      BY ONLY <1>1, <1>2, <1>5, <1>9, <3>1, j <= k, Ordered
    <3>. QED BY <1>2, <1>3, <1>6, <1>11, <3>2
  <2>2. k + 1 <= j /\ k + 1 \in 0 .. (n + 1)
    BY <1>2, <1>5, <2>1
  <2>. QED BY ONLY <1>1, <1>2, <1>5, <1>9, <2>2, Ordered, Zenon
<1>13. Stopped(b, c, u, m, r2, p2)
  BY ONLY <1>2, <1>3, <1>6, <1>10, <1>11, <1>12, Crosses
<1> QED BY ONLY <1>1, <1>13, Zenon

LEMMA ApproachTurn ==
  ASSUME Flow, Flow', NEW m, NEW l, Turned(m, l), NEW j \in 1 .. Len(frames),
         frames[j] \in Whole, j \notin cut, Approach(j), ~Regained(j)
  PROVE  Approach(j)'
<1>1. PICK w, n, c, u, r, r2, p2, b, e :
        /\ w = All(frames) /\ n = Len(frames) /\ c = Here /\ u = rb.used
        /\ r = read_result /\ r2 = read_result' /\ p2 = pc'
        /\ b = Base(frames, j) /\ e = Base(frames, j + 1)
  BY Zenon
<1>2. Stream
  BY DEF Flow
<1>3. /\ u \in Nat /\ c \in Nat /\ Len(w) \in Nat /\ Got <= Len(w) /\ Got = c + u
      /\ Possible(frames) /\ n \in Nat /\ Len(rest) \in Nat /\ Len(w) - Len(rest) = Got
  <2>1. /\ u \in 0 .. Size /\ Size \in Nat /\ Size >= 16 /\ c \in Nat
        /\ Len(w) \in Nat /\ Got <= Len(w) /\ Got = c + u /\ Possible(frames)
        /\ Len(rest) \in Nat /\ Len(rest) = Len(w) - Got /\ Got \in Nat
    BY ONLY <1>1, <1>2, StreamParts, Zenon
  <2>. QED BY <1>1, <2>1 DEF Possible
<1>4. Turn(w, c, u, r, m, r2, p2, l) /\ Here' = c + m /\ frames' = frames
  BY ONLY <1>1, Turned(m, l), Zenon DEF Turned, Effects
<1>5. m \in 0 .. u /\ u >= 1 /\ r2 \in {0, 1}
  <2>1. m \in 0 .. u /\ r2 \in {0, 1}
    BY ONLY <1>3, <1>4, TurnRange
  <2>2. u >= 1
    BY ONLY <1>4, Zenon DEF Turn
  <2>. QED BY <2>1, <2>2
<1>6. /\ j \in 0 .. n /\ j # 0 /\ j \in 0 .. (n + 1) /\ j \in 0 .. Len(frames)
      /\ j \in 1 .. Len(frames) /\ Len(frames) = n
  BY <1>1, <1>3
<1>7. PICK kind, x : kind = frames[j] /\ x = Texts[j]
  BY Zenon
<1>8. Kind(frames, j) = kind /\ Number(j) = j
  BY ONLY <1>6, <1>7, Zenon DEF Kind, Number
<1>9. b \in Nat /\ e \in Nat /\ Laid(w, b, e, kind, x) /\ x \notin Marks
  <2>1. j \in 1 .. MaxFrames
    BY ONLY <1>3, <1>6, AnswerType, Zenon
  <2>2. x \notin Marks
    BY ONLY <1>7, <2>1, TextsAssumption, Zenon
  <2>. QED BY ONLY <1>1, <1>3, <1>6, <1>7, <1>8, <2>2, Lies, Grows, Zenon
<1>10. kind \in {"ok", "creg", "cmgr", "clcc", "cmgs"}
  BY <1>7 DEF Whole
<1>11. Base(frames, j)' = b /\ Base(frames, j + 1) = e
  BY ONLY <1>1, <1>4, SameAnswers, Zenon
<1>12. ASSUME NEW o \in Nat, c + m = b + o, Near(kind, o, r2)
       PROVE  Approach(j)'
  BY ONLY <1>1, <1>4, <1>7, <1>11, <1>12, Zenon DEF Approach, Near
<1>13. CASE c < b
  <2>1. Turn(All(frames), Here, rb.used, read_result, m, r2, p2, l) /\ Here < Base(frames, j)
    BY ONLY <1>1, <1>4, <1>13, Zenon
  <2>2. Stopped(Base(frames, j), Here, rb.used, m, r2, p2)
    BY <2>1, TurnsTo
  <2>3. Stopped(b, c, u, m, r2, p2)
    BY ONLY <1>1, <2>2, Zenon
  <2>4. c + m <= b \/ (c + m \in {b + 1, b + 2} /\ r2 = 0)
    BY ONLY <2>3, Zenon DEF Stopped
  <2>5. CASE c + m < b
    BY ONLY <1>1, <1>4, <1>11, <2>5, Zenon DEF Approach
  <2>6. CASE c + m >= b
    <3>1. PICK o : o = c + m - b
      OBVIOUS
    <3>2. /\ o \in Nat /\ c + m = b + o
          /\ o = 0 \/ (o = 1 /\ r2 = 0) \/ (o = 2 /\ r2 = 0)
      BY <1>3, <1>5, <1>9, <2>4, <2>6, <3>1
    <3>3. Near(kind, o, r2)
      BY <1>5, <3>2 DEF Near
    <3>. QED BY ONLY <1>12, <3>2, <3>3, Zenon
  <2>. QED BY <1>3, <1>5, <1>9, <2>5, <2>6
<1>14. CASE \E o \in Nat : c = b + o /\ Near(kind, o, r)
  <2>1. PICK o \in Nat : c = b + o /\ Near(kind, o, r)
    BY <1>14
  <2>2. o < e - b
    BY ONLY <1>9, <1>10, <2>1
       DEF Near, Laid, OkAt, CregAt, CmgrAt, ClccAt, CmgsAt
  <2>3. j \notin CutBy(Len(rest))
    BY DEF Flow
  <2>4. ~(b < Got /\ Got < e)
    BY ONLY <1>1, <1>3, <1>6, <2>3, Torn, Zenon
  <2>5. u >= e - b - o
    BY <1>3, <1>5, <1>9, <2>1, <2>2, <2>4
  <2>6. Turn(w, b + o, u, r, m, r2, p2, l)
    BY ONLY <1>4, <2>1, Zenon
  <2>7. Neared(b, e, kind, o, r, u, m, r2, p2)
    BY ONLY <1>3, <1>9, <1>10, <2>1, <2>5, <2>6, NearTurn
  <2>8. CASE m = 0 /\ r2 = r
    <3>1. c + m = b + o /\ Near(kind, o, r2)
      BY <1>3, <2>1, <2>8
    <3>. QED BY ONLY <1>12, <2>1, <3>1, Zenon
  <2>9. CASE Near(kind, o + m, r2)
    <3>1. o + m \in Nat /\ c + m = b + (o + m)
      BY <1>3, <1>5, <1>9, <2>1
    <3>. QED BY ONLY <1>12, <2>9, <3>1, Zenon
  <2>10. CASE b + o + m = e /\ r2 = 0
    <3>1. Here' = Base(frames, j + 1) /\ read_result' = 0
      BY <1>1, <1>4, <1>9, <1>11, <2>1, <2>10
    <3>2. Regained(j)'
      BY <1>4, <3>1, Regains
    <3>. QED BY ONLY <3>2, Zenon DEF Approach
  <2>. QED BY ONLY <2>7, <2>8, <2>9, <2>10, Zenon DEF Neared
<1> QED BY ONLY <1>1, <1>7, <1>13, <1>14, Approach(j), ~Regained(j), Zenon DEF Approach

Resyncs ==
  \A j \in 1 .. Len(frames) :
    j < Len(frames) /\ frames[j] \in Whole /\ j \notin cut /\ damage <= j => Approach(j)

LEMMA InitResyncs ==
  ASSUME ReadInit
  PROVE  Resyncs
<1> SUFFICES ASSUME NEW j \in 1 .. Len(frames) PROVE Approach(j)
  BY DEF Resyncs
<1>1. Stream /\ rb.used = 0 /\ Got <= 16
  BY InitParts
<1>2. Possible(frames) /\ Here = Got /\ Got \in Nat /\ 0 \in Nat
  BY <1>1, StreamParts
<1>3. PICK b : b = Base(frames, j)
  OBVIOUS
<1>4. b \in Nat /\ 16 <= b
  BY ONLY <1>2, <1>3, j \in 1 .. Len(frames), Torn, Zenon
<1>5. CASE Here < b
  BY <1>3, <1>5 DEF Approach
<1>6. CASE ~(Here < b)
  <2>1. Here = b + 0
    BY <1>1, <1>2, <1>4, <1>6
  <2>2. Near(frames[j], 0, read_result)
    BY DEF Near, ReadInit
  <2>. QED BY ONLY <1>2, <1>3, <2>1, <2>2, Zenon DEF Approach
<1> QED BY <1>5, <1>6

LEMMA ResyncsNext ==
  ASSUME Flow, [ReadNext]_readVars, Resyncs
  PROVE  Resyncs'
<1>1. /\ Flow' /\ frames' = frames /\ damage <= damage' /\ cut \subseteq cut'
      /\ \/ \E m, l : Turned(m, l)
         \/ Here' = Here /\ read_result' = read_result /\ delivered' = delivered
  BY FlowNext
<1>2. Len(frames)' = Len(frames) /\ damage \in Int /\ damage' \in Int
  BY <1>1, BoundAssumption DEF Flow
<1> SUFFICES ASSUME NEW j \in 1 .. Len(frames)',
                    (j < Len(frames) /\ frames[j] \in Whole /\ j \notin cut /\ damage <= j)'
             PROVE  Approach(j)'
  BY Zenon DEF Resyncs
<1>3. /\ damage <= j /\ j \notin cut /\ j \in 1 .. Len(frames) /\ j < Len(frames)
      /\ frames[j] \in Whole
  BY <1>1, <1>2 DEF Whole
<1>4. Approach(j)
  BY ONLY <1>3, Resyncs, Zenon DEF Resyncs
<1>5. CASE Regained(j)
  <2>1. Regained(j)'
    BY <1>3, <1>5, RegainedNext
  <2>. QED BY ONLY <2>1, Zenon DEF Approach
<1>6. CASE ~Regained(j) /\ \E m, l : Turned(m, l)
  BY <1>1, <1>3, <1>4, <1>6, ApproachTurn
<1>7. CASE ~Regained(j) /\ Here' = Here /\ read_result' = read_result
  BY <1>1, <1>4, <1>7, ApproachStays
<1> QED BY ONLY <1>1, <1>5, <1>6, <1>7, Zenon

(* When the port is empty, the parser is behind every answer but the last. *)
LEMMA Behind ==
  ASSUME Flow, AllRead, NEW j \in 1 .. Len(frames), j < Len(frames), frames[j] \in Whole,
         Approach(j)
  PROVE  Regained(j)
<1>1. PICK w, n, c, u, r, b, e, f :
        /\ w = All(frames) /\ n = Len(frames) /\ c = Here /\ u = rb.used /\ r = read_result
        /\ b = Base(frames, j) /\ e = Base(frames, j + 1) /\ f = Base(frames, j + 2)
  BY Zenon
<1>2. /\ u \in Nat /\ c \in Nat /\ Len(w) \in Nat /\ c + u = Len(w)
      /\ Possible(frames) /\ n \in Nat /\ Base(frames, n + 1) = Len(w)
  <2>1. Stream
    BY DEF Flow
  <2>2. /\ u \in 0 .. Size /\ Size \in Nat /\ Size >= 16 /\ c \in Nat
        /\ Len(w) \in Nat /\ Got = c + u /\ Possible(frames) /\ Got = Len(w) - Len(rest)
    BY ONLY <1>1, <2>1, StreamParts, Zenon DEF Got
  <2>3. Len(rest) = 0
    BY DEF AllRead
  <2>4. Base(frames, n + 1) = Len(w)
    BY ONLY <1>1, <2>2, Layout, Zenon
  <2>. QED BY <1>1, <2>2, <2>3, <2>4 DEF Possible
<1>3. /\ j \in 0 .. n /\ j # 0 /\ j + 1 \in 0 .. n /\ (j + 1) + 1 = j + 2 /\ j + 2 <= n + 1
      /\ j + 2 \in 0 .. (n + 1) /\ n + 1 \in 0 .. (n + 1) /\ Len(frames) = n
  BY <1>1, <1>2
<1>4. PICK kind, x : kind = frames[j] /\ x = Texts[j]
  BY Zenon
<1>5. Kind(frames, j) = kind /\ Number(j) = j
  BY ONLY <1>3, <1>4, Zenon DEF Kind, Number
<1>6. b \in Nat /\ e \in Nat /\ Laid(w, b, e, kind, x) /\ x \notin Marks
  <2>1. j \in 1 .. MaxFrames
    BY ONLY <1>2, <1>3, AnswerType, j \in 1 .. Len(frames), Zenon
  <2>2. x \notin Marks
    BY ONLY <1>4, <2>1, TextsAssumption, Zenon
  <2>. QED BY ONLY <1>1, <1>2, <1>3, <1>4, <1>5, <2>2, Lies, Grows, Zenon
<1>7. b + 4 <= e /\ e + 4 <= f /\ f <= Len(w) /\ f \in Nat
  BY ONLY <1>1, <1>2, <1>3, Grows, Ordered, Zenon
<1>8. kind \in {"ok", "creg", "cmgr", "clcc", "cmgs"}
  BY <1>4 DEF Whole
<1>9. CASE u > 0
  <2>1. Turn(w, c, u, r, 0, r, "wait", 0)
    <3>1. Awaits(w, c, u, r)
      BY ONLY <1>1, <1>9, Flow, AllRead, Zenon DEF Flow, AllRead
    <3>. QED BY ONLY <3>1, Zenon DEF Awaits
  <2>2. ~(c < b)
    <3> SUFFICES ASSUME c < b PROVE FALSE
      OBVIOUS
    <3>1. /\ Turn(All(frames), Here, rb.used, read_result, 0, r, "wait", 0)
          /\ Here < Base(frames, j)
      BY ONLY <1>1, <2>1, c < b, Zenon
    <3>2. PICK p2 : p2 = "wait"
      OBVIOUS
    <3>3. Turn(All(frames), Here, rb.used, read_result, 0, r, p2, 0)
      BY ONLY <3>1, <3>2, Zenon
    <3>4. Stopped(Base(frames, j), Here, rb.used, 0, r, p2)
      BY <3>1, <3>3, TurnsTo
    <3>5. Stopped(b, c, u, 0, r, p2)
      BY ONLY <1>1, <3>4, Zenon
    <3>6. c + u < b + 2
      BY ONLY <3>2, <3>5, Zenon DEF Stopped
    <3>. QED BY <1>2, <1>6, <1>7, <3>6
  <2>3. ~\E o \in Nat : c = b + o /\ Near(kind, o, r)
    <3> SUFFICES ASSUME NEW o \in Nat, c = b + o, Near(kind, o, r) PROVE FALSE
      OBVIOUS
    <3>1. o < e - b
      BY ONLY <1>6, <1>8, o \in Nat, Near(kind, o, r)
         DEF Near, Laid, OkAt, CregAt, CmgrAt, ClccAt, CmgsAt
    <3>2. u >= e - b - o /\ ~(u < 2)
      BY <1>2, <1>6, <1>7, <3>1
    <3>3. PICK p2, m : p2 = "wait" /\ m = 0 /\ Turn(w, b + o, u, r, m, r, p2, m)
      BY ONLY <2>1, c = b + o, Zenon
    <3>4. Neared(b, e, kind, o, r, u, m, r, p2)
      BY ONLY <1>2, <1>6, <1>8, <3>2, <3>3, o \in Nat, Near(kind, o, r), NearTurn
    <3>5. p2 # "parse"
      BY <3>3
    <3>. QED BY ONLY <3>2, <3>4, <3>5, Zenon DEF Neared
  <2>. QED BY ONLY <1>1, <1>4, <2>2, <2>3, Approach(j), Zenon DEF Approach
<1>10. CASE ~(u > 0)
  <2>1. c = Len(w) /\ ~(c < b)
    BY <1>2, <1>6, <1>7, <1>10
  <2>2. ~\E o \in Nat : c = b + o /\ Near(kind, o, r)
    <3> SUFFICES ASSUME NEW o \in Nat, c = b + o, Near(kind, o, r) PROVE FALSE
      OBVIOUS
    <3>1. o < e - b
      BY ONLY <1>6, <1>8, o \in Nat, Near(kind, o, r)
         DEF Near, Laid, OkAt, CregAt, CmgrAt, ClccAt, CmgsAt
    <3>. QED BY <1>6, <1>7, <2>1, <3>1
  <2>. QED BY ONLY <1>1, <1>4, <2>1, <2>2, Approach(j), Zenon DEF Approach
<1> QED BY <1>9, <1>10

LEMMA SuffixOf ==
  ASSUME NEW S, NEW s \in Seq(S), NEW t \in Seq(S)
  PROVE  IsSuffix(t, s \o t)
<1>1. PICK z : z = s \o t
  OBVIOUS
<1>2. /\ z \in Seq(S) /\ Len(z) = Len(s) + Len(t) /\ Len(t) \in Nat
      /\ \A i \in 1 .. Len(t) : z[Len(s) + i] = t[i]
  BY <1>1, Joined
<1>3. Len(s) \in Nat /\ Len(t) \in Nat
  OBVIOUS
<1>4. PICK p, q : p = Reverse(t) /\ q = Reverse(z)
  BY Zenon
<1>5. /\ p \in Seq(S) /\ q \in Seq(S) /\ Len(p) = Len(t) /\ Len(q) = Len(z)
      /\ \A i \in 1 .. Len(t) : p[i] = t[Len(t) - i + 1]
      /\ \A i \in 1 .. Len(z) : q[i] = z[Len(z) - i + 1]
  BY <1>2, <1>3, <1>4 DEF Reverse
<1>6. ASSUME NEW i \in 1 .. Len(t) PROVE p[i] = q[i]
  <2>1. PICK d : d = Len(t) - i + 1
    OBVIOUS
  <2>2. d \in 1 .. Len(t) /\ Len(z) - i + 1 = Len(s) + d /\ i \in 1 .. Len(z)
    BY <1>2, <1>3, <2>1
  <2>. QED BY ONLY <1>2, <1>5, <2>1, <2>2, i \in 1 .. Len(t), Zenon
<1>7. SubSeq(p, 1, Len(p)) = SubSeq(q, 1, Len(p)) /\ Len(p) <= Len(q)
  <2>1. /\ SubSeq(p, 1, Len(p)) = [i \in 1 .. Len(p) |-> p[i]]
        /\ SubSeq(q, 1, Len(p)) = [i \in 1 .. Len(p) |-> q[i]]
    BY <1>2, <1>3, <1>5
  <2>. QED BY <1>2, <1>3, <1>5, <1>6, <2>1
<1> QED BY ONLY <1>1, <1>4, <1>7, Zenon DEF IsSuffix, IsPrefix

LEMMA SuffixEmpty ==
  ASSUME NEW S, NEW s \in Seq(S)
  PROVE  IsSuffix(<<>>, s)
<1>1. PICK e : e = <<>>
  OBVIOUS
<1>2. e \in Seq(S) /\ s \o e = s
  BY <1>1, ConcatEmptySeq
<1>3. IsSuffix(e, s \o e)
  BY ONLY <1>2, s \in Seq(S), SuffixOf
<1> QED BY ONLY <1>1, <1>2, <1>3, Zenon

LEMMA ResyncsEnd ==
  ASSUME Flow, Resyncs
  PROVE  Resynchronised
<1> SUFFICES ASSUME AllRead, NEW j \in DOMAIN frames \ cut, j >= damage,
                    frames[j] \notin {"prompt", "cssi"}
             PROVE  IsSuffix(ExpectedOf(j + 1, Len(frames)), delivered)
  BY Zenon DEF Resynchronised
<1>1. /\ Possible(frames) /\ delivered \in Seq(Seq(Tokens)) /\ damage \in Int
      /\ Len(frames) \in Nat /\ j \in 1 .. Len(frames)
  BY BoundAssumption DEF Flow, Stream, Possible
<1>2. CASE j = Len(frames)
  <2>1. ExpectedOf(j + 1, Len(frames)) = <<>>
    BY <1>1, <1>2, ExpectedEnd
  <2>2. IsSuffix(<<>>, delivered)
    BY <1>1, SuffixEmpty
  <2>. QED BY ONLY <2>1, <2>2, Zenon
<1>3. CASE j # Len(frames)
  <2>1. j < Len(frames) /\ damage <= j
    BY <1>1, <1>3
  <2>2. frames[j] \in Whole
    <3>1. frames[j] \in AllKinds
      BY <1>1, AnswerType
    <3>2. frames[j] # "long"
      BY <1>1, <1>3 DEF Possible
    <3>. QED BY <3>1, <3>2 DEF AllKinds, Whole
  <2>3. Approach(j)
    BY ONLY <1>1, <2>1, <2>2, Resyncs, j \in DOMAIN frames \ cut, Zenon DEF Resyncs
  <2>4. Regained(j)
    BY <1>1, <2>1, <2>2, <2>3, Behind
  <2>5. PICK pre, goal, S, t : /\ pre \in Seq(Seq(Tokens)) /\ t = ExpectedOf(j + 1, Len(frames))
                               /\ S = Seq(Tokens) /\ goal = pre \o t
                               /\ InStep(j + 1, goal)
    BY ONLY <2>4, Zenon DEF Regained
  <2>6. t \in Seq(S)
    BY ONLY <1>1, <2>5, ExpectedStep, Zenon
  <2>7. delivered = goal
    <3>1. j + 1 \in 1 .. (Len(frames) + 1)
      BY <1>1
    <3>. QED BY ONLY <2>5, <3>1, Flow, AllRead, InStepEnd, Zenon
  <2>8. IsSuffix(t, pre \o t)
    <3>1. pre \in Seq(S)
      BY <2>5
    <3>. QED BY ONLY <2>6, <3>1, SuffixOf
  <2>. QED BY ONLY <2>5, <2>7, <2>8, Zenon
<1> QED BY <1>2, <1>3

(* And after damage: from the first answer on that ends with a line break   *)
(* and comes in one read, all results are delivered, each once and whole.  *)
THEOREM ResynchronisedCorrect == ReadSpec => []Resynchronised
<1> DEFINE SInv == Flow /\ Resyncs
<1>1. ReadInit => SInv
  BY InitFlow, InitResyncs
<1>2. SInv /\ [ReadNext]_readVars => SInv'
  BY FlowNext, ResyncsNext
<1>3. SInv => Resynchronised
  BY ResyncsEnd
<1> QED BY <1>1, <1>2, <1>3, PTL DEF ReadSpec
===============================================================================
