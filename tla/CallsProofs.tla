----------------------------- MODULE CallsProofs -----------------------------
(***************************************************************************)
(* That the driver's record of the calls stays right, for any number of    *)
(* call structures, any number of calls the modem may hold (at most 31)    *)
(* and no bound on the queue or on what is unread.                         *)
(*                                                                         *)
(* The inductive invariant IInv has three parts.  Good says what the       *)
(* record d is at any time; it is kept by each function of Calls for       *)
(* itself (Minor, Stayed, Turned and Joined name what a function leaves    *)
(* alone), so that a handler is a chain of them.  Wire says that a result  *)
(* on its way is the result of the command that heads the queue.  Story    *)
(* ties what the driver knows and what the unread messages tell of the     *)
(* incoming calls to the calls the modem has: what is no longer true of a  *)
(* call is followed by its ^CEND.                                          *)
(***************************************************************************)
EXTENDS Calls, FiniteSetTheorems, SequenceTheorems, WellFoundedInduction, TLAPS

(* The types.                                                              *)
CmdNames == {"D", "A", "CHLD_2", "CHLD_2x", "CHLD_3", "CHUP", "CHLD_1x", "CLCC"}
Command == [cmd : CmdNames, idx : 0 .. 31]
Task == [cpvt : Ids \cup {sys}, cmds : Seq(Command) \ {<<>>}]
Driver == [chans : Seq(Ids), call : [Ids -> Cpvt], chan : [Ids -> Chan],
           chansno : Nat, chan_count : [States -> Nat],
           ring : BOOLEAN, cwaiting : BOOLEAN, dialing : BOOLEAN,
           last : Ids \cup {None}, queue : Seq(Task)]

Dirs == {"in", "out"}
(* the states a call of each direction is in, as the modem has it *)
InStates == {"incoming", "waiting", "active", "onhold"}
OutStates == {"placed", "dialing", "alerting", "active", "onhold"}
Ringing == {"incoming", "waiting"}
Spoken == {"active", "onhold"}
NetCall == {c \in [dir : Dirs, st : InStates \cup OutStates \cup {"none"}] :
              /\ c.dir = "in" => c.st \in InStates \cup {"none"}
              /\ c.dir = "out" => c.st \in OutStates \cup {"none"}}
Line == {l \in [idx : Idx, dir : Dirs, st : (InStates \cup OutStates) \ {"placed"}] :
              /\ l.dir = "in" => l.st \in InStates
              /\ l.dir = "out" => l.st \in OutStates}
Types == {"OK", "ERROR", "ORIG", "CEND", "CONN", "RING", "CCWA", "BUSY", "CLCC"}
Message == {m \in [type : Types, idx : 0 .. 31, lines : Seq(Line)] :
              /\ m.type \in {"ORIG", "CEND", "CONN"} => m.idx \in Idx
              /\ m.type # "CLCC" => m.lines = <<>>
              /\ \A i, j \in 1 .. Len(m.lines) :
                   m.lines[i].idx = m.lines[j].idx => m.lines[i] = m.lines[j]}

-----------------------------------------------------------------------------
(* The driver's record.                                                    *)

Shape(s) ==
  /\ s \in Driver
  /\ \A i, j \in DOMAIN s.chans : s.chans[i] = s.chans[j] => i = j
  /\ IsFiniteSet(Linked(s))
  /\ s.chansno = Len(s.chans)
  /\ \A id \in Ids : id \notin Linked(s) => s.call[id] = NoCpvt

InState(s, st) == {id \in Linked(s) : s.call[id].state = st}
Counts(s) == \A st \in States : s.chan_count[st] = Cardinality(InState(s, st))

Points(s) ==
  /\ s.last \in Linked(s) \cup {None}
  /\ \A i \in DOMAIN s.queue : s.queue[i].cpvt \in Linked(s) \cup {sys}
  /\ \A id \in Ids : s.chan[id].link <=> (id \in Linked(s) /\ s.call[id].ch)

Sound(s) ==
  /\ \A a, b \in Linked(s) : s.call[a].master /\ s.call[b].master => a = b
  /\ \A id \in Ids : s.call[id].master => s.chan[id].fd0 = "audio"
  /\ \A id \in Ids : s.chan[id].fd0 = "audio" => s.call[id].act
  /\ \A id \in Ids : s.call[id].act =>
       s.call[id].ch /\ s.call[id].state \in {"active", "dialing", "alerting"}
  /\ \A id \in Linked(s) : s.call[id].ch /\ s.call[id].state = "active" => s.call[id].act

Told(s) == \A id \in Ids : s.chan[id].up /\ ~s.chan[id].link => s.chan[id].hup

(* no call that was released is kept, and only outgoing calls are dialled *)
Alive(s) == \A id \in Linked(s) : s.call[id].state # "released"
Dials(s) ==
  /\ s.last # None => s.call[s.last].dir = "out"
  /\ \A i \in DOMAIN s.queue : \A k \in DOMAIN s.queue[i].cmds :
       s.queue[i].cmds[k].cmd = "D" /\ s.queue[i].cpvt # sys
         => s.call[s.queue[i].cpvt].dir = "out"

(* incoming calls have the modem's number, which no other call has *)
Incoming(s) == {id \in Linked(s) : s.call[id].dir = "in"}
Single(s) ==
  \A a \in Incoming(s) : /\ s.call[a].idx \in Idx
                         /\ \A b \in Linked(s) : s.call[a].idx = s.call[b].idx => a = b

Good(s) == /\ Shape(s) /\ Counts(s) /\ Points(s) /\ Sound(s) /\ Told(s)
           /\ Alive(s) /\ Dials(s) /\ Single(s)

-----------------------------------------------------------------------------
(* The order of messages.                                                  *)

Final(m) == m.type \in {"OK", "ERROR"}
Wire ==
  /\ executed => d.queue # <<>>
  /\ \A i \in DOMAIN inbox : Final(inbox[i]) => executed
  /\ \A i, j \in DOMAIN inbox : Final(inbox[i]) /\ Final(inbox[j]) => i = j

(* the incoming calls the driver has, and of those the ones answered *)
Held(s) == {s.call[id].idx : id \in Incoming(s)}
Taken(s) == {s.call[id].idx : id \in {a \in Incoming(s) : s.call[a].state \notin Ringing}}
(* the same of what a message tells, the calls it says ring, and its others *)
LinesOf(m) == {m.lines[i] : i \in {k \in 1 .. Len(m.lines) : m.lines[k].dir = "in"}}
HeldBy(m) == IF m.type = "CLCC" THEN {l.idx : l \in LinesOf(m)} ELSE {}
RingBy(m) == IF m.type = "CLCC" THEN {l.idx : l \in {k \in LinesOf(m) : k.st \in Ringing}} ELSE {}
TakenBy(m) == CASE m.type = "CLCC" -> {l.idx : l \in {k \in LinesOf(m) : k.st \notin Ringing}}
                [] m.type = "CONN" -> {m.idx}
                [] OTHER -> {}
EndedBy(m) == IF m.type = "CEND" THEN {m.idx} ELSE {}
DialledBy(m) == IF m.type = "ORIG" THEN {m.idx} ELSE {}

(* position 0 is what the driver knows already *)
HeldAt(p) == IF p = 0 THEN Held(d) ELSE HeldBy(inbox[p])
TakenAt(p) == IF p = 0 THEN Taken(d) ELSE TakenBy(inbox[p])
EndBetween(n, p, q) == \E j \in DOMAIN inbox : p < j /\ j < q /\ n \in EndedBy(inbox[j])
EndAfter(n, p) == \E j \in DOMAIN inbox : p < j /\ n \in EndedBy(inbox[j])

Story ==
  \A n \in Idx, p \in 0 .. Len(inbox) :
    /\ n \in HeldAt(p) =>
         /\ (net[n].dir = "in" /\ net[n].st # "none") \/ EndAfter(n, p)
         /\ \A q \in DOMAIN inbox : p < q /\ n \in DialledBy(inbox[q]) => EndBetween(n, p, q)
    /\ n \in TakenAt(p) =>
         /\ net[n].st \in Spoken \/ EndAfter(n, p)
         /\ \A q \in DOMAIN inbox : p < q /\ n \in RingBy(inbox[q]) => EndBetween(n, p, q)

IInv == /\ Good(d) /\ executed \in BOOLEAN /\ inbox \in Seq(Message) /\ net \in [Idx -> NetCall]
        /\ Wire /\ Story

-----------------------------------------------------------------------------
(* Induction over numbers, with sets in place of predicates, and what it   *)
(* gives for functions that are defined recursively.                       *)

(* A set of numbers that is not empty has a least one. *)
LEMMA LeastNumber ==
  ASSUME NEW T, T \subseteq Nat, T # {}
  PROVE  \E n \in T : \A m \in T : n <= m
<1> DEFINE R == OpToRel(<, Nat)
<1>1. IsWellFoundedOn(R, Nat)
  BY NatLessThanWellFounded
<1>2. \A m, n \in Nat : m < n => <<m, n>> \in R
  BY DEF OpToRel
<1> HIDE DEF R
<1>3. PICK n \in T : \A m \in T : ~(<<m, n>> \in R)
  BY <1>1, WFMin
<1>4. ASSUME NEW m \in T PROVE n <= m
  <2>1. m \in Nat /\ n \in Nat
    OBVIOUS
  <2>2. ~(m < n)
    BY <1>2, <1>3, <2>1
  <2>. QED BY <2>1, <2>2
<1> QED BY <1>4

(* Induction up to a bound: a set that holds 0, and each n + 1 up to N with *)
(* n, holds every number up to N.                                          *)
LEMMA BoundedInduction ==
  ASSUME NEW N \in Nat, NEW T, 0 \in T,
         ASSUME NEW n \in 0 .. N, n + 1 <= N, n \in T PROVE n + 1 \in T
  PROVE  0 .. N \subseteq T
<1> SUFFICES ASSUME ~(0 .. N \subseteq T) PROVE FALSE
  OBVIOUS
<1>1. PICK n \in (0 .. N) \ T : \A m \in (0 .. N) \ T : n <= m
  <2>1. (0 .. N) \ T \subseteq Nat /\ (0 .. N) \ T # {}
    OBVIOUS
  <2>. QED BY <2>1, LeastNumber
<1>2. n # 0 /\ n - 1 \in 0 .. N /\ (n - 1) + 1 = n
  BY <1>1
<1>3. n - 1 \in T
  BY <1>1, <1>2
<1>4. (n - 1) + 1 \in T
  BY <1>1, <1>2, <1>3
<1> QED BY <1>1, <1>2, <1>4

(* F[n] leads from each set of the family S to the next; h is such a way *)
Passes(N, S, F) == \A n \in 1 .. N : \A x \in S[n - 1] : F[n][x] \in S[n]
Way(N, S, e, F, h) ==
  /\ h[0] = e
  /\ \A n \in 1 .. N : h[n - 1] \in S[n - 1] /\ h[n] = F[n][h[n - 1]]

(* A step for each n that leads from one set of a family to the next can   *)
(* be taken N times: this is what gives a recursive function its values.   *)
LEMMA Iteration ==
  ASSUME NEW N \in Nat, NEW V, NEW S \in [0 .. N -> SUBSET V], NEW e \in S[0], NEW F,
         Passes(N, S, F)
  PROVE  \E h \in [0 .. N -> V] : Way(N, S, e, F, h)
<1> USE DEF Passes
<1> DEFINE Upto(n, h) ==
             /\ h \in [0 .. n -> V]
             /\ h[0] = e
             /\ \A k \in 0 .. n : h[k] \in S[k]
             /\ \A k \in 1 .. n : h[k] = F[k][h[k - 1]]
           T == {n \in 0 .. N : \E h : Upto(n, h)}
<1>1. 0 \in T
  <2> DEFINE h == [k \in 0 .. 0 |-> e]
  <2>1. Upto(0, h)
    OBVIOUS
  <2> HIDE DEF h, Upto
  <2>. QED BY <2>1
<1>2. ASSUME NEW n \in 0 .. N, n + 1 <= N, n \in T PROVE n + 1 \in T
  <2>1. PICK h : Upto(n, h)
    BY <1>2
  <2> DEFINE j == [k \in 0 .. n + 1 |-> IF k = n + 1 THEN F[n + 1][h[n]] ELSE h[k]]
  <2>2. \A k \in 0 .. n : j[k] = h[k]
    OBVIOUS
  <2>3. j[n + 1] = F[n + 1][h[n]] /\ n \in 0 .. n /\ n + 1 \in 1 .. N /\ (n + 1) - 1 = n
    BY <1>2
  <2>4. j[n + 1] \in S[n + 1]
    BY <2>1, <2>3
  <2>5. j \in [0 .. n + 1 -> V] /\ j[0] = e
    <3>1. n + 1 \in 0 .. N
      BY <1>2
    <3>2. \A k \in 0 .. n + 1 : k = n + 1 \/ k \in 0 .. n
      OBVIOUS
    <3>. QED BY <2>1, <2>2, <2>4, <3>1, <3>2
  <2>6. \A k \in 0 .. n + 1 : j[k] \in S[k]
    BY <2>1, <2>2, <2>4
  <2>7. \A k \in 1 .. n + 1 : j[k] = F[k][j[k - 1]]
    <3> SUFFICES ASSUME NEW k \in 1 .. n + 1 PROVE j[k] = F[k][j[k - 1]]
      OBVIOUS
    <3>1. k - 1 \in 0 .. n /\ j[k - 1] = h[k - 1]
      BY <2>2
    <3>2. CASE k = n + 1
      BY <2>3, <3>1, <3>2
    <3>3. CASE k \in 1 .. n
      BY <2>1, <2>2, <3>1, <3>3
    <3>. QED BY <3>2, <3>3
  <2> HIDE DEF j
  <2>8. Upto(n + 1, j)
    BY <2>5, <2>6, <2>7
  <2> HIDE DEF Upto
  <2>. QED BY <1>2, <2>8
<1> HIDE DEF T
<1>3. 0 .. N \subseteq T
  BY <1>1, <1>2, BoundedInduction
<1>4. PICK h : Upto(N, h)
  BY <1>3 DEF T
<1>5. \A n \in 1 .. N : n - 1 \in 0 .. N
  OBVIOUS
<1>6. h \in [0 .. N -> V] /\ Way(N, S, e, F, h)
  BY <1>4, <1>5 DEF Way
<1> QED BY <1>6

(* Values that pass from each set of a family to the next are in them all. *)
LEMMA Iterates ==
  ASSUME NEW N \in Nat, NEW S, NEW g, g[0] \in S[0],
         \A n \in 1 .. N : g[n - 1] \in S[n - 1] => g[n] \in S[n]
  PROVE  \A n \in 0 .. N : g[n] \in S[n]
<1> DEFINE T == {n \in 0 .. N : g[n] \in S[n]}
<1>1. 0 \in T
  OBVIOUS
<1>2. ASSUME NEW n \in 0 .. N, n + 1 <= N, n \in T PROVE n + 1 \in T
  BY <1>2
<1> HIDE DEF T
<1>3. 0 .. N \subseteq T
  BY <1>1, <1>2, BoundedInduction
<1> QED BY <1>3 DEF T

-----------------------------------------------------------------------------
(* What InOrder returns.                                                   *)

(* What MsgsFor and Lines are built with says of each call of the set what *)
(* f says of it, and nothing else.                                         *)
LEMMA InOrderSays ==
  ASSUME NEW set \in SUBSET Idx, NEW V, NEW f \in [Idx -> V]
  PROVE  /\ InOrder(set, f) \in Seq(V)
         /\ \A i \in DOMAIN InOrder(set, f) : \E n \in set : InOrder(set, f)[i] = f[n]
         /\ \A n \in set : \E i \in DOMAIN InOrder(set, f) : InOrder(set, f)[i] = f[n]
<1> DEFINE Body(g) == [n \in 0 .. MaxIdx |->
                         CASE n = 0 -> <<>>
                           [] n # 0 /\ n \in set -> Append(g[n - 1], f[n])
                           [] OTHER -> g[n - 1]]
           upto == CHOOSE g : g = Body(g)
           Says(n, q) == /\ \A i \in DOMAIN q : \E k \in set : q[i] = f[k]
                         /\ \A k \in set : k <= n => \E i \in DOMAIN q : q[i] = f[k]
           S == [n \in 0 .. MaxIdx |-> {q \in Seq(V) : Says(n, q)}]
           F == [n \in 1 .. MaxIdx |-> [q \in S[n - 1] |->
                   IF n \in set THEN Append(q, f[n]) ELSE q]]
<1>1. MaxIdx \in Nat /\ MaxIdx \in 0 .. MaxIdx /\ Idx = 1 .. MaxIdx
  BY BoundsAssumption DEF Idx
<1>2. InOrder(set, f) = upto[MaxIdx]
  BY DEF InOrder
<1>3. \A n \in 1 .. MaxIdx : \A q \in S[n - 1] :
        (IF n \in set THEN Append(q, f[n]) ELSE q) \in S[n]
  <2> SUFFICES ASSUME NEW n \in 1 .. MaxIdx, NEW q \in S[n - 1]
               PROVE  (IF n \in set THEN Append(q, f[n]) ELSE q) \in S[n]
    OBVIOUS
  <2>1. q \in Seq(V) /\ Says(n - 1, q) /\ n - 1 \in 0 .. MaxIdx /\ n \in 0 .. MaxIdx
    BY <1>1
  <2>2. CASE n \notin set
    <3>1. \A k \in set : k <= n => k <= n - 1
      BY <1>1, <2>2
    <3>2. Says(n, q)
      BY <2>1, <3>1
    <3>. QED BY <2>1, <2>2, <3>2
  <2>3. CASE n \in set
    <3> DEFINE r == Append(q, f[n])
    <3>1. r \in Seq(V) /\ DOMAIN q = 1 .. Len(q) /\ DOMAIN r = 1 .. Len(q) + 1 /\ Len(q) \in Nat
      BY <1>1, <2>1
    <3>2. r[Len(q) + 1] = f[n] /\ \A i \in 1 .. Len(q) : r[i] = q[i]
      BY <1>1, <2>1
    <3>3. \A i \in DOMAIN r : \E k \in set : r[i] = f[k]
      BY <2>1, <2>3, <3>1, <3>2
    <3>4. ASSUME NEW k \in set, k <= n PROVE \E i \in DOMAIN r : r[i] = f[k]
      <4>1. CASE k = n
        BY <3>1, <3>2, <4>1
      <4>2. CASE k # n
        <5>1. k <= n - 1
          BY <1>1, <3>4, <4>2
        <5>2. PICK i \in DOMAIN q : q[i] = f[k]
          BY <2>1, <5>1
        <5>. QED BY <3>1, <3>2, <5>2
      <4>. QED BY <4>1, <4>2
    <3> HIDE DEF r
    <3>5. Says(n, r)
      BY <3>3, <3>4
    <3>6. r \in S[n]
      BY <2>1, <3>1, <3>5
    <3>. QED BY <2>3, <3>6 DEF r
  <2>. QED BY <2>2, <2>3
<1>4. <<>> \in S[0]
  <2>1. <<>> \in Seq(V) /\ DOMAIN <<>> = {}
    OBVIOUS
  <2>2. \A k \in set : ~(k <= 0)
    BY <1>1
  <2>3. Says(0, <<>>)
    BY <2>1, <2>2
  <2>. QED BY <1>1, <2>1, <2>3
<1> HIDE DEF Says
<1>5. \A n \in 1 .. MaxIdx : \A q \in S[n - 1] :
        F[n][q] = IF n \in set THEN Append(q, f[n]) ELSE q
  OBVIOUS
<1> HIDE DEF S, F
<1>6. PICK h \in [0 .. MaxIdx -> Seq(V)] : Way(MaxIdx, S, <<>>, F, h)
  <2>1. S \in [0 .. MaxIdx -> SUBSET Seq(V)]
    BY DEF S
  <2>2. Passes(MaxIdx, S, F)
    BY <1>3, <1>5 DEF Passes
  <2>. QED BY <1>1, <1>4, <2>1, <2>2, Iteration
<1>7. h = Body(h)
  <2>1. ASSUME NEW n \in 0 .. MaxIdx
        PROVE  h[n] = CASE n = 0 -> <<>>
                        [] n # 0 /\ n \in set -> Append(h[n - 1], f[n])
                        [] OTHER -> h[n - 1]
    <3>1. CASE n = 0
      BY <1>6, <3>1 DEF Way
    <3>2. CASE n # 0
      <4>1. n \in 1 .. MaxIdx
        BY <1>1, <3>2
      <4>2. h[n] = IF n \in set THEN Append(h[n - 1], f[n]) ELSE h[n - 1]
        BY <1>5, <1>6, <4>1 DEF Way
      <4>. QED BY <3>2, <4>2
    <3>. QED BY <3>1, <3>2
  <2>. QED BY <2>1
<1>8. upto = Body(upto)
  BY <1>7
<1> HIDE DEF upto
<1>9. upto[0] = <<>> /\ \A n \in 1 .. MaxIdx :
        upto[n] = IF n \in set THEN Append(upto[n - 1], f[n]) ELSE upto[n - 1]
  <2>1. \A n \in 0 .. MaxIdx : upto[n] = Body(upto)[n]
    BY <1>8
  <2>2. \A n \in 1 .. MaxIdx : n \in 0 .. MaxIdx /\ n # 0
    BY <1>1
  <2>3. upto[0] = <<>>
    BY <1>1, <2>1
  <2>4. ASSUME NEW n \in 1 .. MaxIdx
        PROVE  upto[n] = IF n \in set THEN Append(upto[n - 1], f[n]) ELSE upto[n - 1]
    BY <2>1, <2>2, <2>4
  <2>. QED BY <2>3, <2>4
<1> HIDE DEF Body
<1>10. \A n \in 0 .. MaxIdx : upto[n] \in S[n]
  <2>1. \A n \in 1 .. MaxIdx : upto[n - 1] \in S[n - 1] => upto[n] \in S[n]
    BY <1>3, <1>9
  <2>2. upto[0] \in S[0]
    BY <1>4, <1>9
  <2>. QED BY <1>1, <2>1, <2>2, Iterates
<1>11. upto[MaxIdx] \in Seq(V) /\ Says(MaxIdx, upto[MaxIdx])
  BY <1>1, <1>10 DEF S
<1> QED BY <1>1, <1>2, <1>11 DEF Says

-----------------------------------------------------------------------------
(* The driver's functions.  Good is what they keep.                        *)

(* a task of calls of the list, that dials none that came in *)
TaskFor(s, t) ==
  /\ t.cpvt \in Linked(s) \cup {sys}
  /\ \A k \in DOMAIN t.cmds : t.cmds[k].cmd = "D" /\ t.cpvt # sys => s.call[t.cpvt].dir = "out"

(* t differs from s in the queue, in flags and in what calls remember only *)
Alike(c, e) == /\ e.idx = c.idx /\ e.dir = c.dir /\ e.state = c.state
               /\ e.ch = c.ch /\ e.act = c.act /\ e.master = c.master
Minor(s, t) ==
  /\ t \in Driver
  /\ t.chans = s.chans /\ t.chansno = s.chansno /\ t.chan_count = s.chan_count
  /\ \A id \in Ids : /\ Alike(s.call[id], t.call[id])
                     /\ id \notin Linked(s) => t.call[id] = s.call[id]
                     /\ t.chan[id].up = s.chan[id].up /\ t.chan[id].link = s.chan[id].link
                     /\ t.chan[id].fd0 = s.chan[id].fd0
                     /\ s.chan[id].hup => t.chan[id].hup
  /\ t.last \in {None, s.last} \/ (t.last \in Linked(s) /\ s.call[t.last].dir = "out")
  /\ \A i \in DOMAIN t.queue : TaskFor(s, t.queue[i])

(* no duty to hang up is lost, and the queue is not emptied *)
Kept(s, t) == /\ s.queue # <<>> => t.queue # <<>>
              /\ \A id \in Ids : s.call[id].need => t.call[id].need

LEMMA LinkedIds ==
  ASSUME NEW s, s.chans \in Seq(Ids)
  PROVE  Linked(s) = {s.chans[i] : i \in 1 .. Len(s.chans)} /\ Linked(s) \subseteq Ids
BY DEF Linked, ToSet

LEMMA MinorGood ==
  ASSUME NEW s, NEW t, Good(s), Minor(s, t)
  PROVE  Good(t) /\ Linked(t) = Linked(s) /\ Held(t) = Held(s) /\ Taken(t) = Taken(s)
<1>1. Linked(t) = Linked(s) /\ Linked(s) \subseteq Ids /\ s \in Driver
  BY LinkedIds DEF Minor, Good, Shape, Driver, Linked
<1>2. Shape(t)
  BY <1>1 DEF Good, Shape, Minor
<1>3. Counts(t)
  <2>1. \A st \in States : InState(t, st) = InState(s, st)
    BY <1>1 DEF InState, Minor, Alike
  <2>. QED BY <2>1 DEF Good, Counts, Minor
<1>4. Points(t)
  BY <1>1 DEF Good, Points, Minor, TaskFor, Alike
<1>5. Sound(t)
  BY <1>1 DEF Good, Sound, Minor, Alike
<1>6. Told(t)
  BY DEF Good, Told, Minor
<1>7. Alive(t)
  BY <1>1 DEF Good, Alive, Minor, Alike
<1>8. Dials(t)
  <2>1. t.last # None => t.call[t.last].dir = "out"
    BY <1>1 DEF Good, Dials, Points, Minor, Alike
  <2>2. ASSUME NEW i \in DOMAIN t.queue, NEW k \in DOMAIN t.queue[i].cmds,
               t.queue[i].cmds[k].cmd = "D" /\ t.queue[i].cpvt # sys
        PROVE  t.call[t.queue[i].cpvt].dir = "out"
    <3>1. TaskFor(s, t.queue[i])
      BY DEF Minor
    <3>. QED BY <1>1, <2>2, <3>1 DEF TaskFor, Minor, Alike
  <2>. QED BY <2>1, <2>2 DEF Dials
<1>9. Incoming(t) = Incoming(s)
  BY <1>1 DEF Incoming, Minor, Alike
<1>10. Single(t)
  BY <1>1, <1>9 DEF Good, Single, Minor, Alike, Incoming
<1>11. Held(t) = Held(s)
  BY <1>1, <1>9 DEF Held, Minor, Alike, Incoming
<1>12. Taken(t) = Taken(s)
  BY <1>1, <1>9 DEF Taken, Minor, Alike, Incoming
<1> QED BY <1>1, <1>2, <1>3, <1>4, <1>5, <1>6, <1>7, <1>8, <1>10, <1>11, <1>12 DEF Good

LEMMA MinorTwice ==
  ASSUME NEW s, NEW t, NEW u, Good(s), Minor(s, t), Minor(t, u)
  PROVE  Minor(s, u)
<1>1. Linked(t) = Linked(s) /\ Linked(s) \subseteq Ids
  BY MinorGood, LinkedIds DEF Good, Shape, Driver
<1>2. \A i \in DOMAIN u.queue : TaskFor(s, u.queue[i])
  BY <1>1 DEF Minor, TaskFor, Alike
<1>3. u.last \in {None, s.last} \/ (u.last \in Linked(s) /\ s.call[u.last].dir = "out")
  BY <1>1 DEF Minor, Alike
<1>4. ASSUME NEW id \in Ids
      PROVE  /\ Alike(s.call[id], u.call[id])
             /\ id \notin Linked(s) => u.call[id] = s.call[id]
             /\ u.chan[id].up = s.chan[id].up /\ u.chan[id].link = s.chan[id].link
             /\ u.chan[id].fd0 = s.chan[id].fd0
             /\ s.chan[id].hup => u.chan[id].hup
  BY <1>1 DEF Minor, Alike
<1> QED BY <1>2, <1>3, <1>4 DEF Minor

LEMMA KeptTwice ==
  ASSUME NEW s, NEW t, NEW u, Kept(s, t), Kept(t, u)
  PROVE  Kept(s, u)
BY DEF Kept

(* The tasks of a good driver are of calls of its list. *)
LEMMA GoodTasks ==
  ASSUME NEW s, Good(s)
  PROVE  /\ \A i \in DOMAIN s.queue : TaskFor(s, s.queue[i]) /\ s.queue[i] \in Task
         /\ s.queue \in Seq(Task) /\ Linked(s) \subseteq Ids
         /\ sys \notin Linked(s) /\ None \notin Linked(s)
<1>1. s \in Driver /\ Linked(s) \subseteq Ids
  BY LinkedIds DEF Good, Shape, Driver
<1>2. s.queue \in Seq(Task)
  BY <1>1 DEF Driver
<1>3. \A i \in DOMAIN s.queue : TaskFor(s, s.queue[i])
  BY DEF Good, Points, Dials, TaskFor
<1> QED BY <1>1, <1>2, <1>3, NamesAssumption

(* at_queue_insert puts the task first, or behind the one being answered. *)
LEMMA EnqueMinor ==
  ASSUME NEW s, Good(s), NEW id \in Linked(s) \cup {sys}, NEW cmds \in Seq(Command) \ {<<>>},
         \A k \in DOMAIN cmds : cmds[k].cmd = "D" /\ id # sys => s.call[id].dir = "out"
  PROVE  /\ Minor(s, Enque(s, id, cmds)) /\ Kept(s, Enque(s, id, cmds))
         /\ Enque(s, id, cmds).call = s.call /\ Enque(s, id, cmds).last = s.last
         /\ \E i \in DOMAIN Enque(s, id, cmds).queue :
              Enque(s, id, cmds).queue[i] = [cpvt |-> id, cmds |-> cmds]
<1> DEFINE t == [cpvt |-> id, cmds |-> cmds]
           q == IF s.queue = <<>> THEN <<t>> ELSE <<Head(s.queue), t>> \o Tail(s.queue)
<1>1. s \in Driver /\ s.queue \in Seq(Task) /\ Linked(s) \subseteq Ids
  BY GoodTasks DEF Good, Shape
<1>2. t \in Task /\ TaskFor(s, t)
  BY <1>1 DEF Task, TaskFor
<1>3. /\ q \in Seq(Task) /\ q # <<>>
      /\ \A i \in DOMAIN q : q[i] = t \/ \E j \in DOMAIN s.queue : q[i] = s.queue[j]
      /\ \E i \in DOMAIN q : q[i] = t
  <2> HIDE DEF t
  <2>1. CASE s.queue = <<>>
    BY <1>2, <2>1
  <2>2. CASE s.queue # <<>>
    <3>1. /\ Head(s.queue) = s.queue[1] /\ Head(s.queue) \in Task /\ 1 \in DOMAIN s.queue
          /\ Tail(s.queue) \in Seq(Task) /\ Len(Tail(s.queue)) = Len(s.queue) - 1
          /\ \A k \in 1 .. Len(s.queue) - 1 : Tail(s.queue)[k] = s.queue[k + 1]
          /\ Len(s.queue) \in Nat /\ DOMAIN s.queue = 1 .. Len(s.queue) /\ Len(s.queue) > 0
      BY <1>1, <2>2
    <3>2. /\ q \in Seq(Task) /\ DOMAIN q = 1 .. Len(s.queue) + 1 /\ q[1] = Head(s.queue) /\ q[2] = t
          /\ \A k \in 3 .. Len(s.queue) + 1 : q[k] = Tail(s.queue)[k - 2]
      BY <1>2, <2>2, <3>1
    <3> HIDE DEF q
    <3>3. ASSUME NEW i \in DOMAIN q
          PROVE  q[i] = t \/ \E j \in DOMAIN s.queue : q[i] = s.queue[j]
      <4>1. CASE i \in {1, 2}
        BY <3>1, <3>2, <4>1
      <4>2. CASE i \in 3 .. Len(s.queue) + 1
        <5>1. i - 1 \in DOMAIN s.queue /\ i - 2 \in 1 .. Len(s.queue) - 1
          BY <3>1, <4>2
        <5>2. q[i] = s.queue[i - 1]
          BY <3>1, <3>2, <4>2, <5>1
        <5>. QED BY <5>1, <5>2
      <4>. QED BY <3>1, <3>2, <4>1, <4>2
    <3>. QED BY <3>1, <3>2, <3>3
  <2>. QED BY <2>1, <2>2
<1> DEFINE r == Enque(s, id, cmds)
<1>4. r = [s EXCEPT !.queue = q]
  BY DEF Enque
<1> HIDE DEF q, t
<1>5. /\ r \in Driver /\ r.chans = s.chans /\ r.call = s.call /\ r.chan = s.chan
      /\ r.chansno = s.chansno /\ r.chan_count = s.chan_count /\ r.last = s.last /\ r.queue = q
  BY <1>1, <1>3, <1>4 DEF Driver
<1>6. \A i \in DOMAIN q : TaskFor(s, q[i])
  BY <1>2, <1>3, GoodTasks
<1> HIDE DEF r
<1>7. Minor(s, r) /\ Kept(s, r)
  BY <1>3, <1>5, <1>6 DEF Minor, Kept, Alike
<1> QED BY <1>3, <1>5, <1>7 DEF r, t

LEMMA ClccMinor ==
  ASSUME NEW s, Good(s)
  PROVE  Minor(s, request_clcc(s)) /\ Kept(s, request_clcc(s)) /\ request_clcc(s).call = s.call
<1> DEFINE cmds == <<Cmd("CLCC", 0)>>
<1>1. cmds \in Seq(Command) \ {<<>>} /\ \A k \in DOMAIN cmds : cmds[k].cmd # "D"
  BY DEF Cmd, Command, CmdNames
<1> HIDE DEF cmds
<1>2. sys \in Linked(s) \cup {sys}
      /\ \A k \in DOMAIN cmds : cmds[k].cmd = "D" /\ sys # sys => s.call[sys].dir = "out"
  BY <1>1
<1>3. Minor(s, Enque(s, sys, cmds)) /\ Kept(s, Enque(s, sys, cmds)) /\ Enque(s, sys, cmds).call = s.call
  BY <1>1, <1>2, EnqueMinor
<1> QED BY <1>3 DEF request_clcc, cmds

LEMMA ConferenceMinor ==
  ASSUME NEW s, Good(s), NEW id \in Linked(s)
  PROVE  Minor(s, at_enque_conference(s, id)) /\ Kept(s, at_enque_conference(s, id))
<1> DEFINE cmds == <<Cmd("CHLD_3", 0), Cmd("CLCC", 0)>>
<1>1. cmds \in Seq(Command) \ {<<>>} /\ \A k \in DOMAIN cmds : cmds[k].cmd # "D"
  BY DEF Cmd, Command, CmdNames
<1> HIDE DEF cmds
<1>2. Minor(s, Enque(s, id, cmds)) /\ Kept(s, Enque(s, id, cmds))
  BY <1>1, EnqueMinor
<1> QED BY <1>2 DEF at_enque_conference, cmds

(* A hangup is queued, of the call it was asked for. *)
LEMMA HangupMinor ==
  ASSUME NEW s, Good(s), NEW id \in Linked(s) \cup {sys}, NEW idx \in 0 .. 31
  PROVE  /\ Minor(s, at_enque_hangup(s, id, idx)) /\ Kept(s, at_enque_hangup(s, id, idx))
         /\ at_enque_hangup(s, id, idx).call = s.call
         /\ \E i \in DOMAIN at_enque_hangup(s, id, idx).queue :
              /\ at_enque_hangup(s, id, idx).queue[i].cpvt = id
              /\ Head(at_enque_hangup(s, id, idx).queue[i].cmds).cmd \in Hangups
<1> DEFINE early == id # sys /\ s.call[id].state = "init"
           named == /\ \/ id = sys \/ s.call[id].dir = "in"
                       \/ s.call[id].state \notin {"init", "dialing"}
                    /\ s.chansno > 1
           cmds == <<Cmd(IF named THEN "CHLD_1x" ELSE "CHUP", idx), Cmd("CLCC", 0)>>
           r == [s EXCEPT !.last = IF early THEN None ELSE @]
<1>1. at_enque_hangup(s, id, idx) = Enque(r, id, cmds)
  BY DEF at_enque_hangup
<1>2. /\ cmds \in Seq(Command) \ {<<>>} /\ \A k \in DOMAIN cmds : cmds[k].cmd # "D"
      /\ Head(cmds).cmd \in Hangups
  BY DEF Cmd, Command, CmdNames, Hangups
<1> HIDE DEF cmds, early
<1>3. s \in Driver
  BY DEF Good, Shape
<1>4. /\ r \in Driver /\ r.chans = s.chans /\ r.call = s.call /\ r.chan = s.chan
      /\ r.chansno = s.chansno /\ r.chan_count = s.chan_count /\ r.last \in {None, s.last}
      /\ r.queue = s.queue
  BY <1>3 DEF Driver
<1> HIDE DEF r
<1>5. Minor(s, r) /\ Kept(s, r)
  BY <1>4, GoodTasks DEF Minor, Kept, Alike
<1>6. Good(r) /\ Linked(r) = Linked(s)
  BY <1>5, MinorGood
<1>7. /\ Minor(r, Enque(r, id, cmds)) /\ Kept(r, Enque(r, id, cmds))
      /\ Enque(r, id, cmds).call = r.call
      /\ \E i \in DOMAIN Enque(r, id, cmds).queue :
           Enque(r, id, cmds).queue[i] = [cpvt |-> id, cmds |-> cmds]
  BY <1>2, <1>6, EnqueMinor
<1>8. Minor(s, Enque(r, id, cmds)) /\ Kept(s, Enque(r, id, cmds))
  BY <1>5, <1>7, MinorTwice, KeptTwice
<1> QED BY <1>1, <1>2, <1>4, <1>7, <1>8

LEMMA NeedMinor ==
  ASSUME NEW s, Good(s), NEW id \in Linked(s), NEW value \in BOOLEAN
  PROVE  /\ Minor(s, [s EXCEPT !.call[id].need = value])
         /\ [s EXCEPT !.call[id].need = value].queue = s.queue
         /\ \A o \in Ids : [s EXCEPT !.call[id].need = value].call[o].need =
                              IF o = id THEN value ELSE s.call[o].need
<1> DEFINE r == [s EXCEPT !.call[id].need = value]
<1>1. s \in Driver /\ id \in Ids
  BY GoodTasks DEF Good, Shape
<1>2. /\ r.chans = s.chans /\ r.chan = s.chan
      /\ r.chansno = s.chansno /\ r.chan_count = s.chan_count /\ r.last = s.last
      /\ r.queue = s.queue /\ r.call = [s.call EXCEPT ![id].need = value]
      /\ r = [s EXCEPT !.call = [s.call EXCEPT ![id].need = value]]
  BY <1>1 DEF Driver
<1>3. /\ [s.call EXCEPT ![id].need = value] \in [Ids -> Cpvt]
      /\ \A o \in Ids : /\ Alike(s.call[o], [s.call EXCEPT ![id].need = value][o])
                        /\ o # id => [s.call EXCEPT ![id].need = value][o] = s.call[o]
                        /\ [s.call EXCEPT ![id].need = value][o].need =
                              IF o = id THEN value ELSE s.call[o].need
  <2> DEFINE c == [s.call[id] EXCEPT !.need = value]
  <2>1. s.call \in [Ids -> Cpvt] /\ s.call[id] \in Cpvt
    BY <1>1 DEF Driver
  <2>2. c \in Cpvt /\ c.need = value /\ Alike(s.call[id], c)
    BY <2>1 DEF Cpvt, Alike
  <2>3. [s.call EXCEPT ![id].need = value] = [s.call EXCEPT ![id] = c]
    BY <2>1
  <2> HIDE DEF c
  <2>4. \A o \in Ids : [s.call EXCEPT ![id] = c][o] = IF o = id THEN c ELSE s.call[o]
    BY <2>1
  <2>. QED BY <1>1, <2>1, <2>2, <2>3, <2>4 DEF Alike
<1>4. r \in Driver
  BY <1>1, <1>2, <1>3 DEF Driver
<1> HIDE DEF r
<1>5. Minor(s, r)
  BY <1>1, <1>2, <1>3, <1>4, GoodTasks DEF Minor
<1> QED BY <1>2, <1>3, <1>5 DEF r

LEMMA QueueHangupMinor ==
  ASSUME NEW s, Good(s), NEW id \in Ids
  PROVE  Minor(s, queue_hangup(s, id)) /\ Kept(s, queue_hangup(s, id))
         /\ queue_hangup(s, id).queue = s.queue
<1> DEFINE f == [s.chan EXCEPT ![id].hup = TRUE]
           r == [s EXCEPT !.chan = f]
<1>1. s \in Driver
  BY DEF Good, Shape
<1>2. Minor(s, s)
  BY <1>1, GoodTasks DEF Minor, Alike
<1>3. queue_hangup(s, id) = IF s.chan[id].up THEN r ELSE s
  BY <1>1 DEF queue_hangup, Driver
<1>4. /\ f \in [Ids -> Chan]
      /\ \A o \in Ids : /\ f[o].up = s.chan[o].up /\ f[o].link = s.chan[o].link
                        /\ f[o].fd0 = s.chan[o].fd0 /\ (s.chan[o].hup => f[o].hup)
  BY <1>1 DEF Driver, Chan
<1> HIDE DEF f
<1>5. /\ r \in Driver /\ r.chans = s.chans /\ r.call = s.call /\ r.chan = f
      /\ r.chansno = s.chansno /\ r.chan_count = s.chan_count /\ r.last = s.last
      /\ r.queue = s.queue
  BY <1>1, <1>4 DEF Driver
<1> HIDE DEF r
<1>6. Minor(s, r)
  BY <1>4, <1>5, GoodTasks DEF Minor, Alike
<1> QED BY <1>2, <1>3, <1>5, <1>6 DEF Kept

LEMMA DialMinor ==
  ASSUME NEW s, Good(s), NEW id \in Linked(s), s.call[id].dir = "out"
  PROVE  Minor(s, at_enque_dial(s, id)) /\ Kept(s, at_enque_dial(s, id))
<1> DEFINE hold == IF s.chan_count["active"] > 0 /\ s.call[id].opts # "none"
                   THEN <<Cmd("CHLD_2", 0)>> ELSE <<>>
           dial == <<Cmd("D", 0), Cmd("CLCC", 0)>>
           cmds == hold \o dial
           t == Enque(s, id, cmds)
<1>1. cmds \in Seq(Command) \ {<<>>}
  <2>1. dial \in Seq(Command) /\ Len(dial) = 2
    BY DEF Cmd, Command, CmdNames
  <2>2. hold \in Seq(Command)
    <3>1. <<Cmd("CHLD_2", 0)>> \in Seq(Command) /\ <<>> \in Seq(Command)
      BY DEF Cmd, Command, CmdNames
    <3>. QED BY <3>1, Zenon
  <2> HIDE DEF hold, dial
  <2>3. cmds \in Seq(Command) /\ Len(cmds) = Len(hold) + 2 /\ Len(hold) \in Nat
    BY <2>1, <2>2, ConcatProperties, LenProperties
  <2> HIDE DEF cmds
  <2>. QED BY <2>3
<1> HIDE DEF cmds
<1>2. Minor(s, t) /\ Kept(s, t)
  BY <1>1, EnqueMinor
<1>3. Good(t) /\ Linked(t) = Linked(s)
  BY <1>2, MinorGood
<1> HIDE DEF t
<1>4. id \in Linked(t) /\ TRUE \in BOOLEAN
  BY <1>3
<1>5. /\ Minor(t, [t EXCEPT !.call[id].need = TRUE])
      /\ [t EXCEPT !.call[id].need = TRUE].queue = t.queue
      /\ \A o \in Ids : [t EXCEPT !.call[id].need = TRUE].call[o].need =
                              IF o = id THEN TRUE ELSE t.call[o].need
  BY <1>3, <1>4, NeedMinor
<1>6. at_enque_dial(s, id) = [t EXCEPT !.call[id].need = TRUE]
  BY DEF at_enque_dial, t, cmds
<1>7. Kept(t, [t EXCEPT !.call[id].need = TRUE])
  BY <1>5 DEF Kept
<1> QED BY <1>2, <1>5, <1>6, <1>7, MinorTwice, KeptTwice

LEMMA AnswerMinor ==
  ASSUME NEW s, Good(s), NEW id \in Linked(s)
  PROVE  Minor(s, at_enque_answer(s, id)) /\ Kept(s, at_enque_answer(s, id))
<1> DEFINE answer == <<Cmd("A", 0)>>
           accept == <<Cmd("CHLD_2x", s.call[id].idx)>>
<1>1. s \in Driver /\ id \in Ids /\ s.call[id].idx \in 0 .. 31
  BY GoodTasks DEF Good, Shape, Driver, Cpvt
<1>2. /\ answer \in Seq(Command) \ {<<>>} /\ \A k \in DOMAIN answer : answer[k].cmd # "D"
      /\ accept \in Seq(Command) \ {<<>>} /\ \A k \in DOMAIN accept : accept[k].cmd # "D"
  BY <1>1 DEF Cmd, Command, CmdNames
<1>3. Minor(s, s) /\ Kept(s, s)
  BY <1>1, GoodTasks DEF Minor, Alike, Kept
<1> HIDE DEF answer, accept
<1>4. /\ Minor(s, Enque(s, id, answer)) /\ Kept(s, Enque(s, id, answer))
      /\ Minor(s, Enque(s, id, accept)) /\ Kept(s, Enque(s, id, accept))
  BY <1>2, EnqueMinor
<1> QED BY <1>3, <1>4 DEF at_enque_answer, answer, accept

(* The list of calls, when one joins it and when one leaves it. *)
Listing(chans) == /\ chans \in Seq(Ids)
                  /\ \A i, j \in DOMAIN chans : chans[i] = chans[j] => i = j

LEMMA Appended ==
  ASSUME NEW chans, Listing(chans), NEW id \in Ids, id \notin ToSet(chans)
  PROVE  /\ Listing(Append(chans, id)) /\ Len(Append(chans, id)) = Len(chans) + 1
         /\ ToSet(Append(chans, id)) = ToSet(chans) \cup {id}
<1>1. chans \in Seq(Ids) /\ DOMAIN chans = 1 .. Len(chans) /\ Len(chans) \in Nat
  BY DEF Listing
<1> DEFINE r == Append(chans, id)
<1>2. /\ r \in Seq(Ids) /\ Len(r) = Len(chans) + 1 /\ DOMAIN r = 1 .. Len(chans) + 1
      /\ r[Len(chans) + 1] = id /\ \A i \in 1 .. Len(chans) : r[i] = chans[i]
  BY <1>1
<1> HIDE DEF r
<1>3. \A i \in 1 .. Len(chans) + 1 : i \in 1 .. Len(chans) \/ i = Len(chans) + 1
  BY <1>1
<1>4. \A i \in 1 .. Len(chans) : chans[i] # id /\ i \in 1 .. Len(chans) + 1
  BY <1>1 DEF ToSet
<1>5. \A i, j \in DOMAIN r : r[i] = r[j] => i = j
  BY <1>1, <1>2, <1>3, <1>4 DEF Listing
<1>6. ToSet(r) \subseteq ToSet(chans) \cup {id}
  BY <1>1, <1>2, <1>3 DEF ToSet
<1>7. ToSet(chans) \subseteq ToSet(r)
  BY <1>1, <1>2, <1>4 DEF ToSet
<1>8. id \in ToSet(r)
  BY <1>1, <1>2 DEF ToSet
<1> QED BY <1>2, <1>5, <1>6, <1>7, <1>8 DEF r, Listing

LEMMA Removed ==
  ASSUME NEW chans, Listing(chans), NEW id \in ToSet(chans)
  PROVE  /\ Listing(RemoveFirst(chans, id)) /\ Len(RemoveFirst(chans, id)) = Len(chans) - 1
         /\ ToSet(RemoveFirst(chans, id)) = ToSet(chans) \ {id}
<1>1. chans \in Seq(Ids) /\ DOMAIN chans = 1 .. Len(chans) /\ Len(chans) \in Nat
  BY DEF Listing
<1>2. PICK k \in 1 .. Len(chans) : chans[k] = id
  BY <1>1 DEF ToSet
<1>3. \A i \in 1 .. Len(chans) : chans[i] = id <=> i = k
  BY <1>1, <1>2 DEF Listing
<1> DEFINE r == SubSeq(chans, 1, k - 1) \o SubSeq(chans, k + 1, Len(chans))
<1>4. RemoveFirst(chans, id) = r
  <2> DEFINE I == {i \in 1 .. Len(chans) : chans[i] = id}
  <2>1. I = {k}
    BY <1>3
  <2>2. (CHOOSE x \in {k} : \A y \in {k} : x <= y) = k
    BY <1>1
  <2>3. SelectInSeq(chans, LAMBDA v : v = id) = k
    BY <2>1, <2>2 DEF SelectInSeq, Min
  <2>. QED BY <1>2, <2>3 DEF RemoveFirst, RemoveAt
<1> DEFINE a == SubSeq(chans, 1, k - 1)
           b == SubSeq(chans, k + 1, Len(chans))
<1>5. /\ a \in Seq(Ids) /\ Len(a) = k - 1 /\ b \in Seq(Ids) /\ Len(b) = Len(chans) - k
      /\ \A i \in 1 .. k - 1 : a[i] = chans[i]
      /\ \A i \in 1 .. Len(chans) - k : b[i] = chans[k + i]
  <2> HIDE DEF r
  <2>1. a \in Seq(Ids) /\ Len(a) = k - 1
    BY <1>1, <1>2
  <2>2. b \in Seq(Ids) /\ Len(b) = Len(chans) - k
    <3>1. k + 1 \in Int /\ Len(chans) \in Int /\ \A i \in k + 1 .. Len(chans) : chans[i] \in Ids
      BY <1>1, <1>2
    <3>2. b \in Seq(Ids) /\ Len(b) = IF k + 1 <= Len(chans) THEN Len(chans) - (k + 1) + 1 ELSE 0
      BY <3>1, SubSeqProperties
    <3>3. k \in Nat /\ k <= Len(chans) /\ Len(chans) \in Nat
      BY <1>1, <1>2
    <3> HIDE DEF b
    <3>4. CASE k + 1 <= Len(chans)
      BY <3>2, <3>3, <3>4
    <3>5. CASE k = Len(chans)
      BY <3>2, <3>3, <3>5
    <3>. QED BY <3>3, <3>4, <3>5
  <2>3. \A i \in 1 .. k - 1 : a[i] = chans[i]
    BY <1>1, <1>2
  <2>4. ASSUME NEW i \in 1 .. Len(chans) - k PROVE b[i] = chans[k + i]
    <3>1. b[i] = chans[(k + 1) + i - 1]
      BY <1>1, <1>2
    <3>2. (k + 1) + i - 1 = k + i
      BY <1>1, <1>2
    <3>. QED BY <3>1, <3>2
  <2>. QED BY <2>1, <2>2, <2>3, <2>4
<1> HIDE DEF a, b
<1>6. /\ r \in Seq(Ids) /\ Len(r) = Len(chans) - 1 /\ DOMAIN r = 1 .. Len(chans) - 1
      /\ \A i \in 1 .. Len(chans) - 1 :
           r[i] = IF i < k THEN chans[i] ELSE chans[i + 1]
  <2>1. a \o b \in Seq(Ids) /\ Len(a \o b) = Len(chans) - 1
    <3>1. a \o b \in Seq(Ids) /\ Len(a \o b) = Len(a) + Len(b)
      BY <1>5, ConcatProperties
    <3>. QED BY <1>1, <1>2, <1>5, <3>1
  <2>2. ASSUME NEW i \in 1 .. Len(chans) - 1
        PROVE  (a \o b)[i] = IF i < k THEN chans[i] ELSE chans[i + 1]
    <3>1. CASE i < k
      BY <1>1, <1>2, <1>5, <3>1
    <3>2. CASE ~(i < k)
      <4>1. i - (k - 1) \in 1 .. Len(chans) - k /\ k + (i - (k - 1)) = i + 1
        BY <1>1, <1>2, <3>2
      <4>2. (a \o b)[i] = b[i - (k - 1)]
        BY <1>1, <1>2, <1>5, <3>2
      <4>. QED BY <1>5, <3>2, <4>1, <4>2
    <3>. QED BY <3>1, <3>2
  <2>3. r = a \o b
    BY DEF a, b
  <2> HIDE DEF r
  <2>4. DOMAIN r = 1 .. Len(r)
    BY <2>1, <2>3
  <2>. QED BY <2>1, <2>2, <2>3, <2>4
<1> HIDE DEF r
<1> DEFINE at(i) == IF i < k THEN i ELSE i + 1
<1>7. \A i \in 1 .. Len(chans) - 1 :
        at(i) \in 1 .. Len(chans) /\ at(i) # k /\ r[i] = chans[at(i)]
  BY <1>1, <1>2, <1>6
<1>8. \A i, j \in 1 .. Len(chans) - 1 : at(i) = at(j) => i = j
  BY <1>1, <1>2
<1>9. \A i \in 1 .. Len(chans) : i # k => \E j \in 1 .. Len(chans) - 1 : at(j) = i
  <2> SUFFICES ASSUME NEW i \in 1 .. Len(chans), i # k
               PROVE  \E j \in 1 .. Len(chans) - 1 : at(j) = i
    OBVIOUS
  <2>1. CASE i < k
    BY <1>1, <1>2, <2>1
  <2>2. CASE i > k
    <3>1. i - 1 \in 1 .. Len(chans) - 1 /\ at(i - 1) = i
      BY <1>1, <1>2, <2>2
    <3>. QED BY <3>1
  <2>. QED BY <1>1, <1>2, <2>1, <2>2
<1> HIDE DEF at
<1>10. \A i, j \in DOMAIN r : r[i] = r[j] => i = j
  <2>1. DOMAIN r = 1 .. Len(chans) - 1
    BY <1>1, <1>6
  <2> SUFFICES ASSUME NEW i \in 1 .. Len(chans) - 1, NEW j \in 1 .. Len(chans) - 1, r[i] = r[j]
               PROVE  i = j
    BY <2>1
  <2>2. at(i) = at(j)
    BY <1>1, <1>7 DEF Listing
  <2>. QED BY <1>8, <2>2
<1>11. ToSet(r) \subseteq ToSet(chans) \ {id}
  BY <1>1, <1>3, <1>6, <1>7 DEF ToSet
<1>12. ToSet(chans) \ {id} \subseteq ToSet(r)
  <2> SUFFICES ASSUME NEW i \in 1 .. Len(chans), chans[i] # id
               PROVE  chans[i] \in ToSet(r)
    BY <1>1 DEF ToSet
  <2>1. PICK j \in 1 .. Len(chans) - 1 : at(j) = i
    BY <1>2, <1>9
  <2>2. r[j] = chans[i] /\ j \in DOMAIN r
    BY <1>6, <1>7, <2>1
  <2>. QED BY <2>2 DEF ToSet
<1> QED BY <1>4, <1>6, <1>10, <1>11, <1>12 DEF Listing

(* The counts stay right when a call changes its state, and when one that  *)
(* was counted is taken out.                                               *)
LEMMA CountMoved ==
  ASSUME NEW s, NEW t, Counts(s), IsFiniteSet(Linked(s)), NEW id \in Linked(s),
         NEW old \in States, NEW new \in States, old # new,
         s.call[id].state = old, s.chan_count \in [States -> Nat],
         Linked(t) = Linked(s), t.call[id].state = new,
         \A o \in Linked(s) : o # id => t.call[o].state = s.call[o].state,
         \A st \in States : t.chan_count[st] = CASE st = old -> s.chan_count[st] - 1
                                                 [] st = new -> s.chan_count[st] + 1
                                                 [] OTHER -> s.chan_count[st]
  PROVE  Counts(t) /\ s.chan_count[old] - 1 \in Nat
<1>1. /\ InState(t, old) = InState(s, old) \ {id} /\ id \in InState(s, old)
      /\ InState(t, new) = InState(s, new) \cup {id} /\ id \notin InState(s, new)
      /\ \A st \in States \ {old, new} : InState(t, st) = InState(s, st)
  BY DEF InState
<1>2. \A st \in States : IsFiniteSet(InState(s, st))
  <2>1. \A st \in States : InState(s, st) \in SUBSET Linked(s)
    BY DEF InState
  <2>. QED BY <2>1, FS_Subset
<1>3. \A st \in States : Cardinality(InState(s, st)) \in Nat
  BY <1>2, FS_CardinalityType
<1>4. Cardinality(InState(t, old)) = Cardinality(InState(s, old)) - 1
  BY <1>1, <1>2, FS_RemoveElement
<1>5. Cardinality(InState(t, new)) = Cardinality(InState(s, new)) + 1
  BY <1>1, <1>2, FS_AddElement
<1>6. Cardinality(InState(s, old)) # 0
  BY <1>1, <1>2, FS_EmptySet
<1>7. s.chan_count[old] = Cardinality(InState(s, old)) /\ s.chan_count[new] = Cardinality(InState(s, new))
  BY DEF Counts
<1>8. s.chan_count[old] - 1 \in Nat
  BY <1>1, <1>3, <1>6, <1>7
<1>9. t.chan_count[old] = s.chan_count[old] - 1 /\ t.chan_count[new] = s.chan_count[new] + 1
  OBVIOUS
<1>10. ASSUME NEW st \in States \ {old, new}
       PROVE  t.chan_count[st] = Cardinality(InState(t, st))
  <2>1. t.chan_count[st] = s.chan_count[st]
    BY <1>10
  <2>. QED BY <1>1, <2>1 DEF Counts
<1>11. \A st \in States : t.chan_count[st] = Cardinality(InState(t, st))
  BY <1>4, <1>5, <1>7, <1>9, <1>10
<1> QED BY <1>8, <1>11 DEF Counts

LEMMA CountTaken ==
  ASSUME NEW s, NEW t, Counts(s), IsFiniteSet(Linked(s)), NEW id \in Linked(s),
         NEW old \in States, s.call[id].state = old, s.chan_count \in [States -> Nat],
         Linked(t) = Linked(s) \ {id},
         \A o \in Linked(t) : t.call[o].state = s.call[o].state,
         \A st \in States : t.chan_count[st] = IF st = old THEN s.chan_count[st] - 1
                                               ELSE s.chan_count[st]
  PROVE  Counts(t) /\ s.chan_count[old] - 1 \in Nat
<1>1. /\ InState(t, old) = InState(s, old) \ {id} /\ id \in InState(s, old)
      /\ \A st \in States \ {old} : InState(t, st) = InState(s, st)
  BY DEF InState
<1>2. \A st \in States : IsFiniteSet(InState(s, st))
  <2>1. \A st \in States : InState(s, st) \in SUBSET Linked(s)
    BY DEF InState
  <2>. QED BY <2>1, FS_Subset
<1>3. \A st \in States : Cardinality(InState(s, st)) \in Nat
  BY <1>2, FS_CardinalityType
<1>4. Cardinality(InState(t, old)) = Cardinality(InState(s, old)) - 1
  BY <1>1, <1>2, FS_RemoveElement
<1>5. Cardinality(InState(s, old)) # 0
  BY <1>1, <1>2, FS_EmptySet
<1>6. s.chan_count[old] = Cardinality(InState(s, old))
  BY DEF Counts
<1>7. s.chan_count[old] - 1 \in Nat
  BY <1>1, <1>3, <1>5, <1>6
<1>8. t.chan_count[old] = s.chan_count[old] - 1
  OBVIOUS
<1>9. ASSUME NEW st \in States \ {old}
      PROVE  t.chan_count[st] = Cardinality(InState(t, st))
  <2>1. t.chan_count[st] = s.chan_count[st]
    BY <1>9
  <2>. QED BY <1>1, <2>1 DEF Counts
<1>10. \A st \in States : t.chan_count[st] = Cardinality(InState(t, st))
  BY <1>4, <1>6, <1>8, <1>9
<1> QED BY <1>7, <1>10 DEF Counts

(* What change_channel_state does first: the state, the counts, the flags. *)
Base(s) == Shape(s) /\ Counts(s)
Restated(s, id, newstate) ==
  LET old   == s.call[id].state
      ends  == newstate \in {"active", "released"}
      s1    == [s EXCEPT !.call[id].state = newstate,
                         !.chan_count[old] = @ - 1,
                         !.dialing = @ /\ ~(ends /\ old \in {"init", "dialing", "alerting"}),
                         !.ring = @ /\ ~(ends /\ old = "incoming"),
                         !.cwaiting = @ /\ ~(ends /\ old = "waiting")]
  IN  [s1 EXCEPT !.chan_count[newstate] = @ + 1]

(* a call's structure in another state *)
InNew(c, st) == [c EXCEPT !.state = st]

IsRestated(s, t, id, new) ==
  /\ Base(t) /\ Linked(t) = Linked(s)
  /\ t.call = [s.call EXCEPT ![id] = InNew(s.call[id], new)]
  /\ t.chan = s.chan /\ t.last = s.last /\ t.queue = s.queue /\ t.chans = s.chans

LEMMA RestatedFields ==
  ASSUME NEW s, Base(s), NEW id \in Linked(s), NEW new \in States, new # s.call[id].state
  PROVE  IsRestated(s, Restated(s, id, new), id, new)
<1> DEFINE old == s.call[id].state
           ends == new \in {"active", "released"}
           gone == {"init", "dialing", "alerting"}
           di == s.dialing /\ ~(ends /\ old \in gone)
           ri == s.ring /\ ~(ends /\ old = "incoming")
           cw == s.cwaiting /\ ~(ends /\ old = "waiting")
           call == [s.call EXCEPT ![id] = InNew(s.call[id], new)]
           low == [s.chan_count EXCEPT ![old] = @ - 1]
           count == [low EXCEPT ![new] = @ + 1]
           t == [chans |-> s.chans, call |-> call, chan |-> s.chan, chansno |-> s.chansno,
                 chan_count |-> count, ring |-> ri, cwaiting |-> cw, dialing |-> di,
                 last |-> s.last, queue |-> s.queue]
<1>1. s \in Driver /\ id \in Ids /\ Linked(s) \subseteq Ids
  BY LinkedIds DEF Base, Shape, Driver
<1>2. /\ s.call \in [Ids -> Cpvt] /\ s.chan_count \in [States -> Nat]
      /\ s.ring \in BOOLEAN /\ s.cwaiting \in BOOLEAN /\ s.dialing \in BOOLEAN
      /\ s = [chans |-> s.chans, call |-> s.call, chan |-> s.chan, chansno |-> s.chansno,
              chan_count |-> s.chan_count, ring |-> s.ring, cwaiting |-> s.cwaiting,
              dialing |-> s.dialing, last |-> s.last, queue |-> s.queue]
  BY <1>1 DEF Driver
<1>3. s.call[id] \in Cpvt /\ old \in States
  BY <1>1, <1>2 DEF Cpvt
<1>4. Restated(s, id, new) = t
  <2>1. [s.call EXCEPT ![id].state = new] = call
    BY <1>1, <1>2 DEF InNew
  <2> DEFINE s1 == [s EXCEPT !.call[id].state = new,
                         !.chan_count[old] = @ - 1,
                         !.dialing = @ /\ ~(ends /\ old \in gone),
                         !.ring = @ /\ ~(ends /\ old = "incoming"),
                         !.cwaiting = @ /\ ~(ends /\ old = "waiting")]
             u == [chans |-> s.chans, call |-> call, chan |-> s.chan, chansno |-> s.chansno,
                   chan_count |-> low, ring |-> ri, cwaiting |-> cw, dialing |-> di,
                   last |-> s.last, queue |-> s.queue]
  <2>2. Restated(s, id, new) = [s1 EXCEPT !.chan_count[new] = @ + 1]
    BY DEF Restated
  <2>3. s1 = u
    <3>1. s1 = [s EXCEPT !.call = call, !.chan_count = low, !.dialing = di, !.ring = ri, !.cwaiting = cw]
      <4> HIDE DEF ends, gone
      <4>. QED BY <1>1, <1>2, <2>1
    <3> HIDE DEF call, low, di, ri, cw, old, ends, s1
    <3>. QED BY <1>2, <3>1
  <2>4. [u EXCEPT !.chan_count[new] = @ + 1] = t
    <3> HIDE DEF call, low, di, ri, cw, old, ends
    <3>. QED OBVIOUS
  <2>. QED BY <2>2, <2>3, <2>4
<1>5. di \in BOOLEAN /\ ri \in BOOLEAN /\ cw \in BOOLEAN
  BY <1>2
<1>6. /\ call \in [Ids -> Cpvt] /\ call[id].state = new
      /\ \A o \in Ids : o # id => call[o] = s.call[o]
  BY <1>1, <1>2, <1>3 DEF Cpvt, InNew
<1>7. \A st \in States : count[st] = CASE st = old -> s.chan_count[st] - 1
                                       [] st = new -> s.chan_count[st] + 1
                                       [] OTHER -> s.chan_count[st]
  BY <1>2, <1>3
<1> HIDE DEF di, ri, cw, call
<1>8. /\ t.chans = s.chans /\ t.call = call /\ t.chan = s.chan /\ t.chansno = s.chansno
      /\ t.chan_count = count /\ t.last = s.last /\ t.queue = s.queue
      /\ Linked(t) = Linked(s)
  BY DEF Linked
<1>9. Counts(t) /\ s.chan_count[old] - 1 \in Nat
  <2>1. Counts(s) /\ IsFiniteSet(Linked(s))
    BY DEF Base, Shape
  <2> HIDE DEF t, count, old
  <2>2. s.call[id].state = old /\ old # new
    BY DEF old
  <2>3. \A o \in Linked(s) : o # id => t.call[o].state = s.call[o].state
    BY <1>1, <1>6, <1>8
  <2>. QED BY <1>2, <1>3, <1>6, <1>7, <1>8, <2>1, <2>2, <2>3, CountMoved
<1>10. count \in [States -> Nat]
  BY <1>2, <1>3, <1>9
<1> HIDE DEF count, old
<1>11. t \in Driver
  BY <1>1, <1>5, <1>6, <1>10 DEF Driver
<1> HIDE DEF t
<1>12. Shape(t)
  <2>1. \A o \in Ids : o \notin Linked(t) => t.call[o] = NoCpvt
    BY <1>6, <1>8 DEF Base, Shape
  <2>. QED BY <1>8, <1>11, <2>1 DEF Base, Shape
<1> QED BY <1>4, <1>8, <1>9, <1>12 DEF Base, IsRestated, call

(* The task of a freed call is handed to the system channel. *)
HandedOver(t, id) == IF t.cpvt = id THEN [t EXCEPT !.cpvt = sys] ELSE t

IsFreed(s, t, id) ==
  /\ Base(t) /\ Linked(t) = Linked(s) \ {id}
  /\ t.call = [s.call EXCEPT ![id] = NoCpvt]
  /\ t.chan = s.chan /\ t.last = (IF s.last = id THEN None ELSE s.last)
  /\ t.queue = [i \in DOMAIN s.queue |-> HandedOver(s.queue[i], id)]

LEMMA FreedFields ==
  ASSUME NEW s, Base(s), NEW id \in Linked(s)
  PROVE  IsFreed(s, cpvt_free(s, id), id)
<1> DEFINE st == s.call[id].state
           call == [s.call EXCEPT ![id] = NoCpvt]
           count == [s.chan_count EXCEPT ![st] = @ - 1]
           queue == [i \in DOMAIN s.queue |-> HandedOver(s.queue[i], id)]
           last == IF s.last = id THEN None ELSE s.last
           chans == RemoveFirst(s.chans, id)
           t == [chans |-> chans, call |-> call, chan |-> s.chan, chansno |-> s.chansno - 1,
                 chan_count |-> count, ring |-> s.ring, cwaiting |-> s.cwaiting,
                 dialing |-> s.dialing, last |-> last, queue |-> queue]
<1>1. /\ s \in Driver /\ id \in Ids /\ Linked(s) \subseteq Ids /\ Listing(s.chans)
      /\ s.chansno = Len(s.chans) /\ IsFiniteSet(Linked(s)) /\ Counts(s)
      /\ \A o \in Ids : o \notin Linked(s) => s.call[o] = NoCpvt
  BY LinkedIds DEF Base, Shape, Driver, Listing
<1>2. /\ s.call \in [Ids -> Cpvt] /\ s.chan_count \in [States -> Nat]
      /\ s.ring \in BOOLEAN /\ s.cwaiting \in BOOLEAN /\ s.dialing \in BOOLEAN
      /\ s.last \in Ids \cup {None} /\ s.queue \in Seq(Task) /\ s.chan \in [Ids -> Chan]
      /\ s.chansno \in Nat
      /\ s = [chans |-> s.chans, call |-> s.call, chan |-> s.chan, chansno |-> s.chansno,
              chan_count |-> s.chan_count, ring |-> s.ring, cwaiting |-> s.cwaiting,
              dialing |-> s.dialing, last |-> s.last, queue |-> s.queue]
  BY <1>1 DEF Driver
<1>3. s.call[id] \in Cpvt /\ st \in States
  BY <1>1, <1>2 DEF Cpvt
<1>4. cpvt_free(s, id) = t
  <2>1. queue = [i \in DOMAIN s.queue |->
                    IF s.queue[i].cpvt = id
                    THEN [s.queue[i] EXCEPT !.cpvt = sys] ELSE s.queue[i]]
    BY DEF HandedOver
  <2>2. cpvt_free(s, id) = [s EXCEPT !.chans = chans, !.call = call, !.chansno = s.chansno - 1,
                                     !.chan_count = count, !.queue = queue, !.last = last]
    <3> HIDE DEF queue
    <3>. QED BY <1>1, <1>2, <1>3, <2>1 DEF cpvt_free
  <2> HIDE DEF call, count, queue, last, chans
  <2>. QED BY <1>2, <2>2
<1>5. /\ Listing(chans) /\ Len(chans) = Len(s.chans) - 1 /\ ToSet(chans) = Linked(s) \ {id}
  BY <1>1, Removed DEF Linked
<1>6. chans \in Seq(Ids) /\ Len(chans) \in Nat /\ s.chansno - 1 = Len(chans)
  <2> HIDE DEF chans
  <2>. QED BY <1>1, <1>5 DEF Listing
<1>7. /\ call \in [Ids -> Cpvt] /\ call[id] = NoCpvt
      /\ \A o \in Ids : o # id => call[o] = s.call[o]
  <2>1. NoCpvt \in Cpvt
    BY DEF NoCpvt, Cpvt, States
  <2>. QED BY <1>1, <1>2, <2>1
<1>8. queue \in Seq(Task)
  <2>1. \A i \in DOMAIN s.queue : HandedOver(s.queue[i], id) \in Task
    <3>1. ASSUME NEW i \in DOMAIN s.queue PROVE HandedOver(s.queue[i], id) \in Task
      <4>1. s.queue[i] \in Task
        BY <1>2
      <4>2. [s.queue[i] EXCEPT !.cpvt = sys] \in Task
        BY <4>1 DEF Task
      <4>. QED BY <4>1, <4>2 DEF HandedOver
    <3>. QED BY <3>1
  <2>2. DOMAIN s.queue = 1 .. Len(s.queue) /\ Len(s.queue) \in Nat
    BY <1>2
  <2>3. queue \in [1 .. Len(s.queue) -> Task]
    BY <2>1, <2>2
  <2>. QED BY <2>2, <2>3
<1>9. last \in Ids \cup {None}
  BY <1>2
<1> HIDE DEF chans, call, queue, last
<1>10. /\ t.chans = chans /\ t.call = call /\ t.chan = s.chan /\ t.chansno = s.chansno - 1
       /\ t.chan_count = count /\ t.last = last /\ t.queue = queue
       /\ Linked(t) = Linked(s) \ {id}
  BY <1>5 DEF Linked
<1>11. Counts(t) /\ s.chan_count[st] - 1 \in Nat
  <2>1. \A x \in States : count[x] = IF x = st THEN s.chan_count[x] - 1 ELSE s.chan_count[x]
    BY <1>2, <1>3
  <2> HIDE DEF t, count, st
  <2>2. s.call[id].state = st
    BY DEF st
  <2>3. \A o \in Linked(t) : t.call[o].state = s.call[o].state
    BY <1>1, <1>7, <1>10
  <2>. QED BY <1>1, <1>2, <1>3, <1>10, <2>1, <2>2, <2>3, CountTaken
<1>12. count \in [States -> Nat]
  BY <1>2, <1>3, <1>11
<1> HIDE DEF count, st
<1>13. t \in Driver
  BY <1>2, <1>6, <1>7, <1>8, <1>9, <1>12 DEF Driver
<1> HIDE DEF t
<1>14. Shape(t)
  <2>1. \A o \in Ids : o \notin Linked(t) => t.call[o] = NoCpvt
    BY <1>1, <1>7, <1>10
  <2>2. IsFiniteSet(Linked(t))
    BY <1>1, <1>10, FS_RemoveElement
  <2>. QED BY <1>5, <1>6, <1>10, <1>13, <2>1, <2>2 DEF Shape, Listing
<1> QED BY <1>4, <1>10, <1>11, <1>14 DEF Base, IsFreed, call, queue, last

(* Call id of s was put into state st. *)
Turned(s, t, id, st) ==
  /\ Good(t)
  /\ Linked(t) = IF st = "released" THEN Linked(s) \ {id} ELSE Linked(s)
  /\ \A o \in Linked(t) : /\ t.call[o].idx = s.call[o].idx /\ t.call[o].dir = s.call[o].dir
                          /\ t.call[o].need = s.call[o].need
                          /\ t.call[o].state = IF o = id THEN st ELSE s.call[o].state
  /\ DOMAIN t.queue = DOMAIN s.queue

(* What is left to show of such a t when lists and counts are known. *)
LEMMA Assembled ==
  ASSUME NEW s, Good(s), NEW t, Base(t), Linked(t) \subseteq Linked(s),
         \A o \in Linked(t) : t.call[o].idx = s.call[o].idx /\ t.call[o].dir = s.call[o].dir,
         t.last \in {None, s.last}, t.last \in Linked(t) \cup {None},
         \A i \in DOMAIN t.queue : TaskFor(t, t.queue[i]),
         \A id \in Ids : t.chan[id].link <=> (id \in Linked(t) /\ t.call[id].ch),
         Sound(t), Told(t), Alive(t)
  PROVE  Good(t)
<1>1. Points(t)
  BY DEF Points, TaskFor
<1>2. Dials(t)
  <2>1. t.last # None => t.call[t.last].dir = "out"
    BY DEF Good, Dials
  <2>. QED BY <2>1 DEF Dials, TaskFor
<1>3. Single(t)
  <2>1. Incoming(t) \subseteq Incoming(s)
    BY DEF Incoming
  <2>. QED BY <2>1 DEF Good, Single, Incoming
<1> QED BY <1>1, <1>2, <1>3 DEF Good, Base

LEMMA TurnedFree ==
  ASSUME NEW s, Good(s), NEW id \in Linked(s), ~s.call[id].ch,
         NEW t, t = cpvt_free(Restated(s, id, "released"), id)
  PROVE  Turned(s, t, id, "released")
<1> DEFINE s2 == Restated(s, id, "released")
<1>1. s \in Driver /\ Base(s) /\ "released" \in States /\ "released" # s.call[id].state
      /\ Linked(s) \subseteq Ids
  BY GoodTasks DEF Good, Base, Alive, States, Shape
<1>2. /\ Base(s2) /\ Linked(s2) = Linked(s)
      /\ s2.call = [s.call EXCEPT ![id] = InNew(s.call[id], "released")]
      /\ s2.chan = s.chan /\ s2.last = s.last /\ s2.queue = s.queue /\ s2.chans = s.chans
  BY <1>1, RestatedFields DEF IsRestated
<1>2a. t = cpvt_free(s2, id) /\ id \in Linked(s2)
  BY <1>2
<1> HIDE DEF s2
<1>3. /\ Base(t) /\ Linked(t) = Linked(s) \ {id}
      /\ t.call = [s2.call EXCEPT ![id] = NoCpvt]
      /\ t.chan = s.chan /\ t.last = (IF s.last = id THEN None ELSE s.last)
      /\ t.queue = [i \in DOMAIN s.queue |-> HandedOver(s.queue[i], id)]
  <2>1. IsFreed(s2, t, id)
    BY <1>2, <1>2a, FreedFields
  <2>. QED BY <1>2, <2>1 DEF IsFreed
<1>4. /\ t.call[id] = NoCpvt /\ \A o \in Ids : o # id => t.call[o] = s.call[o]
  BY <1>1, <1>2, <1>3 DEF Driver
<1>5. \A i \in DOMAIN t.queue : TaskFor(t, t.queue[i])
  <2> SUFFICES ASSUME NEW i \in DOMAIN s.queue PROVE TaskFor(t, HandedOver(s.queue[i], id))
    BY <1>3
  <2>1. TaskFor(s, s.queue[i]) /\ s.queue[i] \in Task
    BY GoodTasks
  <2>2. CASE s.queue[i].cpvt = id
    BY <2>1, <2>2 DEF TaskFor, HandedOver, Task
  <2>3. CASE s.queue[i].cpvt # id
    BY <1>1, <1>3, <1>4, <2>1, <2>3 DEF TaskFor, HandedOver
  <2>. QED BY <2>2, <2>3
<1>6. t.last \in {None, s.last} /\ t.last \in Linked(t) \cup {None}
  BY <1>3 DEF Good, Points
<1>7. \A o \in Ids : t.chan[o].link <=> (o \in Linked(t) /\ t.call[o].ch)
  BY <1>1, <1>3, <1>4 DEF Good, Points
<1>8. Sound(t)
  BY <1>1, <1>3, <1>4 DEF Good, Sound, NoCpvt
<1>9. Told(t)
  BY <1>3 DEF Good, Told
<1>10. Alive(t)
  BY <1>1, <1>3, <1>4 DEF Good, Alive
<1>11. \A o \in Linked(t) : t.call[o] = s.call[o] /\ o # id
  BY <1>1, <1>3, <1>4
<1>12. Good(t)
  <2>1. /\ Linked(t) \subseteq Linked(s)
        /\ \A o \in Linked(t) : t.call[o].idx = s.call[o].idx /\ t.call[o].dir = s.call[o].dir
    BY <1>3, <1>11
  <2>. QED BY <1>3, <1>5, <1>6, <1>7, <1>8, <1>9, <1>10, <2>1, Assembled
<1> QED BY <1>3, <1>11, <1>12 DEF Turned

LEMMA TurnedOther ==
  ASSUME NEW s, Good(s), NEW id \in Linked(s), NEW new \in States \ {"released", s.call[id].state},
         ~s.call[id].act, ~(s.call[id].ch /\ new = "active"),
         NEW t, t = Restated(s, id, new)
  PROVE  Turned(s, t, id, new)
<1>1. s \in Driver /\ Base(s) /\ Linked(s) \subseteq Ids
  BY GoodTasks DEF Good, Base, Alive, States, Shape
<1>2. /\ Base(t) /\ Linked(t) = Linked(s)
      /\ t.call = [s.call EXCEPT ![id] = InNew(s.call[id], new)]
      /\ t.chan = s.chan /\ t.last = s.last /\ t.queue = s.queue /\ t.chans = s.chans
  BY <1>1, RestatedFields DEF IsRestated
<1>3. s.call \in [Ids -> Cpvt] /\ s.call[id] \in Cpvt
  BY <1>1 DEF Driver
<1>4. /\ Alike([s.call[id] EXCEPT !.state = new], t.call[id])
      /\ t.call[id].need = s.call[id].need
      /\ \A o \in Ids : o # id => t.call[o] = s.call[o]
  BY <1>1, <1>2, <1>3 DEF InNew, Alike, Cpvt
<1>5. /\ t.call[id].state = new /\ t.call[id].idx = s.call[id].idx /\ t.call[id].dir = s.call[id].dir
      /\ t.call[id].ch = s.call[id].ch /\ t.call[id].act = s.call[id].act
      /\ t.call[id].master = s.call[id].master
  BY <1>3, <1>4 DEF Alike, Cpvt
<1>6. \A i \in DOMAIN t.queue : TaskFor(t, t.queue[i])
  BY <1>1, <1>2, <1>4, <1>5, GoodTasks DEF TaskFor
<1>7. t.last \in {None, s.last} /\ t.last \in Linked(t) \cup {None}
  BY <1>2 DEF Good, Points
<1>8. \A o \in Ids : t.chan[o].link <=> (o \in Linked(t) /\ t.call[o].ch)
  BY <1>1, <1>2, <1>4, <1>5 DEF Good, Points
<1>9. Sound(t)
  BY <1>1, <1>2, <1>4, <1>5 DEF Good, Sound
<1>10. Told(t)
  BY <1>2 DEF Good, Told
<1>11. Alive(t)
  BY <1>1, <1>2, <1>4, <1>5 DEF Good, Alive
<1>12. \A o \in Linked(t) : t.call[o].idx = s.call[o].idx /\ t.call[o].dir = s.call[o].dir
                            /\ t.call[o].need = s.call[o].need
  BY <1>1, <1>2, <1>4, <1>5
<1>13. Good(t)
  <2>1. /\ Linked(t) \subseteq Linked(s)
        /\ \A o \in Linked(t) : t.call[o].idx = s.call[o].idx /\ t.call[o].dir = s.call[o].dir
    BY <1>2, <1>12
  <2>2. Base(t)
    BY <1>2
  <2>. QED BY <2>2, <1>6, <1>7, <1>8, <1>9, <1>10, <1>11, <2>1, Assembled
<1> QED BY <1>1, <1>2, <1>4, <1>5, <1>12, <1>13 DEF Turned

(* What disactivate_call does to a call that was the active one. *)
IsQuiet(s, t, id) ==
  /\ Base(t) /\ Linked(t) = Linked(s)
  /\ t.chans = s.chans /\ t.last = s.last /\ t.queue = s.queue
  /\ \A o \in Ids : o # id => t.call[o] = s.call[o] /\ t.chan[o] = s.chan[o]
  /\ t.call[id].idx = s.call[id].idx /\ t.call[id].dir = s.call[id].dir
  /\ t.call[id].state = s.call[id].state /\ t.call[id].ch = s.call[id].ch
  /\ t.call[id].need = s.call[id].need
  /\ t.chan[id].up = s.chan[id].up /\ t.chan[id].link = s.chan[id].link
  /\ t.chan[id].hup = s.chan[id].hup
  /\ s.call[id].ch /\ s.call[id].act =>
       ~t.call[id].act /\ ~t.call[id].master /\ t.chan[id].fd0 = "none"
  /\ ~(s.call[id].ch /\ s.call[id].act) =>
       /\ t.call[id].act = s.call[id].act /\ t.call[id].master = s.call[id].master
       /\ t.chan[id].fd0 = s.chan[id].fd0

LEMMA SameBase ==
  ASSUME NEW s, Base(s), NEW t, t \in Driver, t.chans = s.chans, t.chansno = s.chansno,
         t.chan_count = s.chan_count, \A o \in Linked(s) : t.call[o].state = s.call[o].state,
         \A o \in Ids : o \notin Linked(s) => t.call[o] = s.call[o]
  PROVE  Base(t) /\ Linked(t) = Linked(s)
<1>1. Linked(t) = Linked(s)
  BY DEF Linked
<1>2. \A st \in States : InState(t, st) = InState(s, st)
  BY <1>1 DEF InState
<1>3. Counts(t)
  BY <1>2 DEF Base, Counts
<1>4. Shape(t)
  BY <1>1 DEF Base, Shape
<1> QED BY <1>1, <1>3, <1>4 DEF Base

LEMMA QuietFields ==
  ASSUME NEW s, Base(s), NEW id \in Linked(s)
  PROVE  IsQuiet(s, disactivate_call(s, id), id)
<1> DEFINE c == [s.call[id] EXCEPT !.act = FALSE, !.master = FALSE]
           h == [s.chan[id] EXCEPT !.fd0 = "none"]
           call == [s.call EXCEPT ![id] = c]
           chan == [s.chan EXCEPT ![id] = h]
           t == [s EXCEPT !.call = call, !.chan = chan]
<1>1. s \in Driver /\ id \in Ids /\ s.call \in [Ids -> Cpvt] /\ s.chan \in [Ids -> Chan]
  BY LinkedIds DEF Base, Shape, Driver
<1>2. s.call[id] \in Cpvt /\ s.chan[id] \in Chan
  BY <1>1
<1>3. CASE ~(s.call[id].ch /\ s.call[id].act)
  <2>1. disactivate_call(s, id) = s
    BY <1>3 DEF disactivate_call
  <2>. QED BY <1>3, <2>1 DEF IsQuiet
<1>4. CASE s.call[id].ch /\ s.call[id].act
  <2>1. disactivate_call(s, id) = t
    BY <1>1, <1>4 DEF disactivate_call, Driver
  <2>2. /\ c \in Cpvt /\ c.idx = s.call[id].idx /\ c.dir = s.call[id].dir
        /\ c.state = s.call[id].state /\ c.ch = s.call[id].ch /\ c.need = s.call[id].need
        /\ ~c.act /\ ~c.master
    BY <1>2 DEF Cpvt
  <2>3. /\ h \in Chan /\ h.up = s.chan[id].up /\ h.link = s.chan[id].link
        /\ h.hup = s.chan[id].hup /\ h.fd0 = "none"
    BY <1>2 DEF Chan
  <2> HIDE DEF c, h
  <2>4. /\ call \in [Ids -> Cpvt] /\ call[id] = c /\ \A o \in Ids : o # id => call[o] = s.call[o]
        /\ chan \in [Ids -> Chan] /\ chan[id] = h /\ \A o \in Ids : o # id => chan[o] = s.chan[o]
    BY <1>1, <2>2, <2>3
  <2> HIDE DEF call, chan
  <2>5. /\ t \in Driver /\ t.call = call /\ t.chan = chan /\ t.chans = s.chans
        /\ t.chansno = s.chansno /\ t.chan_count = s.chan_count
        /\ t.last = s.last /\ t.queue = s.queue
    BY <1>1, <2>4 DEF Driver
  <2> HIDE DEF t
  <2>6. /\ \A o \in Linked(s) : t.call[o].state = s.call[o].state
        /\ \A o \in Ids : o \notin Linked(s) => t.call[o] = s.call[o]
    <3>1. Linked(s) \subseteq Ids
      BY LinkedIds DEF Base, Shape, Driver
    <3>. QED BY <1>1, <2>2, <2>4, <2>5, <3>1
  <2>7. Base(t) /\ Linked(t) = Linked(s)
    BY <2>5, <2>6, SameBase
  <2>8. IsQuiet(s, t, id)
    BY <1>4, <2>2, <2>3, <2>4, <2>5, <2>7 DEF IsQuiet
  <2>. QED BY <2>1, <2>8
<1> QED BY <1>3, <1>4

LEMMA TurnedHeld ==
  ASSUME NEW s, Good(s), NEW id \in Linked(s), s.call[id].state # "onhold",
         NEW t, t = disactivate_call(Restated(s, id, "onhold"), id), s.call[id].ch
  PROVE  Turned(s, t, id, "onhold")
<1> DEFINE s2 == Restated(s, id, "onhold")
<1>1. /\ s \in Driver /\ Base(s) /\ Linked(s) \subseteq Ids /\ id \in Ids
      /\ "onhold" \in States /\ "onhold" # s.call[id].state
  BY GoodTasks DEF Good, Base, Alive, States, Shape
<1>2. IsRestated(s, s2, id, "onhold")
  BY <1>1, RestatedFields
<1>3. Base(s2) /\ id \in Linked(s2)
  BY <1>2 DEF IsRestated
<1>3a. t = disactivate_call(s2, id)
  OBVIOUS
<1> HIDE DEF s2
<1>4. IsQuiet(s2, t, id)
  BY <1>3, <1>3a, QuietFields
<1>5. s.call \in [Ids -> Cpvt] /\ s.call[id] \in Cpvt
  BY <1>1 DEF Driver
<1>6. /\ s2.call[id].state = "onhold" /\ s2.call[id].idx = s.call[id].idx
      /\ s2.call[id].dir = s.call[id].dir /\ s2.call[id].need = s.call[id].need
      /\ s2.call[id].ch = s.call[id].ch /\ s2.call[id].act = s.call[id].act
      /\ s2.call[id].master = s.call[id].master
      /\ \A o \in Ids : o # id => s2.call[o] = s.call[o]
  <2>1. s2.call[id] = InNew(s.call[id], "onhold") /\ \A o \in Ids : o # id => s2.call[o] = s.call[o]
    BY <1>1, <1>2, <1>5 DEF IsRestated
  <2>. QED BY <1>5, <2>1 DEF InNew, Cpvt
<1>7. /\ Base(t) /\ Linked(t) = Linked(s) /\ t.last = s.last /\ t.queue = s.queue
      /\ \A o \in Ids : o # id => t.call[o] = s.call[o] /\ t.chan[o] = s.chan[o]
      /\ t.call[id].idx = s.call[id].idx /\ t.call[id].dir = s.call[id].dir
      /\ t.call[id].state = "onhold" /\ t.call[id].ch
      /\ t.call[id].need = s.call[id].need
      /\ t.chan[id].up = s.chan[id].up /\ t.chan[id].link = s.chan[id].link
      /\ t.chan[id].hup = s.chan[id].hup
      /\ ~t.call[id].act /\ ~t.call[id].master /\ t.chan[id].fd0 # "audio"
  <2>1. ~s.call[id].act => ~s.call[id].master /\ s.chan[id].fd0 # "audio"
    <3>1. /\ s.call[id].master => s.chan[id].fd0 = "audio"
          /\ s.chan[id].fd0 = "audio" => s.call[id].act
      BY <1>1 DEF Good, Sound
    <3>. QED BY <3>1
  <2>2. s.call[id].act \in BOOLEAN
    BY <1>5 DEF Cpvt
  <2>3. s2.chan = s.chan /\ s2.last = s.last /\ s2.queue = s.queue /\ Linked(s2) = Linked(s)
    BY <1>2 DEF IsRestated
  <2>4. /\ Base(t) /\ Linked(t) = Linked(s) /\ t.last = s.last /\ t.queue = s.queue
        /\ \A o \in Ids : o # id => t.call[o] = s.call[o] /\ t.chan[o] = s.chan[o]
    BY <1>4, <1>6, <2>3 DEF IsQuiet
  <2>5. /\ t.call[id].idx = s.call[id].idx /\ t.call[id].dir = s.call[id].dir
        /\ t.call[id].state = "onhold" /\ t.call[id].ch
        /\ t.call[id].need = s.call[id].need
    BY <1>4, <1>6 DEF IsQuiet
  <2>6. /\ t.chan[id].up = s.chan[id].up /\ t.chan[id].link = s.chan[id].link
        /\ t.chan[id].hup = s.chan[id].hup
    BY <1>4, <2>3 DEF IsQuiet
  <2>7. ~t.call[id].act /\ ~t.call[id].master /\ t.chan[id].fd0 # "audio"
    <3>1. s2.call[id].ch
      BY <1>6
    <3>2. CASE s2.call[id].act
      BY <1>4, <3>1, <3>2 DEF IsQuiet
    <3>3. CASE ~s2.call[id].act
      <4>1. ~s2.call[id].master /\ s2.chan[id].fd0 # "audio"
        BY <1>6, <2>1, <2>3, <3>3
      <4>. QED BY <1>4, <3>3, <4>1 DEF IsQuiet
    <3>. QED BY <3>2, <3>3
  <2>. QED BY <2>4, <2>5, <2>6, <2>7
<1>8. \A i \in DOMAIN t.queue : TaskFor(t, t.queue[i])
  BY <1>1, <1>7, GoodTasks DEF TaskFor
<1>9. t.last \in {None, s.last} /\ t.last \in Linked(t) \cup {None}
  BY <1>7 DEF Good, Points
<1>10. \A o \in Ids : t.chan[o].link <=> (o \in Linked(t) /\ t.call[o].ch)
  BY <1>1, <1>7 DEF Good, Points
<1>11. Sound(t)
  BY <1>1, <1>7 DEF Good, Sound
<1>12. Told(t)
  BY <1>7 DEF Good, Told
<1>13. Alive(t)
  BY <1>1, <1>7 DEF Good, Alive
<1>14. /\ Linked(t) \subseteq Linked(s)
       /\ \A o \in Linked(t) : t.call[o].idx = s.call[o].idx /\ t.call[o].dir = s.call[o].dir
  BY <1>1, <1>7
<1>15. Base(t)
  BY <1>7
<1>16. Good(t)
  BY <1>8, <1>9, <1>10, <1>11, <1>12, <1>13, <1>14, <1>15, Assembled
<1> QED BY <1>1, <1>7, <1>14, <1>16 DEF Turned

LEMMA TurnedTold ==
  ASSUME NEW s, Good(s), NEW id \in Linked(s), s.call[id].ch
  PROVE  Turned(s, queue_hangup([cpvt_free(disactivate_call(Restated(s, id, "released"), id), id)
                                   EXCEPT !.chan[id].link = FALSE], id), id, "released")
<1> DEFINE s2 == Restated(s, id, "released")
           s3 == disactivate_call(s2, id)
           u == cpvt_free(s3, id)
           h == [u.chan[id] EXCEPT !.link = FALSE]
           g == [h EXCEPT !.hup = TRUE]
           chan == [u.chan EXCEPT ![id] = h]
           v == [u EXCEPT !.chan = chan]
           told == [v.chan EXCEPT ![id] = [v.chan[id] EXCEPT !.hup = TRUE]]
           t == queue_hangup([u EXCEPT !.chan[id].link = FALSE], id)
<1>1. /\ s \in Driver /\ Base(s) /\ Linked(s) \subseteq Ids /\ id \in Ids
      /\ "released" \in States /\ "released" # s.call[id].state
  BY GoodTasks DEF Good, Base, Alive, States, Shape
<1>2. u = cpvt_free(s3, id) /\ s3 = disactivate_call(s2, id)
  OBVIOUS
<1>3. IsRestated(s, s2, id, "released")
  BY <1>1, RestatedFields
<1> HIDE DEF s2, s3, u
<1>4. Base(s2) /\ id \in Linked(s2)
  BY <1>3 DEF IsRestated
<1>5. IsQuiet(s2, s3, id)
  BY <1>2, <1>4, QuietFields
<1>6. Base(s3) /\ id \in Linked(s3)
  BY <1>4, <1>5 DEF IsQuiet
<1>7. IsFreed(s3, u, id)
  BY <1>2, <1>6, FreedFields
<1>8. u \in Driver /\ s2.call \in [Ids -> Cpvt] /\ s3.call \in [Ids -> Cpvt] /\ s.call \in [Ids -> Cpvt]
  BY <1>1, <1>4, <1>6, <1>7 DEF IsFreed, Base, Shape, Driver
<1>9. /\ Base(u) /\ Linked(u) = Linked(s) \ {id} /\ u.last = (IF s.last = id THEN None ELSE s.last)
      /\ u.queue = [i \in DOMAIN s.queue |-> HandedOver(s.queue[i], id)]
  BY <1>3, <1>5, <1>7 DEF IsRestated, IsQuiet, IsFreed
<1>10. u.call[id] = NoCpvt
  BY <1>1, <1>7, <1>8 DEF IsFreed
<1>11. ASSUME NEW o \in Ids, o # id PROVE u.call[o] = s.call[o] /\ u.chan[o] = s.chan[o]
  <2>1. u.call[o] = s3.call[o] /\ u.chan = s3.chan
    BY <1>1, <1>7, <1>8, <1>11 DEF IsFreed
  <2>2. s3.call[o] = s2.call[o] /\ s3.chan[o] = s2.chan[o]
    BY <1>5, <1>11 DEF IsQuiet
  <2>3. s2.call[o] = s.call[o] /\ s2.chan = s.chan
    BY <1>1, <1>3, <1>8, <1>11 DEF IsRestated
  <2>. QED BY <2>1, <2>2, <2>3
<1>12. u.chan[id].fd0 # "audio"
  <2>1. u.chan = s3.chan /\ s2.chan = s.chan
    BY <1>3, <1>7 DEF IsRestated, IsFreed
  <2>2. s2.call[id] = InNew(s.call[id], "released")
    BY <1>1, <1>3, <1>8 DEF IsRestated
  <2>3. s2.call[id].ch /\ (s.call[id].act => s2.call[id].act)
    BY <1>1, <1>8, <2>2 DEF InNew, Cpvt
  <2>4. s.chan[id].fd0 = "audio" => s.call[id].act
    BY <1>1 DEF Good, Sound
  <2>5. CASE s2.call[id].act
    BY <1>5, <2>1, <2>3, <2>5 DEF IsQuiet
  <2>6. CASE ~s2.call[id].act
    BY <1>5, <2>1, <2>3, <2>4, <2>6 DEF IsQuiet
  <2>. QED BY <2>5, <2>6
<1>13. u.chan \in [Ids -> Chan] /\ u.chan[id] \in Chan
  BY <1>1, <1>8 DEF Driver
<1>14. [u EXCEPT !.chan[id].link = FALSE] = v
  BY <1>1, <1>8, <1>13 DEF Driver
<1>15. /\ h \in Chan /\ ~h.link /\ h.fd0 # "audio" /\ g \in Chan /\ ~g.link /\ g.fd0 # "audio"
       /\ g.hup /\ h.up \in BOOLEAN
  BY <1>12, <1>13 DEF Chan
<1> HIDE DEF h, g
<1>16. chan \in [Ids -> Chan] /\ chan[id] = h /\ \A o \in Ids : o # id => chan[o] = u.chan[o]
  BY <1>1, <1>13, <1>15
<1> HIDE DEF chan
<1>17. /\ v \in Driver /\ v.chan = chan /\ v.call = u.call /\ v.chans = u.chans
       /\ v.chansno = u.chansno /\ v.chan_count = u.chan_count /\ v.last = u.last
       /\ v.queue = u.queue
  BY <1>8, <1>16 DEF Driver
<1> HIDE DEF v
<1>18. t = IF h.up THEN [v EXCEPT !.chan = told] ELSE v
  BY <1>1, <1>14, <1>16, <1>17 DEF queue_hangup, Driver
<1> HIDE DEF t
<1>19. told \in [Ids -> Chan] /\ told[id] = g /\ \A o \in Ids : o # id => told[o] = u.chan[o]
  <2>1. v.chan[id] = h /\ [v.chan[id] EXCEPT !.hup = TRUE] = g
    BY <1>16, <1>17 DEF g
  <2>2. told = [chan EXCEPT ![id] = g]
    BY <1>17, <2>1
  <2> HIDE DEF told
  <2>. QED BY <1>1, <1>15, <1>16, <2>2
<1> HIDE DEF told
<1>20. /\ t \in Driver /\ t.call = u.call /\ t.chans = u.chans
       /\ t.chansno = u.chansno /\ t.chan_count = u.chan_count /\ t.last = u.last
       /\ t.queue = u.queue /\ t.chan = (IF h.up THEN told ELSE chan)
  <2>1. CASE h.up
    BY <1>17, <1>18, <1>19, <2>1 DEF Driver
  <2>2. CASE ~h.up
    BY <1>17, <1>18, <2>2
  <2>. QED BY <1>15, <2>1, <2>2
<1>21. /\ ~t.chan[id].link /\ t.chan[id].fd0 # "audio" /\ (t.chan[id].up => t.chan[id].hup)
       /\ \A o \in Ids : o # id => t.chan[o] = s.chan[o]
  <2>1. CASE h.up
    BY <1>11, <1>15, <1>19, <1>20, <2>1
  <2>2. CASE ~h.up
    BY <1>11, <1>15, <1>16, <1>20, <2>2
  <2>. QED BY <2>1, <2>2
<1>22. Base(t) /\ Linked(t) = Linked(s) \ {id}
  <2>1. Base(u) /\ \A o \in Linked(u) : t.call[o].state = u.call[o].state
    BY <1>9, <1>20
  <2>2. \A o \in Ids : o \notin Linked(u) => t.call[o] = u.call[o]
    BY <1>20
  <2>3. Base(t) /\ Linked(t) = Linked(u)
    BY <1>20, <2>1, <2>2, SameBase
  <2>. QED BY <1>9, <2>3
<1>23. t.call[id] = NoCpvt /\ \A o \in Ids : o # id => t.call[o] = s.call[o]
  BY <1>10, <1>11, <1>20
<1>24. \A i \in DOMAIN t.queue : TaskFor(t, t.queue[i])
  <2> SUFFICES ASSUME NEW i \in DOMAIN s.queue PROVE TaskFor(t, HandedOver(s.queue[i], id))
    BY <1>9, <1>20
  <2>1. TaskFor(s, s.queue[i]) /\ s.queue[i] \in Task
    BY GoodTasks
  <2>2. CASE s.queue[i].cpvt = id
    BY <2>1, <2>2 DEF TaskFor, HandedOver, Task
  <2>3. CASE s.queue[i].cpvt # id
    BY <1>1, <1>22, <1>23, <2>1, <2>3 DEF TaskFor, HandedOver
  <2>. QED BY <2>2, <2>3
<1>25. t.last \in {None, s.last} /\ t.last \in Linked(t) \cup {None}
  BY <1>9, <1>20, <1>22 DEF Good, Points
<1>26. \A o \in Ids : t.chan[o].link <=> (o \in Linked(t) /\ t.call[o].ch)
  <2>1. ~NoCpvt.ch
    BY DEF NoCpvt
  <2>. QED BY <1>1, <1>21, <1>22, <1>23, <2>1 DEF Good, Points
<1>27. Sound(t)
  <2>1. ~NoCpvt.master /\ ~NoCpvt.act
    BY DEF NoCpvt
  <2>. QED BY <1>1, <1>21, <1>22, <1>23, <2>1 DEF Good, Sound
<1>28. Told(t)
  BY <1>21 DEF Good, Told
<1>29. Alive(t)
  BY <1>1, <1>22, <1>23 DEF Good, Alive
<1>30. \A o \in Linked(t) : t.call[o] = s.call[o] /\ o # id
  BY <1>1, <1>22, <1>23
<1>31. /\ Linked(t) \subseteq Linked(s) /\ Base(t)
       /\ \A o \in Linked(t) : t.call[o].idx = s.call[o].idx /\ t.call[o].dir = s.call[o].dir
  BY <1>22, <1>30
<1>32. Good(t)
  BY <1>24, <1>25, <1>26, <1>27, <1>28, <1>29, <1>31, Assembled
<1>33. DOMAIN t.queue = DOMAIN s.queue
  BY <1>9, <1>20
<1>34. Turned(s, t, id, "released")
  BY <1>22, <1>30, <1>32, <1>33 DEF Turned
<1> QED BY <1>34 DEF t, u, s3, s2

LEMMA TurnedActive ==
  ASSUME NEW s, Good(s), NEW id \in Linked(s), s.call[id].ch,
         NEW new \in {"dialing", "alerting", "active"}, new # s.call[id].state
  PROVE  Turned(s, activate_call(Restated(s, id, new), id), id, new)
<1> DEFINE s2 == Restated(s, id, new)
           others == {o \in Linked(s2) \ {id} : s2.call[o].ch /\ s2.call[id].act}
           mine(o) == [s2.call[o] EXCEPT !.act = TRUE, !.master = TRUE]
           theirs(o) == [s2.call[o] EXCEPT !.master = FALSE]
           call == [o \in Ids |-> IF o = id THEN mine(o) ELSE theirs(o)]
           piped(o) == [s2.chan[o] EXCEPT !.fd0 = "pipe"]
           sounds(o) == [s2.chan[o] EXCEPT !.fd0 = "audio"]
           chan == [o \in Ids |-> CASE o \in others -> piped(o)
                                    [] o = id /\ s2.call[o].ch -> sounds(o)
                                    [] OTHER -> s2.chan[o]]
           v == [s2 EXCEPT !.call = call, !.chan = chan]
           t == activate_call(s2, id)
<1>1. /\ s \in Driver /\ Base(s) /\ Linked(s) \subseteq Ids /\ id \in Ids
      /\ new \in States /\ new # "released"
  BY GoodTasks DEF Good, Base, Alive, States, Shape
<1>2. IsRestated(s, s2, id, new)
  BY <1>1, RestatedFields
<1>3. t = IF s2.call[id].master THEN s2 ELSE v
  <2> HIDE DEF s2
  <2>. QED BY DEF activate_call
<1> HIDE DEF s2, t
<1>4. /\ Base(s2) /\ Linked(s2) = Linked(s) /\ s2.last = s.last /\ s2.queue = s.queue
      /\ s2.chan = s.chan
  BY <1>2 DEF IsRestated
<1>5. /\ s2 \in Driver /\ s2.call \in [Ids -> Cpvt] /\ s2.chan \in [Ids -> Chan]
      /\ s.call \in [Ids -> Cpvt] /\ s.call[id] \in Cpvt
  BY <1>1, <1>4 DEF Base, Shape, Driver
<1>6. /\ s2.call[id].state = new /\ s2.call[id].idx = s.call[id].idx
      /\ s2.call[id].dir = s.call[id].dir /\ s2.call[id].need = s.call[id].need
      /\ s2.call[id].ch /\ s2.call[id].act = s.call[id].act
      /\ s2.call[id].master = s.call[id].master
      /\ \A o \in Ids : o # id => s2.call[o] = s.call[o]
  <2>1. s2.call[id] = InNew(s.call[id], new) /\ \A o \in Ids : o # id => s2.call[o] = s.call[o]
    BY <1>1, <1>2, <1>5 DEF IsRestated
  <2>. QED BY <1>5, <2>1 DEF InNew, Cpvt
<1>7. /\ \A a, b \in Linked(s) : s.call[a].master /\ s.call[b].master => a = b
      /\ \A o \in Ids : s.call[o].master => s.chan[o].fd0 = "audio"
      /\ \A o \in Ids : s.chan[o].fd0 = "audio" => s.call[o].act
      /\ \A o \in Ids : s.call[o].act =>
           s.call[o].ch /\ s.call[o].state \in {"active", "dialing", "alerting"}
      /\ \A o \in Linked(s) : s.call[o].ch /\ s.call[o].state = "active" => s.call[o].act
      /\ \A o \in Ids : o \notin Linked(s) => s.call[o] = NoCpvt
  BY DEF Good, Sound, Shape
<1>8. \A o \in Ids : /\ mine(o) \in Cpvt /\ theirs(o) \in Cpvt
                     /\ mine(o).act /\ mine(o).master /\ mine(o).idx = s2.call[o].idx
                     /\ mine(o).dir = s2.call[o].dir /\ mine(o).state = s2.call[o].state
                     /\ mine(o).ch = s2.call[o].ch /\ mine(o).need = s2.call[o].need
                     /\ ~theirs(o).master /\ theirs(o).act = s2.call[o].act
                     /\ theirs(o).idx = s2.call[o].idx
                     /\ theirs(o).dir = s2.call[o].dir /\ theirs(o).state = s2.call[o].state
                     /\ theirs(o).ch = s2.call[o].ch /\ theirs(o).need = s2.call[o].need
  <2>1. ASSUME NEW c \in Cpvt
        PROVE         LET m == [c EXCEPT !.act = TRUE, !.master = TRUE]
                          n == [c EXCEPT !.master = FALSE]
                      IN  /\ m \in Cpvt /\ n \in Cpvt
                          /\ m.act /\ m.master /\ m.idx = c.idx
                          /\ m.dir = c.dir /\ m.state = c.state
                          /\ m.ch = c.ch /\ m.need = c.need
                          /\ ~n.master /\ n.act = c.act /\ n.idx = c.idx
                          /\ n.dir = c.dir /\ n.state = c.state
                          /\ n.ch = c.ch /\ n.need = c.need
    BY DEF Cpvt
  <2>2. \A o \in Ids : s2.call[o] \in Cpvt
    BY <1>5
  <2>. QED BY <2>1, <2>2, Zenon
<1>9. \A o \in Ids : o \notin Linked(s) => theirs(o) = NoCpvt
  <2>1. [NoCpvt EXCEPT !.master = FALSE] = NoCpvt
    <3>1. NoCpvt \in Cpvt /\ NoCpvt.master = FALSE
      BY DEF NoCpvt, Cpvt, States
    <3>. QED BY <3>1 DEF Cpvt
  <2>2. \A o \in Ids : o \notin Linked(s) => s2.call[o] = NoCpvt
    BY <1>6, <1>7
  <2>. QED BY <2>1, <2>2
<1>10. \A o \in Ids : /\ piped(o) \in Chan /\ sounds(o) \in Chan
                      /\ piped(o).fd0 = "pipe" /\ sounds(o).fd0 = "audio"
                      /\ piped(o).up = s.chan[o].up /\ piped(o).link = s.chan[o].link
                      /\ piped(o).hup = s.chan[o].hup
                      /\ sounds(o).up = s.chan[o].up /\ sounds(o).link = s.chan[o].link
                      /\ sounds(o).hup = s.chan[o].hup
  BY <1>4, <1>5 DEF Chan
<1> HIDE DEF mine, theirs, piped, sounds
<1>11. id \notin others
  OBVIOUS
<1> HIDE DEF others
<1>12. /\ call \in [Ids -> Cpvt] /\ call[id] = mine(id)
       /\ \A o \in Ids : o # id => call[o] = theirs(o)
  BY <1>1, <1>8
<1>13. /\ chan \in [Ids -> Chan] /\ chan[id] = sounds(id)
       /\ \A o \in Ids : o \in others => chan[o] = piped(o)
       /\ \A o \in Ids : o \notin others /\ o # id => chan[o] = s.chan[o]
  <2>1. \A o \in Ids : chan[o] \in Chan
    BY <1>5, <1>10
  <2>. QED BY <1>1, <1>4, <1>6, <1>11, <2>1
<1> HIDE DEF call, chan
<1>14. /\ v \in Driver /\ v.call = call /\ v.chan = chan /\ v.chans = s2.chans
       /\ v.chansno = s2.chansno /\ v.chan_count = s2.chan_count /\ v.last = s2.last
       /\ v.queue = s2.queue
  BY <1>5, <1>12, <1>13 DEF Driver
<1> HIDE DEF v
<1>15. /\ Base(t) /\ Linked(t) = Linked(s) /\ t.last = s.last /\ t.queue = s.queue
  <2>1. CASE s2.call[id].master
    BY <1>3, <1>4, <2>1
  <2>2. CASE ~s2.call[id].master
    <3>1. t = v
      BY <1>3, <2>2
    <3>2. \A o \in Linked(s2) : v.call[o].state = s2.call[o].state
      BY <1>1, <1>4, <1>8, <1>12, <1>14
    <3>3. \A o \in Ids : o \notin Linked(s2) => v.call[o] = s2.call[o]
      BY <1>4, <1>6, <1>7, <1>9, <1>12, <1>14
    <3>4. Base(v) /\ Linked(v) = Linked(s2)
      BY <1>4, <1>14, <3>2, <3>3, SameBase
    <3>. QED BY <1>4, <1>14, <3>1, <3>4
  <2>. QED BY <2>1, <2>2
<1>16. /\ t.call[id].state = new /\ t.call[id].ch
       /\ t.call[id].idx = s.call[id].idx /\ t.call[id].dir = s.call[id].dir
       /\ t.call[id].need = s.call[id].need
       /\ t.call[id].act /\ t.call[id].master /\ t.chan[id].fd0 = "audio"
  <2>1. CASE s2.call[id].master
    <3>1. t = s2 /\ s.call[id].master
      BY <1>3, <1>6, <2>1
    <3>2. s.chan[id].fd0 = "audio" /\ s.call[id].act
      BY <1>1, <1>7, <3>1
    <3>. QED BY <1>4, <1>6, <3>1, <3>2
  <2>2. CASE ~s2.call[id].master
    <3>1. t = v
      BY <1>3, <2>2
    <3>. QED BY <1>1, <1>6, <1>8, <1>10, <1>12, <1>13, <1>14, <3>1
  <2>. QED BY <2>1, <2>2
<1>17. ASSUME NEW o \in Ids, o # id
       PROVE  /\ t.call[o].idx = s.call[o].idx /\ t.call[o].dir = s.call[o].dir
              /\ t.call[o].state = s.call[o].state /\ t.call[o].ch = s.call[o].ch
              /\ t.call[o].need = s.call[o].need /\ t.call[o].act = s.call[o].act
  <2>1. CASE s2.call[id].master
    BY <1>3, <1>6, <1>17, <2>1
  <2>2. CASE ~s2.call[id].master
    <3>1. t.call[o] = theirs(o) /\ s2.call[o] = s.call[o]
      BY <1>3, <1>6, <1>12, <1>14, <1>17, <2>2
    <3>. QED BY <1>8, <3>1
  <2>. QED BY <2>1, <2>2
<1>18. ASSUME NEW o \in Ids, o # id
       PROVE  o \in Linked(s) => ~t.call[o].master
  <2>1. CASE s2.call[id].master
    BY <1>3, <1>6, <1>7, <1>18, <2>1
  <2>2. CASE ~s2.call[id].master
    <3>1. t.call[o] = theirs(o)
      BY <1>3, <1>12, <1>14, <1>18, <2>2
    <3>. QED BY <1>8, <3>1
  <2>. QED BY <2>1, <2>2
<1>19. ASSUME NEW o \in Ids
       PROVE  /\ t.chan[o].up = s.chan[o].up /\ t.chan[o].link = s.chan[o].link
              /\ t.chan[o].hup = s.chan[o].hup
              /\ t.chan[o].fd0 = "audio" /\ o # id => s.chan[o].fd0 = "audio"
  <2>1. CASE s2.call[id].master
    BY <1>3, <1>4, <2>1
  <2>2. CASE ~s2.call[id].master
    <3>1. t.chan = chan
      BY <1>3, <1>14, <2>2
    <3>2. CASE o \in others
      BY <1>10, <1>11, <1>13, <3>1, <3>2
    <3>3. CASE o = id
      BY <1>10, <1>13, <3>1, <3>3
    <3>4. CASE o \notin others /\ o # id
      BY <1>13, <3>1, <3>4
    <3>. QED BY <3>2, <3>3, <3>4
  <2>. QED BY <2>1, <2>2
<1>20. ASSUME NEW o \in Ids, o \notin Linked(s)
       PROVE  t.call[o] = NoCpvt /\ o # id
  BY <1>7, <1>15, <1>20 DEF Base, Shape
<1>21. \A i \in DOMAIN t.queue : TaskFor(t, t.queue[i])
  BY <1>1, <1>15, <1>16, <1>17, GoodTasks DEF TaskFor
<1>22. t.last \in {None, s.last} /\ t.last \in Linked(t) \cup {None}
  BY <1>15 DEF Good, Points
<1>23. \A o \in Ids : t.chan[o].link <=> (o \in Linked(t) /\ t.call[o].ch)
  BY <1>1, <1>15, <1>16, <1>17, <1>19 DEF Good, Points
<1>24. Sound(t)
  <2>1. \A a, b \in Linked(t) : t.call[a].master /\ t.call[b].master => a = b
    BY <1>1, <1>15, <1>18
  <2>2. ASSUME NEW o \in Ids
        PROVE  /\ t.call[o].master => t.chan[o].fd0 = "audio"
               /\ t.chan[o].fd0 = "audio" => t.call[o].act
               /\ t.call[o].act =>
                    t.call[o].ch /\ t.call[o].state \in {"active", "dialing", "alerting"}
    <3>1. CASE o = id
      BY <1>16, <3>1
    <3>2. CASE o # id
      <4>1. ~t.call[o].master
        <5>1. ~NoCpvt.master
          BY DEF NoCpvt
        <5>. QED BY <1>18, <1>20, <3>2, <5>1
      <4>2. t.chan[o].fd0 = "audio" => t.call[o].act
        BY <1>7, <1>17, <1>19, <3>2
      <4>. QED BY <1>7, <1>17, <3>2, <4>1, <4>2
    <3>. QED BY <3>1, <3>2
  <2>3. \A o \in Linked(t) : t.call[o].ch /\ t.call[o].state = "active" => t.call[o].act
    BY <1>1, <1>7, <1>15, <1>16, <1>17
  <2>. QED BY <2>1, <2>2, <2>3 DEF Sound
<1>25. Told(t)
  BY <1>19 DEF Good, Told
<1>26. Alive(t)
  BY <1>1, <1>15, <1>16, <1>17 DEF Good, Alive
<1>27. \A o \in Linked(t) : /\ t.call[o].idx = s.call[o].idx /\ t.call[o].dir = s.call[o].dir
                            /\ t.call[o].need = s.call[o].need
                            /\ t.call[o].state = IF o = id THEN new ELSE s.call[o].state
  BY <1>1, <1>15, <1>16, <1>17
<1>28. /\ Base(t) /\ Linked(t) \subseteq Linked(s)
       /\ \A o \in Linked(t) : t.call[o].idx = s.call[o].idx /\ t.call[o].dir = s.call[o].dir
  BY <1>15, <1>27
<1>29. Good(t)
  BY <1>21, <1>22, <1>23, <1>24, <1>25, <1>26, <1>28, Assembled
<1>30. Turned(s, t, id, new)
  BY <1>1, <1>15, <1>27, <1>29 DEF Turned
<1> QED BY <1>30 DEF t, s2

(* change_channel_state puts the call into the state it is told, and keeps *)
(* everything else right.                                                  *)
LEMMA ChangeState ==
  ASSUME NEW s, Good(s), NEW id \in Linked(s), NEW new \in States,
         s.call[id].act => new \in {"active", "dialing", "alerting", "onhold", "released"}
  PROVE  Turned(s, change_channel_state(s, id, new), id, new)
<1> DEFINE old == s.call[id].state
           s2 == Restated(s, id, new)
           freed == cpvt_free(disactivate_call(s2, id), id)
           t == change_channel_state(s, id, new)
<1>1. t = CASE new = old -> s
        [] new # old /\ new = "released" /\ ~s.call[id].ch -> cpvt_free(s2, id)
        [] new # old /\ new = "released" /\ s.call[id].ch ->
             queue_hangup([freed EXCEPT !.chan[id].link = FALSE], id)
        [] new # old /\ new \in {"dialing", "alerting", "active"} /\ s.call[id].ch ->
             activate_call(s2, id)
        [] new # old /\ new = "onhold" /\ s.call[id].ch -> disactivate_call(s2, id)
        [] OTHER -> s2
  BY DEF change_channel_state, Restated
<1> HIDE DEF s2, t
<1>2. CASE new = old
  <2>1. t = s
    BY <1>1, <1>2
  <2>2. old # "released"
    BY DEF Good, Alive
  <2>. QED BY <1>2, <2>1, <2>2 DEF Turned, t
<1>3. CASE new # old /\ new = "released" /\ ~s.call[id].ch
  <2>1. t = cpvt_free(s2, id)
    BY <1>1, <1>3
  <2>. QED BY <1>3, <2>1, TurnedFree DEF t, s2
<1>4. CASE new # old /\ new = "released" /\ s.call[id].ch
  <2>1. t = queue_hangup([freed EXCEPT !.chan[id].link = FALSE], id)
    BY <1>1, <1>4
  <2>. QED BY <1>4, <2>1, TurnedTold DEF t, s2
<1>5. CASE new # old /\ new \in {"dialing", "alerting", "active"} /\ s.call[id].ch
  <2>1. t = activate_call(s2, id)
    BY <1>1, <1>5
  <2>. QED BY <1>5, <2>1, TurnedActive DEF t, s2
<1>6. CASE new # old /\ new = "onhold" /\ s.call[id].ch
  <2>1. t = disactivate_call(s2, id)
    BY <1>1, <1>6
  <2>. QED BY <1>6, <2>1, TurnedHeld DEF t, s2
<1>7. CASE /\ new # old /\ new # "released"
           /\ ~(new \in {"dialing", "alerting", "active", "onhold"} /\ s.call[id].ch)
  <2>1. t = s2
    BY <1>1, <1>7
  <2>2. id \in Ids /\ (s.call[id].act => s.call[id].ch)
    BY GoodTasks DEF Good, Sound
  <2>3. ~s.call[id].act /\ ~(s.call[id].ch /\ new = "active")
    BY <1>7, <2>2
  <2>4. new \in States \ {"released", s.call[id].state}
    BY <1>7
  <2>. QED BY <2>1, <2>3, <2>4, TurnedOther DEF t, s2
<1> QED BY <1>2, <1>3, <1>4, <1>5, <1>6, <1>7

(* A new call of s, with its channel. *)
Joined(s, t, id, idx, dir, state) ==
  /\ Good(t) /\ Linked(t) = Linked(s) \cup {id} /\ id \notin Linked(s)
  /\ \A o \in Linked(s) : t.call[o] = s.call[o]
  /\ t.call[id].idx = idx /\ t.call[id].dir = dir /\ t.call[id].state = state
  /\ t.queue = s.queue
  /\ \A o \in Ids : t.call[o].need = s.call[o].need

LEMMA NewChannel ==
  ASSUME NEW s, Good(s), NEW id \in Unused(s), NEW idx \in 0 .. 31, NEW dir \in {"out", "in"},
         NEW state \in {"init", "incoming", "waiting"},
         dir = "in" => idx \in Idx,
         \A o \in Linked(s) : dir = "in" \/ s.call[o].dir = "in" => s.call[o].idx # idx
  PROVE  Joined(s, new_channel(s, id, idx, dir, state), id, idx, dir, state)
<1> DEFINE c == [NoCpvt EXCEPT !.idx = idx, !.dir = dir, !.state = state]
           e == [c EXCEPT !.ch = TRUE]
           h == [NoChan EXCEPT !.up = TRUE, !.link = TRUE]
           chans == Append(s.chans, id)
           one == [s.call EXCEPT ![id] = c]
           call == [s.call EXCEPT ![id] = e]
           chan == [s.chan EXCEPT ![id] = h]
           count == [s.chan_count EXCEPT ![state] = @ + 1]
           a == [s EXCEPT !.chans = chans, !.call = one, !.chansno = @ + 1, !.chan_count = count]
           t == [chans |-> chans, call |-> call, chan |-> chan, chansno |-> s.chansno + 1,
                 chan_count |-> count, ring |-> s.ring, cwaiting |-> s.cwaiting,
                 dialing |-> s.dialing, last |-> s.last, queue |-> s.queue]
<1>1. /\ s \in Driver /\ Linked(s) \subseteq Ids /\ id \in Ids /\ id \notin Linked(s)
      /\ Listing(s.chans) /\ s.chansno = Len(s.chans) /\ IsFiniteSet(Linked(s)) /\ Counts(s)
      /\ ~s.chan[id].up /\ s.call[id] = NoCpvt /\ state \in States
      /\ \A o \in Ids : o \notin Linked(s) => s.call[o] = NoCpvt
  BY GoodTasks DEF Good, Shape, Driver, Listing, Unused, States
<1>2. /\ s.call \in [Ids -> Cpvt] /\ s.chan_count \in [States -> Nat]
      /\ s.ring \in BOOLEAN /\ s.cwaiting \in BOOLEAN /\ s.dialing \in BOOLEAN
      /\ s.last \in Ids \cup {None} /\ s.queue \in Seq(Task) /\ s.chan \in [Ids -> Chan]
      /\ s.chansno \in Nat
      /\ s = [chans |-> s.chans, call |-> s.call, chan |-> s.chan, chansno |-> s.chansno,
              chan_count |-> s.chan_count, ring |-> s.ring, cwaiting |-> s.cwaiting,
              dialing |-> s.dialing, last |-> s.last, queue |-> s.queue]
  BY <1>1 DEF Driver
<1>3. /\ c \in Cpvt /\ e \in Cpvt /\ e.idx = idx /\ e.dir = dir /\ e.state = state /\ e.ch
      /\ ~e.act /\ ~e.master /\ ~e.need
      /\ h \in Chan /\ h.up /\ h.link /\ h.fd0 = "none"
  BY <1>1 DEF NoCpvt, NoChan, Cpvt, Chan
<1>4. new_channel(s, id, idx, dir, state) = t
  <2>1. cpvt_alloc(s, id, idx, dir, state) = a
    BY DEF cpvt_alloc
  <2>2. [a EXCEPT !.call[id].ch = TRUE, !.chan[id] = h] = t
    <3>1. [one EXCEPT ![id].ch = TRUE] = call
      <4>1. one[id] = c /\ one \in [Ids -> Cpvt]
        BY <1>1, <1>2, <1>3
      <4>2. [one EXCEPT ![id].ch = TRUE] = [one EXCEPT ![id] = e]
        <5> HIDE DEF one, c
        <5>. QED BY <1>1, <4>1
      <4> HIDE DEF c, e
      <4>. QED BY <1>1, <1>2, <4>2
    <3> DEFINE u == [chans |-> chans, call |-> one, chan |-> s.chan, chansno |-> s.chansno + 1,
                     chan_count |-> count, ring |-> s.ring, cwaiting |-> s.cwaiting,
                     dialing |-> s.dialing, last |-> s.last, queue |-> s.queue]
    <3>2. a = u
      <4>1. a = [s EXCEPT !.chans = chans, !.call = one, !.chansno = s.chansno + 1,
                          !.chan_count = count]
        OBVIOUS
      <4> HIDE DEF a, chans, one, count
      <4>. QED BY <1>2, <4>1
    <3>3. chan = [s.chan EXCEPT ![id] = h]
      OBVIOUS
    <3> HIDE DEF a, h, one, call, chans, count, chan
    <3>4. [u EXCEPT !.call[id].ch = TRUE, !.chan[id] = h] = t
      <4> DEFINE w == [u EXCEPT !.call = [one EXCEPT ![id].ch = TRUE]]
      <4>1. [u EXCEPT !.call[id].ch = TRUE, !.chan[id] = h] = [w EXCEPT !.chan[id] = h]
        OBVIOUS
      <4>2. w = [chans |-> chans, call |-> call, chan |-> s.chan, chansno |-> s.chansno + 1,
                 chan_count |-> count, ring |-> s.ring, cwaiting |-> s.cwaiting,
                 dialing |-> s.dialing, last |-> s.last, queue |-> s.queue]
        <5>1. w = [u EXCEPT !.call = call]
          BY <3>1
        <5> HIDE DEF w
        <5>. QED BY <5>1
      <4>3. w.chan = s.chan
        BY <4>2
      <4> HIDE DEF w
      <4>4. [w EXCEPT !.chan[id] = h] = [w EXCEPT !.chan = chan]
        BY <3>3, <4>3
      <4>5. [w EXCEPT !.chan = chan] = t
        BY <4>2
      <4>. QED BY <4>1, <4>4, <4>5
    <3>. QED BY <3>2, <3>4
  <2> HIDE DEF a, t
  <2>. QED BY <2>1, <2>2 DEF new_channel
<1> HIDE DEF c, e, h
<1>5. /\ Listing(chans) /\ Len(chans) = Len(s.chans) + 1 /\ ToSet(chans) = Linked(s) \cup {id}
  BY <1>1, Appended DEF Linked
<1>6. /\ call \in [Ids -> Cpvt] /\ call[id] = e /\ \A o \in Ids : o # id => call[o] = s.call[o]
      /\ chan \in [Ids -> Chan] /\ chan[id] = h /\ \A o \in Ids : o # id => chan[o] = s.chan[o]
  BY <1>1, <1>2, <1>3
<1>7. /\ count \in [States -> Nat]
      /\ \A st \in States : count[st] = IF st = state THEN s.chan_count[st] + 1 ELSE s.chan_count[st]
  BY <1>1, <1>2
<1> HIDE DEF chans, call, chan, count
<1>8. /\ t.chans = chans /\ t.call = call /\ t.chan = chan /\ t.chansno = s.chansno + 1
      /\ t.chan_count = count /\ t.last = s.last /\ t.queue = s.queue
      /\ Linked(t) = Linked(s) \cup {id}
  BY <1>5 DEF Linked
<1>9. t \in Driver
  BY <1>2, <1>5, <1>6, <1>7 DEF Driver, Listing
<1> HIDE DEF t
<1>10. Shape(t)
  <2>1. IsFiniteSet(Linked(t))
    BY <1>1, <1>8, FS_AddElement
  <2>2. \A o \in Ids : o \notin Linked(t) => t.call[o] = NoCpvt
    BY <1>1, <1>6, <1>8
  <2>. QED BY <1>1, <1>5, <1>8, <1>9, <2>1, <2>2 DEF Shape, Listing
<1>11. Counts(t)
  <2>1. \A st \in States : IsFiniteSet(InState(s, st))
    <3>1. \A st \in States : InState(s, st) \in SUBSET Linked(s)
      BY DEF InState
    <3>. QED BY <1>1, <3>1, FS_Subset
  <2>2. /\ InState(t, state) = InState(s, state) \cup {id} /\ id \notin InState(s, state)
        /\ \A st \in States \ {state} : InState(t, st) = InState(s, st)
    BY <1>1, <1>3, <1>6, <1>8 DEF InState
  <2>3. Cardinality(InState(t, state)) = Cardinality(InState(s, state)) + 1
    BY <1>1, <2>1, <2>2, FS_AddElement
  <2>4. t.chan_count[state] = Cardinality(InState(t, state))
    BY <1>1, <1>7, <1>8, <2>3 DEF Counts
  <2>5. \A st \in States \ {state} : t.chan_count[st] = Cardinality(InState(t, st))
    BY <1>1, <1>7, <1>8, <2>2 DEF Counts
  <2>. QED BY <1>1, <2>4, <2>5 DEF Counts
<1>12. Points(t)
  <2>1. \A o \in Ids : t.chan[o].link <=> (o \in Linked(t) /\ t.call[o].ch)
    BY <1>1, <1>3, <1>6, <1>8 DEF Good, Points
  <2>. QED BY <1>8, <2>1 DEF Good, Points
<1>13. Sound(t)
  BY <1>1, <1>3, <1>6, <1>8 DEF Good, Sound
<1>14. Told(t)
  BY <1>1, <1>3, <1>6, <1>8 DEF Good, Told
<1>15. Alive(t)
  BY <1>1, <1>3, <1>6, <1>8 DEF Good, Alive
<1>16. Dials(t)
  <2>1. t.last # None => t.call[t.last].dir = "out"
    BY <1>1, <1>6, <1>8 DEF Good, Dials, Points
  <2>2. ASSUME NEW i \in DOMAIN t.queue, NEW k \in DOMAIN t.queue[i].cmds,
               t.queue[i].cmds[k].cmd = "D" /\ t.queue[i].cpvt # sys
        PROVE  t.call[t.queue[i].cpvt].dir = "out"
    <3>1. TaskFor(s, t.queue[i])
      BY <1>8, GoodTasks
    <3>. QED BY <1>1, <1>6, <1>8, <2>2, <3>1 DEF TaskFor
  <2>. QED BY <2>1, <2>2 DEF Dials
<1>17. Single(t)
  <2>1. ASSUME NEW x \in Incoming(t)
        PROVE  /\ t.call[x].idx \in Idx
               /\ \A y \in Linked(t) : t.call[x].idx = t.call[y].idx => x = y
    <3>1. CASE x = id
      <4>1. dir = "in" /\ t.call[x].idx = idx
        BY <1>1, <1>3, <1>6, <1>8, <2>1, <3>1 DEF Incoming
      <4>2. ASSUME NEW y \in Linked(t), t.call[x].idx = t.call[y].idx PROVE x = y
        BY <1>1, <1>6, <1>8, <3>1, <4>1, <4>2
      <4>. QED BY <4>1, <4>2
    <3>2. CASE x # id
      <4>1. x \in Incoming(s) /\ t.call[x] = s.call[x]
        BY <1>1, <1>6, <1>8, <2>1, <3>2 DEF Incoming
      <4>2. s.call[x].dir = "in" /\ x \in Linked(s)
        BY <4>1 DEF Incoming
      <4>3. ASSUME NEW y \in Linked(t), t.call[x].idx = t.call[y].idx PROVE x = y
        <5>1. CASE y = id
          <6>1. t.call[y].idx = idx
            BY <1>3, <1>6, <1>8, <5>1
          <6>2. s.call[x].idx # idx
            BY <4>2
          <6>. QED BY <4>1, <4>3, <6>1, <6>2
        <5>2. CASE y # id
          BY <1>1, <1>6, <1>8, <4>1, <4>3, <5>2 DEF Good, Single
        <5>. QED BY <5>1, <5>2
      <4>. QED BY <4>1, <4>3 DEF Good, Single
    <3>. QED BY <3>1, <3>2
  <2>. QED BY <2>1 DEF Single
<1>18. \A o \in Ids : t.call[o].need = s.call[o].need
  <2>1. NoCpvt.need = FALSE /\ e.need \in BOOLEAN
    BY <1>3 DEF NoCpvt, Cpvt
  <2>2. e.need = s.call[id].need
    BY <1>1, <1>3, <2>1
  <2>. QED BY <1>6, <1>8, <2>2
<1>19. Joined(s, t, id, idx, dir, state)
  BY <1>1, <1>3, <1>6, <1>8, <1>10, <1>11, <1>12, <1>13, <1>14, <1>15, <1>16, <1>17, <1>18
     DEF Good, Joined
<1> QED BY <1>4, <1>19

(* Calls are as they were, but for which have channels and sound. *)
Stayed(s, t) ==
  /\ Good(t) /\ Linked(t) = Linked(s)
  /\ \A o \in Linked(s) : /\ t.call[o].idx = s.call[o].idx /\ t.call[o].dir = s.call[o].dir
                          /\ t.call[o].need = s.call[o].need
                          /\ t.call[o].state = s.call[o].state
  /\ t.queue = s.queue

(* The channel is gone, and the call does not know it any more. *)
LEMMA Detached ==
  ASSUME NEW s, Good(s), NEW id \in Linked(s)
  PROVE  Stayed(s, [[disactivate_call(s, id) EXCEPT !.call[id].ch = FALSE] EXCEPT !.chan[id] = NoChan])
<1> DEFINE u == disactivate_call(s, id)
           c == [u.call[id] EXCEPT !.ch = FALSE]
           call == [u.call EXCEPT ![id] = c]
           chan == [u.chan EXCEPT ![id] = NoChan]
           v == [u EXCEPT !.call = call]
           t == [v EXCEPT !.chan = chan]
<1>1. s \in Driver /\ Linked(s) \subseteq Ids /\ id \in Ids /\ Base(s)
  BY GoodTasks DEF Good, Shape, Base
<1>2. IsQuiet(s, u, id)
  BY <1>1, QuietFields
<1> HIDE DEF u
<1>3. /\ Base(u) /\ u \in Driver /\ u.call \in [Ids -> Cpvt] /\ u.chan \in [Ids -> Chan]
      /\ u.call[id] \in Cpvt /\ s.call \in [Ids -> Cpvt] /\ s.call[id] \in Cpvt
  BY <1>1, <1>2 DEF IsQuiet, Base, Shape, Driver
<1>4. [u EXCEPT !.call[id].ch = FALSE] = v
  BY <1>1, <1>3
<1>5. /\ c \in Cpvt /\ ~c.ch /\ c.idx = s.call[id].idx /\ c.dir = s.call[id].dir
      /\ c.state = s.call[id].state /\ c.need = s.call[id].need
      /\ ~c.act /\ ~c.master
  <2>1. /\ c \in Cpvt /\ ~c.ch /\ c.idx = u.call[id].idx /\ c.dir = u.call[id].dir
        /\ c.state = u.call[id].state /\ c.need = u.call[id].need
        /\ c.act = u.call[id].act /\ c.master = u.call[id].master
    BY <1>3 DEF Cpvt
  <2> HIDE DEF c
  <2>2. ~u.call[id].act /\ ~u.call[id].master
    <3>1. /\ s.call[id].master => s.chan[id].fd0 = "audio"
          /\ s.chan[id].fd0 = "audio" => s.call[id].act
          /\ s.call[id].act => s.call[id].ch
      BY <1>1 DEF Good, Sound
    <3>2. CASE s.call[id].ch /\ s.call[id].act
      BY <1>2, <3>2 DEF IsQuiet
    <3>3. CASE ~(s.call[id].ch /\ s.call[id].act)
      BY <1>2, <3>1, <3>3 DEF IsQuiet
    <3>. QED BY <3>2, <3>3
  <2>. QED BY <1>2, <2>1, <2>2 DEF IsQuiet
<1> HIDE DEF c
<1>6. NoChan \in Chan /\ ~NoChan.up /\ ~NoChan.link /\ NoChan.fd0 = "none"
  BY DEF NoChan, Chan
<1>7. /\ call \in [Ids -> Cpvt] /\ call[id] = c /\ \A o \in Ids : o # id => call[o] = s.call[o]
      /\ chan \in [Ids -> Chan] /\ chan[id] = NoChan /\ \A o \in Ids : o # id => chan[o] = s.chan[o]
  BY <1>1, <1>2, <1>3, <1>5, <1>6 DEF IsQuiet
<1>8. [v EXCEPT !.chan[id] = NoChan] = t
  BY <1>3
<1> HIDE DEF call, chan
<1>9. /\ t \in Driver /\ t.call = call /\ t.chan = chan /\ t.chans = u.chans
      /\ t.chansno = u.chansno /\ t.chan_count = u.chan_count /\ t.last = u.last
      /\ t.queue = u.queue
  BY <1>3, <1>7 DEF Driver
<1> HIDE DEF t, v
<1>10. /\ Base(t) /\ Linked(t) = Linked(s) /\ t.last = s.last /\ t.queue = s.queue
  <2>1. /\ Linked(u) = Linked(s) /\ u.last = s.last /\ u.queue = s.queue
        /\ \A o \in Ids : o # id => u.call[o] = s.call[o]
        /\ u.call[id].state = s.call[id].state
    BY <1>2 DEF IsQuiet
  <2>2. ASSUME NEW o \in Linked(u) PROVE t.call[o].state = u.call[o].state
    <3>1. o \in Ids /\ t.call[o] = call[o]
      BY <1>1, <1>9, <2>1
    <3>2. CASE o = id
      <4>1. call[o] = c
        BY <1>7, <3>2
      <4>. QED BY <1>5, <2>1, <3>1, <3>2, <4>1
    <3>3. CASE o # id
      BY <1>7, <2>1, <3>1, <3>3
    <3>. QED BY <3>2, <3>3
  <2>3. \A o \in Ids : o \notin Linked(u) => t.call[o] = u.call[o]
    BY <1>7, <1>9, <2>1
  <2>4. Base(t) /\ Linked(t) = Linked(u)
    BY <1>3, <1>9, <2>2, <2>3, SameBase
  <2>. QED BY <1>9, <2>1, <2>4
<1>11. \A o \in Linked(s) : /\ t.call[o].idx = s.call[o].idx /\ t.call[o].dir = s.call[o].dir
                            /\ t.call[o].need = s.call[o].need
                            /\ t.call[o].state = s.call[o].state
  BY <1>1, <1>5, <1>7, <1>9
<1>12. \A i \in DOMAIN t.queue : TaskFor(t, t.queue[i])
  BY <1>1, <1>10, <1>11, GoodTasks DEF TaskFor
<1>13. t.last \in {None, s.last} /\ t.last \in Linked(t) \cup {None}
  BY <1>10 DEF Good, Points
<1>14. \A o \in Ids : t.chan[o].link <=> (o \in Linked(t) /\ t.call[o].ch)
  BY <1>1, <1>5, <1>6, <1>7, <1>9, <1>10 DEF Good, Points
<1>15. Sound(t)
  BY <1>1, <1>5, <1>6, <1>7, <1>9, <1>10 DEF Good, Sound
<1>16. Told(t)
  BY <1>6, <1>7, <1>9 DEF Good, Told
<1>17. Alive(t)
  BY <1>10, <1>11 DEF Good, Alive
<1>18. /\ Base(t) /\ Linked(t) \subseteq Linked(s)
       /\ \A o \in Linked(t) : t.call[o].idx = s.call[o].idx /\ t.call[o].dir = s.call[o].dir
  BY <1>10, <1>11
<1>19. Good(t)
  BY <1>12, <1>13, <1>14, <1>15, <1>16, <1>17, <1>18, Assembled
<1>20. Stayed(s, t)
  BY <1>10, <1>11, <1>19 DEF Stayed
<1> QED BY <1>4, <1>8, <1>20 DEF u

LEMMA Cleared ==
  ASSUME NEW s, Good(s), NEW id \in Ids, ~s.chan[id].link
  PROVE  Stayed(s, [s EXCEPT !.chan[id] = NoChan])
<1> DEFINE chan == [s.chan EXCEPT ![id] = NoChan]
           t == [s EXCEPT !.chan = chan]
<1>1. s \in Driver /\ Linked(s) \subseteq Ids /\ Base(s) /\ s.chan \in [Ids -> Chan]
  BY GoodTasks DEF Good, Shape, Base, Driver
<1>2. NoChan \in Chan /\ ~NoChan.up /\ ~NoChan.link /\ NoChan.fd0 = "none"
  BY DEF NoChan, Chan
<1>3. chan \in [Ids -> Chan] /\ chan[id] = NoChan /\ \A o \in Ids : o # id => chan[o] = s.chan[o]
  BY <1>1, <1>2
<1>4. [s EXCEPT !.chan[id] = NoChan] = t
  BY <1>1
<1> HIDE DEF chan
<1>5. /\ t \in Driver /\ t.call = s.call /\ t.chan = chan /\ t.chans = s.chans
      /\ t.chansno = s.chansno /\ t.chan_count = s.chan_count /\ t.last = s.last
      /\ t.queue = s.queue
  BY <1>1, <1>3 DEF Driver
<1> HIDE DEF t
<1>6. Base(t) /\ Linked(t) = Linked(s)
  BY <1>1, <1>5, SameBase
<1>7. ~s.call[id].act /\ ~(id \in Linked(s) /\ s.call[id].ch) /\ ~s.call[id].master
  <2>1. ~(id \in Linked(s) /\ s.call[id].ch)
    BY DEF Good, Points
  <2>2. id \notin Linked(s) => ~s.call[id].ch
    BY DEF Good, Shape, NoCpvt
  <2>. QED BY <2>1, <2>2 DEF Good, Sound
<1>8. \A i \in DOMAIN t.queue : TaskFor(t, t.queue[i])
  BY <1>5, <1>6, GoodTasks DEF TaskFor
<1>9. t.last \in {None, s.last} /\ t.last \in Linked(t) \cup {None}
  BY <1>5, <1>6 DEF Good, Points
<1>10. \A o \in Ids : t.chan[o].link <=> (o \in Linked(t) /\ t.call[o].ch)
  BY <1>2, <1>3, <1>5, <1>6, <1>7 DEF Good, Points
<1>11. Sound(t)
  BY <1>1, <1>2, <1>3, <1>5, <1>6, <1>7 DEF Good, Sound
<1>12. Told(t)
  BY <1>2, <1>3, <1>5 DEF Good, Told
<1>13. Alive(t)
  BY <1>5, <1>6 DEF Good, Alive
<1>14. Linked(t) \subseteq Linked(s) /\ Base(t)
       /\ \A o \in Linked(t) : t.call[o].idx = s.call[o].idx /\ t.call[o].dir = s.call[o].dir
  BY <1>5, <1>6
<1>15. Good(t)
  BY <1>8, <1>9, <1>10, <1>11, <1>12, <1>13, <1>14, Assembled
<1> QED BY <1>4, <1>5, <1>6, <1>15 DEF Stayed

LEMMA StayedStory ==
  ASSUME NEW s, NEW t, Stayed(s, t)
  PROVE  Held(t) = Held(s) /\ Taken(t) = Taken(s)
<1>1. Incoming(t) = Incoming(s) /\ Incoming(s) \subseteq Linked(s)
  BY DEF Incoming, Stayed
<1>2. Held(t) = Held(s)
  BY <1>1 DEF Held, Stayed
<1>3. Taken(t) = Taken(s)
  BY <1>1 DEF Taken, Stayed
<1> QED BY <1>2, <1>3

LEMMA TakenHeld ==
  ASSUME NEW s
  PROVE  Taken(s) \subseteq Held(s)
BY DEF Taken, Held

(* A call put into another state is one more answered at most, and one     *)
(* that is released is held no more.                                       *)
LEMMA TurnedStory ==
  ASSUME NEW s, Good(s), NEW id \in Linked(s), NEW st \in States, NEW t, Turned(s, t, id, st)
  PROVE  /\ Held(t) \subseteq Held(s)
         /\ st = "released" /\ s.call[id].dir = "in" => s.call[id].idx \notin Held(t)
         /\ \A n \in Taken(t) : \/ n \in Taken(s)
                                \/ /\ s.call[id].dir = "in" /\ n = s.call[id].idx
                                   /\ st \notin Ringing \cup {"released"}
<1>1. Incoming(t) \subseteq Incoming(s)
  BY DEF Turned, Incoming
<1>2. Held(t) \subseteq Held(s)
  BY <1>1 DEF Held, Turned, Incoming
<1>3. ASSUME st = "released", s.call[id].dir = "in", s.call[id].idx \in Held(t) PROVE FALSE
  <2>1. PICK o \in Incoming(t) : t.call[o].idx = s.call[id].idx
    BY <1>3 DEF Held
  <2>2. o \in Incoming(s) /\ s.call[o].idx = s.call[id].idx /\ o # id
    BY <1>1, <1>3, <2>1 DEF Turned, Incoming
  <2>. QED BY <2>2 DEF Good, Single
<1>4. ASSUME NEW n \in Taken(t)
      PROVE  \/ n \in Taken(s)
             \/ /\ s.call[id].dir = "in" /\ n = s.call[id].idx
                /\ st \notin Ringing \cup {"released"}
  <2>1. PICK o \in Incoming(t) : t.call[o].idx = n /\ t.call[o].state \notin Ringing
    BY <1>4 DEF Taken
  <2>2. o \in Incoming(s) /\ s.call[o].idx = n /\ o \in Linked(t) /\ s.call[o].dir = "in"
    BY <1>1, <2>1 DEF Turned, Incoming
  <2>3. CASE o = id
    <3>1. t.call[o].state = st /\ st # "released"
      BY <2>2, <2>3 DEF Turned
    <3>. QED BY <2>1, <2>2, <2>3, <3>1
  <2>4. CASE o # id
    <3>1. t.call[o].state = s.call[o].state
      BY <2>2, <2>4 DEF Turned
    <3>. QED BY <2>1, <2>2, <3>1 DEF Taken
  <2>. QED BY <2>3, <2>4
<1> QED BY <1>2, <1>3, <1>4

(* pvt_find_cpvt returns a call of the list that has the index, if any.    *)
LEMMA FindCall ==
  ASSUME NEW s, s.chans \in Seq(Ids), NEW idx
  PROVE  \/ /\ pvt_find_cpvt(s, idx) = None
            /\ \A id \in Linked(s) : s.call[id].idx # idx
         \/ /\ pvt_find_cpvt(s, idx) \in Linked(s)
            /\ s.call[pvt_find_cpvt(s, idx)].idx = idx
<1> DEFINE hits == {i \in DOMAIN s.chans : s.call[s.chans[i]].idx = idx}
<1>1. pvt_find_cpvt(s, idx)
        = IF hits = {} THEN None ELSE s.chans[CHOOSE i \in hits : \A j \in hits : i <= j]
  BY DEF pvt_find_cpvt
<1>2. Linked(s) = {s.chans[i] : i \in DOMAIN s.chans} /\ DOMAIN s.chans \subseteq Nat
  BY LinkedIds
<1>3. CASE hits = {}
  BY <1>1, <1>2, <1>3
<1>4. CASE hits # {}
  <2>1. \E i \in hits : \A j \in hits : i <= j
    <3>1. hits \subseteq Nat
      BY <1>2
    <3>. QED BY <1>4, <3>1, LeastNumber
  <2> DEFINE i == CHOOSE k \in hits : \A j \in hits : k <= j
  <2>2. i \in hits
    BY <2>1
  <2>. QED BY <1>1, <1>2, <1>4, <2>2
<1> QED BY <1>3, <1>4

(* An index made up is no call's of the list, unless all are taken.        *)
LEMMA PseudoIndex ==
  ASSUME NEW s
  PROVE  /\ pvt_get_pseudo_call_idx(s) \in 0 .. 31
         /\ pvt_get_pseudo_call_idx(s) # 0 =>
              \A id \in Linked(s) : s.call[id].idx # pvt_get_pseudo_call_idx(s)
<1> DEFINE free == (1 .. 31) \ {s.call[id].idx : id \in Linked(s)}
           least == CHOOSE n \in free : \A m \in free : n <= m
<1>1. pvt_get_pseudo_call_idx(s) = IF free = {} THEN 0 ELSE least
  BY DEF pvt_get_pseudo_call_idx
<1>2. ASSUME free # {} PROVE least \in free
  <2>1. free \subseteq Nat
    OBVIOUS
  <2>2. \E n \in free : \A m \in free : n <= m
    BY <1>2, <2>1, LeastNumber
  <2>. QED BY <2>2
<1> HIDE DEF least
<1>3. CASE free = {}
  <2>1. pvt_get_pseudo_call_idx(s) = 0
    BY <1>1, <1>3
  <2>. QED BY <2>1
<1>4. CASE free # {}
  <2>1. pvt_get_pseudo_call_idx(s) = least
    BY <1>1, <1>4
  <2>2. least \in 1 .. 31 /\ least \notin {s.call[id].idx : id \in Linked(s)}
    BY <1>2, <1>4
  <2>3. \A id \in Linked(s) : s.call[id].idx # least
    BY <2>2
  <2>. QED BY <2>1, <2>2, <2>3
<1> QED BY <1>3, <1>4

-----------------------------------------------------------------------------
(* Ending a call, and ending all of them.                                  *)
Ended(s, id) == change_channel_state([s EXCEPT !.call[id].need = FALSE], id, "released")

LEMMA EndOne ==
  ASSUME NEW s, Good(s), NEW id \in Linked(s)
  PROVE  /\ Good(Ended(s, id)) /\ Linked(Ended(s, id)) = Linked(s) \ {id}
         /\ DOMAIN Ended(s, id).queue = DOMAIN s.queue
         /\ \A o \in Linked(Ended(s, id)) : Ended(s, id).call[o].need = s.call[o].need
         /\ Held(Ended(s, id)) \subseteq Held(s)
         /\ Taken(Ended(s, id)) \subseteq Taken(s)
         /\ s.call[id].dir = "in" => s.call[id].idx \notin Held(Ended(s, id))
<1> DEFINE r == [s EXCEPT !.call[id].need = FALSE]
           t == change_channel_state(r, id, "released")
<1>1. /\ Minor(s, r) /\ r.queue = s.queue
      /\ \A o \in Ids : r.call[o].need = IF o = id THEN FALSE ELSE s.call[o].need
  BY NeedMinor
<1> HIDE DEF r
<1>2. Good(r) /\ Linked(r) = Linked(s) /\ Held(r) = Held(s) /\ Taken(r) = Taken(s)
  BY <1>1, MinorGood
<1>3. id \in Ids /\ Linked(s) \subseteq Ids
  BY GoodTasks
<1>4. r.call[id].dir = s.call[id].dir /\ r.call[id].idx = s.call[id].idx
  BY <1>1, <1>3 DEF Minor, Alike
<1>5. Turned(r, t, id, "released")
  <2>1. "released" \in States
    BY DEF States
  <2>. QED BY <1>2, <2>1, ChangeState
<1> HIDE DEF t
<1>6. /\ Held(t) \subseteq Held(r) /\ \A n \in Taken(t) : n \in Taken(r)
      /\ r.call[id].dir = "in" => r.call[id].idx \notin Held(t)
  <2>1. "released" \in States
    BY DEF States
  <2>. QED BY <1>2, <1>5, <2>1, TurnedStory
<1>7. /\ Good(t) /\ Linked(t) = Linked(s) \ {id} /\ DOMAIN t.queue = DOMAIN s.queue
      /\ \A o \in Linked(t) : t.call[o].need = s.call[o].need
  BY <1>1, <1>2, <1>3, <1>5 DEF Turned
<1> QED BY <1>2, <1>4, <1>6, <1>7 DEF Ended, r, t

LEMMA EndAll ==
  ASSUME NEW s, Good(s)
  PROVE  Good(Released(s)) /\ Linked(Released(s)) = {}
<1> DEFINE N == Len(s.chans)
           Body(g) == [n \in 0 .. N |->
                         IF n = 0 THEN s
                         ELSE change_channel_state([g[n - 1] EXCEPT !.call[s.chans[n]].need = FALSE],
                                                   s.chans[n], "released")]
           after == CHOOSE g : g = Body(g)
           Rest(n) == {s.chans[k] : k \in n + 1 .. N}
           S == [n \in 0 .. N |-> {x \in Driver : Good(x) /\ Linked(x) = Rest(n)}]
           F == [n \in 1 .. N |-> [x \in S[n - 1] |-> Ended(x, s.chans[n])]]
<1>1. /\ s \in Driver /\ s.chans \in Seq(Ids) /\ N \in Nat
      /\ \A i, j \in 1 .. N : s.chans[i] = s.chans[j] => i = j
      /\ \A i \in 1 .. N : s.chans[i] \in Ids
  BY DEF Good, Shape, Driver
<1>2. Released(s) = after[N]
  BY DEF Released
<1>3. \A n \in 1 .. N : \A x \in S[n - 1] : Ended(x, s.chans[n]) \in S[n]
  <2> SUFFICES ASSUME NEW n \in 1 .. N, NEW x \in S[n - 1]
               PROVE  Ended(x, s.chans[n]) \in S[n]
    OBVIOUS
  <2> DEFINE t == Ended(x, s.chans[n])
  <2>1. /\ n - 1 \in 0 .. N /\ n \in 0 .. N /\ (n - 1) + 1 = n
        /\ n .. N = {n} \cup (n + 1 .. N)
    BY <1>1
  <2>2. Good(x) /\ Linked(x) = Rest(n - 1)
    BY <2>1
  <2>3. s.chans[n] \in Rest(n - 1) /\ Rest(n - 1) \ {s.chans[n]} = Rest(n)
    <3>1. Rest(n - 1) = {s.chans[k] : k \in n .. N}
      BY <2>1
    <3>2. s.chans[n] \notin Rest(n)
      BY <1>1
    <3>. QED BY <2>1, <3>1, <3>2
  <2> HIDE DEF Rest
  <2>4. Good(t) /\ Linked(t) = Rest(n)
    <3> DEFINE id == s.chans[n]
    <3>1. Good(x) /\ id \in Linked(x) /\ Linked(x) \ {id} = Rest(n)
      BY <2>2, <2>3
    <3> HIDE DEF id
    <3>. QED BY <3>1, EndOne DEF id
  <2> HIDE DEF t
  <2>5. t \in Driver
    BY <2>4 DEF Good, Shape
  <2>6. t \in S[n]
    BY <2>1, <2>4, <2>5
  <2>. QED BY <2>6 DEF t
<1>4. s \in S[0]
  <2>1. Linked(s) = Rest(0)
    BY <1>1, LinkedIds
  <2>. QED BY <1>1, <2>1
<1> HIDE DEF Rest
<1>5. \A n \in 1 .. N : \A x \in S[n - 1] : F[n][x] = Ended(x, s.chans[n])
  OBVIOUS
<1>6. S \in [0 .. N -> SUBSET Driver]
  OBVIOUS
<1> HIDE DEF S, F, N
<1>7. PICK h \in [0 .. N -> Driver] : Way(N, S, s, F, h)
  <2>1. Passes(N, S, F)
    BY <1>3, <1>5 DEF Passes
  <2>. QED BY <1>1, <1>4, <1>6, <2>1, Iteration
<1>8. h = Body(h)
  <2>1. ASSUME NEW n \in 0 .. N
        PROVE  h[n] = IF n = 0 THEN s
                      ELSE change_channel_state([h[n - 1] EXCEPT !.call[s.chans[n]].need = FALSE],
                                                s.chans[n], "released")
    <3>1. CASE n = 0
      BY <1>7, <3>1 DEF Way
    <3>2. CASE n # 0
      <4>1. n \in 1 .. N
        BY <1>1, <3>2
      <4>2. h[n] = Ended(h[n - 1], s.chans[n])
        BY <1>5, <1>7, <4>1 DEF Way
      <4>. QED BY <3>2, <4>2 DEF Ended
    <3>. QED BY <3>1, <3>2
  <2>. QED BY <2>1
<1>9. after = Body(after)
  BY <1>8
<1> HIDE DEF after
<1>10. after[0] = s /\ \A n \in 1 .. N : after[n] = Ended(after[n - 1], s.chans[n])
  <2>1. \A n \in 0 .. N : after[n] = Body(after)[n]
    BY <1>9
  <2>2. \A n \in 1 .. N : n \in 0 .. N /\ n # 0
    BY <1>1
  <2>3. after[0] = s
    <3>1. 0 \in 0 .. N
      BY <1>1
    <3>2. after[0] = Body(after)[0]
      BY <2>1, <3>1
    <3>. QED BY <3>1, <3>2, Zenon
  <2>4. ASSUME NEW n \in 1 .. N PROVE after[n] = Ended(after[n - 1], s.chans[n])
    <3>1. after[n] = change_channel_state([after[n - 1] EXCEPT !.call[s.chans[n]].need = FALSE],
                                          s.chans[n], "released")
      BY <2>1, <2>2
    <3>. QED BY <3>1 DEF Ended
  <2>. QED BY <2>3, <2>4
<1> HIDE DEF Body
<1>11. \A n \in 0 .. N : after[n] \in S[n]
  <2>1. \A n \in 1 .. N : after[n - 1] \in S[n - 1] => after[n] \in S[n]
    BY <1>3, <1>10
  <2>2. after[0] \in S[0]
    BY <1>4, <1>10
  <2>. QED BY <1>1, <2>1, <2>2, Iterates
<1>12. N \in 0 .. N /\ Rest(N) = {}
  BY <1>1 DEF Rest
<1>13. Good(after[N]) /\ Linked(after[N]) = Rest(N)
  BY <1>11, <1>12 DEF S
<1> QED BY <1>2, <1>12, <1>13 DEF N

(* A record that differs in flags and pointers, which are none or as they  *)
(* were, and whose queue is as it was or empty.                            *)
LEMMA SameCalls ==
  ASSUME NEW s, Good(s), NEW t, t \in Driver,
         t.chans = s.chans, t.call = s.call, t.chan = s.chan, t.chansno = s.chansno,
         t.chan_count = s.chan_count, t.last \in {None, s.last}, t.queue \in {<<>>, s.queue}
  PROVE  Minor(s, t) /\ (t.queue = s.queue => Kept(s, t))
<1>1. \A i \in DOMAIN t.queue : TaskFor(s, t.queue[i])
  BY GoodTasks
<1> QED BY <1>1 DEF Minor, Alike, Kept

LEMMA NotEmptied ==
  ASSUME NEW s, s \in Driver, NEW t, t \in Driver, DOMAIN t.queue = DOMAIN s.queue, s.queue # <<>>
  PROVE  t.queue # <<>>
<1>1. s.queue \in Seq(Task) /\ t.queue \in Seq(Task)
  BY DEF Driver
<1>2. Len(s.queue) # 0 /\ DOMAIN s.queue = 1 .. Len(s.queue) /\ Len(s.queue) \in Nat
  BY <1>1, EmptySeq
<1>3. 1 \in DOMAIN t.queue
  BY <1>2
<1> QED BY <1>1, <1>3

(* One step of a handler: everything stays right, no duty is lost, and of  *)
(* the incoming calls no more are held and answered than these.            *)
Heard(s, t, held, taken) ==
  /\ Good(t) /\ Kept(s, t)
  /\ Held(t) \subseteq Held(s) \cup held
  /\ Taken(t) \subseteq Taken(s) \cup taken

LEMMA MinorHeard ==
  ASSUME NEW s, Good(s), NEW t, Minor(s, t), Kept(s, t)
  PROVE  Heard(s, t, {}, {})
BY MinorGood DEF Heard

LEMMA HeardTwice ==
  ASSUME NEW s, NEW t, NEW u, NEW A, NEW B, NEW C, NEW D, Heard(s, t, A, B), Heard(t, u, C, D)
  PROVE  Heard(s, u, A \cup C, B \cup D)
BY KeptTwice DEF Heard

(* Every call but the one that ended keeps its duty. *)
LEMMA TurnedKept ==
  ASSUME NEW s, Good(s), NEW id \in Linked(s), NEW st \in States \ {"released"}, NEW t,
         Turned(s, t, id, st)
  PROVE  Kept(s, t)
<1>1. s \in Driver /\ t \in Driver /\ Linked(t) = Linked(s)
  BY DEF Turned, Good, Shape
<1>2. s.queue # <<>> => t.queue # <<>>
  BY <1>1, NotEmptied DEF Turned
<1>3. ASSUME NEW o \in Ids, s.call[o].need PROVE t.call[o].need
  <2>1. CASE o \in Linked(s)
    BY <1>1, <1>3, <2>1 DEF Turned
  <2>2. CASE o \notin Linked(s)
    <3>1. s.call[o] = NoCpvt /\ t.call[o] = NoCpvt
      BY <1>1, <2>2 DEF Turned, Good, Shape
    <3>. QED BY <1>3, <3>1
  <2>. QED BY <2>1, <2>2
<1> QED BY <1>2, <1>3 DEF Kept

LEMMA StartPbx ==
  ASSUME NEW s, Good(s), NEW idx \in Idx, NEW state \in Ringing, NEW how,
         \A o \in Linked(s) : s.call[o].idx # idx
  PROVE  Heard(s, start_pbx(s, idx, state, how), {idx}, {})
<1> DEFINE id == CHOOSE c \in Unused(s) : TRUE
           j == new_channel(s, id, idx, "in", state)
           t == [j EXCEPT !.call[id].need = TRUE]
           h == at_enque_hangup(s, sys, idx)
<1>1. start_pbx(s, idx, state, how) =
        CASE how = "nopbx" -> s
          [] how = "nochan" \/ Unused(s) = {} -> h
          [] OTHER -> t
  BY DEF start_pbx
<1>2. idx \in 0 .. 31
  BY BoundsAssumption DEF Idx
<1>3. Heard(s, s, {idx}, {})
  BY DEF Heard, Kept
<1>4. Heard(s, h, {idx}, {})
  <2>1. Minor(s, h) /\ Kept(s, h)
    BY <1>2, HangupMinor
  <2> HIDE DEF h
  <2>. QED BY <2>1, MinorHeard DEF Heard
<1>5. ASSUME Unused(s) # {} PROVE Heard(s, t, {idx}, {})
  <2>1. id \in Unused(s)
    BY <1>5
  <2> HIDE DEF id
  <2>2. Joined(s, j, id, idx, "in", state)
    BY <1>2, <2>1, NewChannel DEF Ringing
  <2> HIDE DEF j
  <2>3. Good(j) /\ id \in Linked(j)
    BY <2>2 DEF Joined
  <2>4. /\ Minor(j, t) /\ t.queue = j.queue
        /\ \A o \in Ids : t.call[o].need = IF o = id THEN TRUE ELSE j.call[o].need
    BY <2>3, NeedMinor
  <2> HIDE DEF t
  <2>5. Kept(s, t)
    BY <2>2, <2>4 DEF Kept, Joined
  <2>6. Incoming(j) = Incoming(s) \cup {id}
    BY <2>2 DEF Incoming, Joined
  <2>7. Held(j) \subseteq Held(s) \cup {idx}
    BY <2>2, <2>6 DEF Held, Joined, Incoming
  <2>8. Taken(j) \subseteq Taken(s)
    BY <2>2, <2>6 DEF Taken, Joined, Incoming
  <2>9. Good(t) /\ Held(t) = Held(j) /\ Taken(t) = Taken(j)
    BY <2>3, <2>4, MinorGood
  <2>. QED BY <2>5, <2>7, <2>8, <2>9 DEF Heard
<1> HIDE DEF h, t
<1> QED BY <1>1, <1>3, <1>4, <1>5

(* the indices a line of +CLCC makes the driver hold, and have answered *)
HeldOn(l) == IF l.dir = "in" THEN {l.idx} ELSE {}
TakenOn(l) == IF l.dir = "in" /\ l.st \notin Ringing THEN {l.idx} ELSE {}

(* A line puts the call it is about into the state it tells, or starts a   *)
(* call for it.                                                            *)
LEMMA ClccLineHeard ==
  ASSUME NEW s, Good(s), NEW l \in Line, NEW how,
         l.dir = "in" /\ l.st \in Ringing => l.idx \notin Taken(s)
  PROVE  Heard(s, ClccLine(s, l, how), HeldOn(l), TakenOn(l))
<1> DEFINE id == pvt_find_cpvt(s, l.idx)
           new == l.dir = "in" /\ l.st \in {"incoming", "waiting"}
           a == change_channel_state(s, id, l.st)
           b == start_pbx(s, l.idx, l.st, how)
           s1 == CASE id # None /\ s.call[id].dir = l.dir -> a
                   [] id = None /\ new -> b
                   [] OTHER -> s
           t1 == [s1 EXCEPT !.cwaiting = TRUE, !.ring = FALSE, !.dialing = FALSE]
           t2 == [s1 EXCEPT !.dialing = TRUE, !.ring = FALSE, !.cwaiting = FALSE]
           t3 == [s1 EXCEPT !.ring = TRUE, !.dialing = FALSE, !.cwaiting = FALSE]
           t == CASE l.st = "waiting" -> t1 [] l.st \in {"dialing", "alerting"} -> t2
                  [] l.st = "incoming" -> t3 [] OTHER -> s1
<1>1. ClccLine(s, l, how) = t
  BY Zenon DEF ClccLine
<1>2. /\ l.idx \in Idx /\ l.dir \in Dirs /\ l.st \in States \ {"released", "init"}
      /\ l.st \in Ringing => l.dir = "in"
  BY DEF Line, Dirs, InStates, OutStates, States, Ringing
<1>3. \/ id = None /\ \A o \in Linked(s) : s.call[o].idx # l.idx
      \/ id \in Linked(s) /\ s.call[id].idx = l.idx
  <2>1. s.chans \in Seq(Ids)
    BY DEF Good, Shape, Driver
  <2>. QED BY <2>1, FindCall
<1> HIDE DEF id
<1>4. ASSUME id # None, s.call[id].dir = l.dir PROVE Heard(s, a, HeldOn(l), TakenOn(l))
  <2>1. id \in Linked(s) /\ s.call[id].idx = l.idx
    BY <1>3, <1>4
  <2>2. s.call[id].act => l.st \in {"active", "dialing", "alerting", "onhold", "released"}
    <3>1. ASSUME s.call[id].act, l.st \in Ringing PROVE FALSE
      <4>1. s.call[id].state \notin Ringing
        BY <2>1, <3>1, GoodTasks DEF Good, Sound, Ringing
      <4>2. l.idx \in Taken(s)
        BY <1>2, <1>4, <2>1, <3>1, <4>1 DEF Taken, Incoming
      <4>. QED BY <1>2, <3>1, <4>2
    <3>. QED BY <1>2, <3>1 DEF States, Ringing
  <2>3. Turned(s, a, id, l.st)
    BY <1>2, <2>1, <2>2, ChangeState
  <2> HIDE DEF a
  <2>4. Kept(s, a)
    BY <1>2, <2>1, <2>3, TurnedKept
  <2>5. /\ Held(a) \subseteq Held(s)
        /\ \A n \in Taken(a) : \/ n \in Taken(s)
                               \/ /\ s.call[id].dir = "in" /\ n = s.call[id].idx
                                  /\ l.st \notin Ringing \cup {"released"}
    BY <1>2, <2>1, <2>3, TurnedStory
  <2>6. Good(a)
    BY <2>3 DEF Turned
  <2>. QED BY <1>4, <2>1, <2>4, <2>5, <2>6 DEF Heard, TakenOn
<1>5. ASSUME id = None, new PROVE Heard(s, b, HeldOn(l), TakenOn(l))
  <2>1. \A o \in Linked(s) : s.call[o].idx # l.idx
    BY <1>3, <1>5, GoodTasks
  <2>2. l.st \in Ringing
    BY <1>5 DEF Ringing
  <2>3. Heard(s, b, {l.idx}, {})
    BY <1>2, <2>1, <2>2, StartPbx
  <2> HIDE DEF b
  <2>. QED BY <1>5, <2>3 DEF Heard, HeldOn
<1> HIDE DEF a, b
<1>6. Heard(s, s1, HeldOn(l), TakenOn(l))
  <2>1. Heard(s, s, HeldOn(l), TakenOn(l))
    BY DEF Heard, Kept
  <2>. QED BY <1>4, <1>5, <2>1
<1> HIDE DEF s1
<1>7. Good(s1) /\ s1 \in Driver
  BY <1>6 DEF Heard, Good, Shape
<1>8. ASSUME NEW u \in {t1, t2, t3, s1} PROVE Heard(s1, u, {}, {})
  <2>1. /\ t1 \in Driver /\ t1.chans = s1.chans /\ t1.call = s1.call /\ t1.chan = s1.chan
        /\ t1.chansno = s1.chansno /\ t1.chan_count = s1.chan_count /\ t1.last = s1.last
        /\ t1.queue = s1.queue
    BY <1>7 DEF Driver
  <2>2. /\ t2 \in Driver /\ t2.chans = s1.chans /\ t2.call = s1.call /\ t2.chan = s1.chan
        /\ t2.chansno = s1.chansno /\ t2.chan_count = s1.chan_count /\ t2.last = s1.last
        /\ t2.queue = s1.queue
    BY <1>7 DEF Driver
  <2>3. /\ t3 \in Driver /\ t3.chans = s1.chans /\ t3.call = s1.call /\ t3.chan = s1.chan
        /\ t3.chansno = s1.chansno /\ t3.chan_count = s1.chan_count /\ t3.last = s1.last
        /\ t3.queue = s1.queue
    BY <1>7 DEF Driver
  <2> HIDE DEF t1, t2, t3
  <2>4. /\ u \in Driver /\ u.chans = s1.chans /\ u.call = s1.call /\ u.chan = s1.chan
        /\ u.chansno = s1.chansno /\ u.chan_count = s1.chan_count /\ u.last = s1.last
        /\ u.queue = s1.queue
    BY <1>7, <2>1, <2>2, <2>3
  <2>. QED BY <1>7, <2>4, SameCalls, MinorHeard
<1>9. Heard(s1, t, {}, {})
  <2> HIDE DEF t1, t2, t3
  <2>1. t \in {t1, t2, t3, s1}
    OBVIOUS
  <2> HIDE DEF t
  <2>. QED BY <1>8, <2>1
<1> HIDE DEF t
<1> QED BY <1>1, <1>6, <1>9, KeptTwice DEF Heard

(* What the lines of a list make the driver hold and have answered is what *)
(* the list says, when it calls none ringing that was answered.            *)
LEMMA AllLinesHeard ==
  ASSUME NEW s, Good(s), NEW m \in Message, m.type = "CLCC", NEW how, RingBy(m) \cap Taken(s) = {}
  PROVE  Heard(s, AllLines(s, m.lines, how), HeldBy(m), TakenBy(m))
<1> DEFINE N == Len(m.lines)
           Body(g) == [n \in 0 .. N |-> IF n = 0 THEN s ELSE ClccLine(g[n - 1], m.lines[n], how)]
           after == CHOOSE g : g = Body(g)
           Now == {x \in Driver : Heard(s, x, HeldBy(m), TakenBy(m))}
           S == [n \in 0 .. N |-> Now]
           F == [n \in 1 .. N |-> [x \in Now |-> ClccLine(x, m.lines[n], how)]]
<1>1. /\ m.lines \in Seq(Line) /\ N \in Nat /\ \A n \in 1 .. N : m.lines[n] \in Line
      /\ \A i, j \in 1 .. N : m.lines[i].idx = m.lines[j].idx => m.lines[i] = m.lines[j]
  BY DEF Message
<1>2. AllLines(s, m.lines, how) = after[N]
  BY DEF AllLines
<1>3. \A n \in 1 .. N : \A x \in Now : ClccLine(x, m.lines[n], how) \in Now
  <2> SUFFICES ASSUME NEW n \in 1 .. N, NEW x \in Now
               PROVE  ClccLine(x, m.lines[n], how) \in Now
    OBVIOUS
  <2> DEFINE l == m.lines[n]
             t == ClccLine(x, l, how)
  <2>1. l \in Line /\ Good(x) /\ Heard(s, x, HeldBy(m), TakenBy(m))
    BY <1>1 DEF Heard
  <2>2. l.dir = "in" => l \in LinesOf(m)
    BY <1>1 DEF LinesOf
  <2>3. HeldOn(l) \subseteq HeldBy(m) /\ TakenOn(l) \subseteq TakenBy(m)
    BY <2>2 DEF HeldOn, TakenOn, HeldBy, TakenBy
  <2>4. ASSUME l.dir = "in", l.st \in Ringing PROVE l.idx \notin Taken(x)
    <3>1. l.idx \in RingBy(m)
      BY <2>2, <2>4 DEF RingBy
    <3>2. ASSUME l.idx \in TakenBy(m) PROVE FALSE
      <4>1. PICK k \in LinesOf(m) : k.st \notin Ringing /\ k.idx = l.idx
        BY <3>2 DEF TakenBy
      <4>2. PICK i \in 1 .. N : k = m.lines[i]
        BY <4>1 DEF LinesOf
      <4>3. k = l
        BY <1>1, <4>1, <4>2
      <4>. QED BY <2>4, <4>1, <4>3
    <3>. QED BY <2>1, <3>1, <3>2 DEF Heard
  <2> HIDE DEF l
  <2>5. Heard(x, t, HeldOn(l), TakenOn(l))
    BY <2>1, <2>4, ClccLineHeard
  <2> HIDE DEF t
  <2>6. Heard(s, t, HeldBy(m), TakenBy(m))
    BY <2>1, <2>3, <2>5, KeptTwice DEF Heard
  <2>7. t \in Driver
    BY <2>5 DEF Heard, Good, Shape
  <2>. QED BY <2>6, <2>7 DEF t, l
<1>4. s \in Now
  BY DEF Heard, Kept, Good, Shape
<1> HIDE DEF Now
<1>5. \A n \in 1 .. N : \A x \in S[n - 1] : F[n][x] = ClccLine(x, m.lines[n], how)
  BY <1>1
<1>6. /\ S \in [0 .. N -> SUBSET Driver] /\ \A n \in 0 .. N : S[n] = Now
      /\ \A n \in 1 .. N : S[n - 1] = Now /\ S[n] = Now
  BY <1>1 DEF Now
<1> HIDE DEF S, F, N
<1>7. PICK h \in [0 .. N -> Driver] : Way(N, S, s, F, h)
  <2>1. Passes(N, S, F)
    BY <1>3, <1>5, <1>6 DEF Passes
  <2>2. s \in S[0]
    BY <1>1, <1>4, <1>6
  <2>. QED BY <1>1, <1>6, <2>1, <2>2, Iteration
<1>8. h = Body(h)
  <2>1. ASSUME NEW n \in 0 .. N
        PROVE  h[n] = IF n = 0 THEN s ELSE ClccLine(h[n - 1], m.lines[n], how)
    <3>1. CASE n = 0
      BY <1>7, <3>1 DEF Way
    <3>2. CASE n # 0
      <4>1. n \in 1 .. N
        BY <1>1, <3>2
      <4>2. h[n] = ClccLine(h[n - 1], m.lines[n], how)
        BY <1>5, <1>7, <4>1 DEF Way
      <4>. QED BY <3>2, <4>2
    <3>. QED BY <3>1, <3>2
  <2>. QED BY <2>1
<1>9. after = Body(after)
  BY <1>8
<1> HIDE DEF after
<1>10. after[0] = s /\ \A n \in 1 .. N : after[n] = ClccLine(after[n - 1], m.lines[n], how)
  <2>1. \A n \in 0 .. N : after[n] = Body(after)[n]
    BY <1>9
  <2>2. \A n \in 1 .. N : n \in 0 .. N /\ n # 0
    BY <1>1
  <2>3. 0 \in 0 .. N
    BY <1>1
  <2>4. after[0] = s
    BY <2>1, <2>3
  <2>. QED BY <2>1, <2>2, <2>4
<1> HIDE DEF Body
<1>11. \A n \in 0 .. N : after[n] \in S[n]
  <2>1. \A n \in 1 .. N : after[n - 1] \in S[n - 1] => after[n] \in S[n]
    BY <1>3, <1>6, <1>10
  <2>2. after[0] \in S[0]
    BY <1>1, <1>4, <1>6, <1>10
  <2>. QED BY <1>1, <2>1, <2>2, Iterates
<1>12. after[N] \in Now
  BY <1>1, <1>6, <1>11
<1> QED BY <1>2, <1>12 DEF Now, N

-----------------------------------------------------------------------------
(* What a step does to the driver: everything stays right, of the incoming *)
(* calls none more are held and answered than these, and a duty to hang up *)
(* that is given up is in the queue.                                       *)
Dutiful(s, t) ==
  \A id \in Ids : s.call[id].need /\ ~t.call[id].need /\ id \in Linked(t)
    => \E i \in DOMAIN t.queue : /\ t.queue[i].cpvt = id
                                 /\ Head(t.queue[i].cmds).cmd \in Hangups
Does(s, t, held, taken) ==
  /\ Good(t) /\ Dutiful(s, t)
  /\ s.queue # <<>> => t.queue # <<>>
  /\ Held(t) \subseteq held /\ Taken(t) \subseteq taken

LEMMA HeardDoes ==
  ASSUME NEW s, NEW t, NEW A, NEW B, Heard(s, t, A, B)
  PROVE  Does(s, t, Held(s) \cup A, Taken(s) \cup B)
BY DEF Heard, Does, Dutiful, Kept

(* Asterisk has dialled or answered the channel. *)
LEMMA UsedMinor ==
  ASSUME NEW s, Good(s), NEW id \in Linked(s)
  PROVE  /\ Minor(s, [s EXCEPT !.chan[id].used = TRUE])
         /\ Kept(s, [s EXCEPT !.chan[id].used = TRUE])
<1> DEFINE h == [s.chan[id] EXCEPT !.used = TRUE]
           chan == [s.chan EXCEPT ![id] = h]
           t == [s EXCEPT !.chan = chan]
<1>1. s \in Driver /\ s.chan \in [Ids -> Chan] /\ id \in Ids
  BY GoodTasks DEF Good, Shape, Driver
<1>2. /\ h \in Chan /\ h.up = s.chan[id].up /\ h.link = s.chan[id].link
      /\ h.fd0 = s.chan[id].fd0 /\ h.hup = s.chan[id].hup
  BY <1>1 DEF Chan
<1>3. [s EXCEPT !.chan[id].used = TRUE] = t
  BY <1>1
<1> HIDE DEF h
<1>4. chan \in [Ids -> Chan] /\ chan[id] = h /\ \A o \in Ids : o # id => chan[o] = s.chan[o]
  BY <1>1, <1>2
<1> HIDE DEF chan
<1>5. /\ t \in Driver /\ t.chans = s.chans /\ t.call = s.call /\ t.chan = chan
      /\ t.chansno = s.chansno /\ t.chan_count = s.chan_count /\ t.last = s.last
      /\ t.queue = s.queue
  BY <1>1, <1>4 DEF Driver
<1> HIDE DEF t
<1>6. \A o \in Ids : /\ t.chan[o].up = s.chan[o].up /\ t.chan[o].link = s.chan[o].link
                     /\ t.chan[o].fd0 = s.chan[o].fd0 /\ t.chan[o].hup = s.chan[o].hup
  BY <1>2, <1>4, <1>5
<1>7. Minor(s, t)
  BY <1>5, <1>6, GoodTasks DEF Minor, Alike
<1> QED BY <1>3, <1>5, <1>7 DEF Kept

(* The options of the dial string are noted. *)
LEMMA OptsMinor ==
  ASSUME NEW s, Good(s), NEW id \in Linked(s), NEW opts \in Opts
  PROVE  /\ Minor(s, [s EXCEPT !.call[id].opts = opts])
         /\ Kept(s, [s EXCEPT !.call[id].opts = opts])
<1> DEFINE c == [s.call[id] EXCEPT !.opts = opts]
           call == [s.call EXCEPT ![id] = c]
           t == [s EXCEPT !.call = call]
<1>1. s \in Driver /\ s.call \in [Ids -> Cpvt] /\ id \in Ids
  BY GoodTasks DEF Good, Shape, Driver
<1>2. c \in Cpvt /\ Alike(s.call[id], c) /\ c.need = s.call[id].need
  BY <1>1 DEF Cpvt, Alike
<1>3. [s EXCEPT !.call[id].opts = opts] = t
  BY <1>1
<1> HIDE DEF c
<1>4. call \in [Ids -> Cpvt] /\ call[id] = c /\ \A o \in Ids : o # id => call[o] = s.call[o]
  BY <1>1, <1>2
<1> HIDE DEF call
<1>5. /\ t \in Driver /\ t.chans = s.chans /\ t.call = call /\ t.chan = s.chan
      /\ t.chansno = s.chansno /\ t.chan_count = s.chan_count /\ t.last = s.last
      /\ t.queue = s.queue
  BY <1>1, <1>4 DEF Driver
<1> HIDE DEF t
<1>6. \A o \in Ids : /\ Alike(s.call[o], t.call[o]) /\ t.call[o].need = s.call[o].need
                     /\ o \notin Linked(s) => t.call[o] = s.call[o]
  <2> SUFFICES ASSUME NEW o \in Ids
               PROVE  /\ Alike(s.call[o], t.call[o]) /\ t.call[o].need = s.call[o].need
                      /\ o \notin Linked(s) => t.call[o] = s.call[o]
    OBVIOUS
  <2>1. CASE o = id
    BY <1>2, <1>4, <1>5, <2>1
  <2>2. CASE o # id
    BY <1>4, <1>5, <2>2 DEF Alike
  <2>. QED BY <2>1, <2>2
<1>7. Minor(s, t)
  BY <1>5, <1>6, GoodTasks DEF Minor
<1> QED BY <1>3, <1>5, <1>6, <1>7 DEF Kept

(* at_queue_handle_result takes the command off its task, or the task off  *)
(* the queue.                                                              *)
LEMMA AdvanceMinor ==
  ASSUME NEW s, Good(s), s.queue # <<>>, NEW res
  PROVE  Minor(s, Advance(s, res)) /\ Advance(s, res).call = s.call
<1> DEFINE h == Head(s.queue)
           e == [h EXCEPT !.cmds = Tail(@)]
           short == Len(h.cmds) = 1 \/ (res = "ERROR" /\ ~Ignorable(Head(h.cmds)))
           queue == IF short THEN Tail(s.queue) ELSE <<e>> \o Tail(s.queue)
           t == [s EXCEPT !.queue = queue]
<1>1. /\ s \in Driver /\ s.queue \in Seq(Task) /\ h = s.queue[1] /\ 1 \in DOMAIN s.queue
      /\ \A i \in DOMAIN s.queue : TaskFor(s, s.queue[i]) /\ s.queue[i] \in Task
  <2>1. s \in Driver /\ s.queue \in Seq(Task)
    BY DEF Good, Shape, Driver
  <2>2. h = s.queue[1] /\ 1 \in DOMAIN s.queue
    BY <2>1
  <2>. QED BY <2>1, <2>2, GoodTasks
<1>2. h \in Task /\ TaskFor(s, h)
  BY <1>1
<1>3. Advance(s, res) = t
  BY <1>1 DEF Advance, Driver
<1>4. /\ Tail(s.queue) \in Seq(Task)
      /\ \A i \in DOMAIN Tail(s.queue) : TaskFor(s, Tail(s.queue)[i])
  <2>1. /\ Tail(s.queue) \in Seq(Task) /\ Len(s.queue) \in Nat
        /\ \A i \in DOMAIN Tail(s.queue) : i + 1 \in DOMAIN s.queue /\ Tail(s.queue)[i] = s.queue[i + 1]
    BY <1>1
  <2>. QED BY <1>1, <2>1
<1>5. ASSUME ~short PROVE e \in Task /\ TaskFor(s, e)
  <2>1. /\ h.cmds \in Seq(Command) /\ h.cmds # <<>> /\ Len(h.cmds) # 1
        /\ h.cpvt \in Ids \cup {sys}
    BY <1>2, <1>5 DEF Task
  <2>2. /\ Tail(h.cmds) \in Seq(Command) /\ Tail(h.cmds) # <<>> /\ Len(h.cmds) \in Nat
        /\ \A k \in DOMAIN Tail(h.cmds) : k + 1 \in DOMAIN h.cmds /\ Tail(h.cmds)[k] = h.cmds[k + 1]
    <3> DEFINE q == h.cmds
    <3>1. q \in Seq(Command) /\ q # <<>> /\ Len(q) # 1
      BY <2>1
    <3> HIDE DEF q
    <3>2. Tail(q) \in Seq(Command) /\ Len(q) \in Nat /\ Len(q) # 0 /\ Len(Tail(q)) = Len(q) - 1
      BY <3>1, EmptySeq
    <3>3. ASSUME Tail(q) = <<>> PROVE FALSE
      <4>1. Len(<<>>) = 0
        OBVIOUS
      <4>2. Len(Tail(q)) = 0
        BY <3>3, <4>1
      <4>. QED BY <3>1, <3>2, <4>2
    <3>4. \A k \in DOMAIN Tail(q) : k + 1 \in DOMAIN q /\ Tail(q)[k] = q[k + 1]
      BY <3>1, <3>2
    <3>. QED BY <3>2, <3>3, <3>4 DEF q
  <2>3. e \in Task /\ e.cpvt = h.cpvt /\ e.cmds = Tail(h.cmds)
    BY <1>2, <2>2 DEF Task
  <2> HIDE DEF e, h
  <2>. QED BY <1>2, <2>2, <2>3 DEF TaskFor
<1> HIDE DEF e, h
<1>6. queue \in Seq(Task) /\ \A i \in DOMAIN queue : TaskFor(s, queue[i])
  <2>1. CASE short
    BY <1>4, <2>1
  <2>2. CASE ~short
    <3> DEFINE r == Tail(s.queue)
    <3>1. <<e>> \in Seq(Task) /\ r \in Seq(Task) /\ Len(<<e>>) = 1 /\ <<e>>[1] = e
      BY <1>4, <1>5, <2>2
    <3> HIDE DEF r
    <3>2. <<e>> \o r \in Seq(Task) /\ Len(<<e>> \o r) = 1 + Len(r)
          /\ \A i \in 1 .. Len(<<e>> \o r) :
               (<<e>> \o r)[i] = IF i <= 1 THEN <<e>>[i] ELSE r[i - 1]
      BY <3>1, ConcatProperties
    <3>3. ASSUME NEW i \in DOMAIN (<<e>> \o r) PROVE TaskFor(s, (<<e>> \o r)[i])
      <4>1. i \in 1 .. Len(<<e>> \o r) /\ Len(r) \in Nat /\ DOMAIN r = 1 .. Len(r)
        BY <3>1, <3>2
      <4>2. CASE i = 1
        BY <1>5, <2>2, <3>1, <3>2, <4>1, <4>2
      <4>3. CASE i # 1
        <5>1. i - 1 \in DOMAIN r /\ (<<e>> \o r)[i] = r[i - 1]
          BY <3>2, <4>1, <4>3
        <5>. QED BY <1>4, <5>1 DEF r
      <4>. QED BY <4>2, <4>3
    <3>4. queue = <<e>> \o r
      BY <2>2 DEF r
    <3>. QED BY <3>2, <3>3, <3>4
  <2>. QED BY <2>1, <2>2
<1> HIDE DEF queue
<1>7. /\ t \in Driver /\ t.chans = s.chans /\ t.call = s.call /\ t.chan = s.chan
      /\ t.chansno = s.chansno /\ t.chan_count = s.chan_count /\ t.last = s.last
      /\ t.queue = queue
  BY <1>1, <1>6 DEF Driver
<1> HIDE DEF t
<1>8. Minor(s, t)
  BY <1>6, <1>7 DEF Minor, Alike
<1> QED BY <1>3, <1>7, <1>8

(* ^ORIG gives a dialled call its number. *)
LEMMA Renumbered ==
  ASSUME NEW s, Good(s), NEW id \in Linked(s), s.call[id].dir = "out", NEW n \in 0 .. 31,
         n \notin Held(s)
  PROVE  LET t == [s EXCEPT !.call[id].idx = n]
         IN  /\ Good(t) /\ Linked(t) = Linked(s) /\ Kept(s, t)
             /\ t.call[id].dir = "out"
             /\ Held(t) \subseteq Held(s) /\ Taken(t) \subseteq Taken(s)
<1> DEFINE c == [s.call[id] EXCEPT !.idx = n]
           call == [s.call EXCEPT ![id] = c]
           t == [s EXCEPT !.call = call]
<1>1. /\ s \in Driver /\ s.call \in [Ids -> Cpvt] /\ id \in Ids /\ Linked(s) \subseteq Ids
      /\ Base(s)
  BY GoodTasks DEF Good, Shape, Driver, Base
<1>2. /\ c \in Cpvt /\ c.idx = n /\ c.dir = s.call[id].dir /\ c.state = s.call[id].state
      /\ c.ch = s.call[id].ch /\ c.act = s.call[id].act /\ c.master = s.call[id].master
      /\ c.need = s.call[id].need
  BY <1>1 DEF Cpvt
<1>3. [s EXCEPT !.call[id].idx = n] = t
  BY <1>1
<1> HIDE DEF c
<1>4. call \in [Ids -> Cpvt] /\ call[id] = c /\ \A o \in Ids : o # id => call[o] = s.call[o]
  BY <1>1, <1>2
<1> HIDE DEF call
<1>5. /\ t \in Driver /\ t.chans = s.chans /\ t.call = call /\ t.chan = s.chan
      /\ t.chansno = s.chansno /\ t.chan_count = s.chan_count /\ t.last = s.last
      /\ t.queue = s.queue
  BY <1>1, <1>4 DEF Driver
<1> HIDE DEF t
<1>6. \A o \in Ids : /\ t.call[o].dir = s.call[o].dir /\ t.call[o].state = s.call[o].state
                     /\ t.call[o].ch = s.call[o].ch /\ t.call[o].act = s.call[o].act
                     /\ t.call[o].master = s.call[o].master /\ t.call[o].need = s.call[o].need
                     /\ t.call[o].idx = IF o = id THEN n ELSE s.call[o].idx
  <2> SUFFICES ASSUME NEW o \in Ids
               PROVE  /\ t.call[o].dir = s.call[o].dir /\ t.call[o].state = s.call[o].state
                      /\ t.call[o].ch = s.call[o].ch /\ t.call[o].act = s.call[o].act
                      /\ t.call[o].master = s.call[o].master /\ t.call[o].need = s.call[o].need
                      /\ t.call[o].idx = IF o = id THEN n ELSE s.call[o].idx
    OBVIOUS
  <2>1. CASE o = id
    BY <1>2, <1>4, <1>5, <2>1
  <2>2. CASE o # id
    BY <1>4, <1>5, <2>2
  <2>. QED BY <2>1, <2>2
<1>7. Base(t) /\ Linked(t) = Linked(s)
  <2>1. \A o \in Linked(s) : t.call[o].state = s.call[o].state
    BY <1>1, <1>6
  <2>2. \A o \in Ids : o \notin Linked(s) => t.call[o] = s.call[o]
    BY <1>4, <1>5
  <2>. QED BY <1>1, <1>5, <2>1, <2>2, SameBase
<1>8. Points(t)
  BY <1>1, <1>5, <1>6, <1>7 DEF Good, Points
<1>9. Sound(t)
  BY <1>1, <1>5, <1>6, <1>7 DEF Good, Sound
<1>10. Told(t) /\ Alive(t)
  BY <1>1, <1>5, <1>6, <1>7 DEF Good, Told, Alive
<1>11. Dials(t)
  <2>1. t.last # None => t.call[t.last].dir = "out"
    BY <1>1, <1>5, <1>6 DEF Good, Dials, Points
  <2>2. ASSUME NEW i \in DOMAIN t.queue, NEW k \in DOMAIN t.queue[i].cmds,
               t.queue[i].cmds[k].cmd = "D" /\ t.queue[i].cpvt # sys
        PROVE  t.call[t.queue[i].cpvt].dir = "out"
    <3>1. TaskFor(s, t.queue[i])
      BY <1>5, GoodTasks
    <3>. QED BY <1>1, <1>5, <1>6, <2>2, <3>1 DEF TaskFor
  <2>. QED BY <2>1, <2>2 DEF Dials
<1>12. Incoming(t) = Incoming(s) /\ id \notin Incoming(s) /\ Incoming(s) \subseteq Linked(s)
  BY <1>1, <1>6, <1>7 DEF Incoming
<1>13. \A o \in Incoming(s) : t.call[o].idx = s.call[o].idx
  BY <1>1, <1>6, <1>12
<1>14. Single(t)
  <2>1. ASSUME NEW a \in Incoming(t)
        PROVE  /\ t.call[a].idx \in Idx
               /\ \A b \in Linked(t) : t.call[a].idx = t.call[b].idx => a = b
    <3>1. t.call[a].idx = s.call[a].idx /\ a \in Incoming(s)
      BY <1>12, <1>13
    <3>2. ASSUME NEW b \in Linked(t), t.call[a].idx = t.call[b].idx PROVE a = b
      <4>1. CASE b = id
        <5>1. t.call[b].idx = n
          BY <1>1, <1>6, <4>1
        <5>2. n \in Held(s)
          BY <3>1, <3>2, <5>1 DEF Held
        <5>. QED BY <5>2
      <4>2. CASE b # id
        <5>1. t.call[b].idx = s.call[b].idx /\ b \in Linked(s)
          BY <1>1, <1>6, <1>7, <4>2
        <5>. QED BY <3>1, <3>2, <5>1 DEF Good, Single
      <4>. QED BY <4>1, <4>2
    <3>. QED BY <3>1, <3>2 DEF Good, Single
  <2>. QED BY <2>1 DEF Single
<1>15. Held(t) \subseteq Held(s) /\ Taken(t) \subseteq Taken(s)
  <2>1. Held(t) \subseteq Held(s)
    BY <1>12, <1>13 DEF Held
  <2>2. Taken(t) \subseteq Taken(s)
    <3>1. \A o \in Incoming(s) : t.call[o].state = s.call[o].state
      BY <1>1, <1>6, <1>12
    <3>. QED BY <1>12, <1>13, <3>1 DEF Taken
  <2>. QED BY <2>1, <2>2
<1>16. Good(t)
  BY <1>7, <1>8, <1>9, <1>10, <1>11, <1>14 DEF Good, Base
<1>17. Kept(s, t) /\ t.call[id].dir = "out"
  BY <1>1, <1>5, <1>6 DEF Kept
<1> QED BY <1>3, <1>7, <1>15, <1>16, <1>17

-----------------------------------------------------------------------------
(* The callbacks from Asterisk.                                            *)

(* A channel whose tech_pvt is set has a call of the list. *)
LEMMA AttachedLinked ==
  ASSUME Good(d), NEW id \in Ids, Attached(id)
  PROVE  id \in Linked(d)
BY DEF Attached, Good, Points

LEMMA RequestDoes ==
  ASSUME Good(d), NEW id \in Ids, NEW opts \in Opts, channel_request(id, opts)
  PROVE  Does(d, d', Held(d), Taken(d))
<1> DEFINE n == pvt_get_pseudo_call_idx(d)
           t == new_channel(d, id, n, "out", "init")
<1>1. id \in Unused(d) /\ d' = t
  BY DEF channel_request
<1>2. n \in 0 .. 31 /\ \A o \in Linked(d) : d.call[o].dir = "in" => d.call[o].idx # n
  <2>1. n \in 0 .. 31 /\ (n # 0 => \A o \in Linked(d) : d.call[o].idx # n)
    BY PseudoIndex
  <2> HIDE DEF n
  <2>2. \A o \in Linked(d) : d.call[o].dir = "in" => d.call[o].idx # 0
    BY DEF Good, Single, Incoming, Idx
  <2>. QED BY <2>1, <2>2
<1> HIDE DEF n
<1>3. Joined(d, t, id, n, "out", "init")
  BY <1>1, <1>2, NewChannel
<1> HIDE DEF t
<1>4. Incoming(t) = Incoming(d)
  BY <1>3 DEF Joined, Incoming
<1>5. Held(t) = Held(d) /\ Taken(t) = Taken(d)
  BY <1>3, <1>4 DEF Held, Taken, Joined, Incoming
<1>6. Dutiful(d, t)
  BY <1>3 DEF Joined, Dutiful
<1> QED BY <1>1, <1>3, <1>5, <1>6 DEF Does, Joined

LEMMA CallDoes ==
  ASSUME Good(d), NEW id \in Ids, NEW opts \in Opts, NEW stored \in BOOLEAN,
         channel_call(id, opts, stored)
  PROVE  Does(d, d', Held(d), Taken(d))
<1> DEFINE r == [d EXCEPT !.call[id].opts = opts]
           s == [r EXCEPT !.chan[id].used = TRUE]
           t == at_enque_dial(s, id)
<1>1. id \in Linked(d) /\ d.call[id].dir = "out" /\ d' = IF stored THEN t ELSE s
  <2>1. id \in Linked(d)
    BY AttachedLinked DEF channel_call
  <2>2. [d EXCEPT !.call[id].opts = opts, !.chan[id].used = TRUE] = s
    OBVIOUS
  <2>. QED BY <2>1, <2>2 DEF channel_call
<1>2. Minor(d, r) /\ Kept(d, r)
  BY <1>1, OptsMinor
<1> HIDE DEF r
<1>3. Good(r) /\ id \in Linked(r)
  BY <1>1, <1>2, MinorGood
<1>4. Minor(r, s) /\ Kept(r, s)
  BY <1>3, UsedMinor
<1> HIDE DEF s
<1>5. Minor(d, s) /\ Kept(d, s)
  BY <1>2, <1>4, MinorTwice, KeptTwice
<1>6. Good(s) /\ id \in Linked(s) /\ s.call[id].dir = "out"
  BY <1>1, <1>5, MinorGood DEF Minor, Alike
<1>7. Minor(s, t) /\ Kept(s, t)
  BY <1>6, DialMinor
<1> HIDE DEF t
<1>8. Minor(d, t) /\ Kept(d, t)
  BY <1>5, <1>7, MinorTwice, KeptTwice
<1>9. Heard(d, d', {}, {})
  BY <1>1, <1>5, <1>8, MinorHeard
<1> QED BY <1>9, HeardDoes

LEMMA AnswerDoes ==
  ASSUME Good(d), NEW id \in Ids, channel_answer(id)
  PROVE  Does(d, d', Held(d), Taken(d))
<1> DEFINE s == [d EXCEPT !.chan[id].used = TRUE]
           t == at_enque_answer(s, id)
<1>1. id \in Linked(d) /\ d' = t
  BY AttachedLinked DEF channel_answer
<1>2. Minor(d, s) /\ Kept(d, s)
  BY <1>1, UsedMinor
<1> HIDE DEF s
<1>3. Good(s) /\ id \in Linked(s)
  BY <1>1, <1>2, MinorGood
<1>4. Minor(s, t) /\ Kept(s, t)
  BY <1>3, AnswerMinor
<1> HIDE DEF t
<1>5. Minor(d, t) /\ Kept(d, t)
  BY <1>2, <1>4, MinorTwice, KeptTwice
<1>6. Heard(d, d', {}, {})
  BY <1>1, <1>5, MinorHeard
<1> QED BY <1>6, HeardDoes

LEMMA WriteDoes ==
  ASSUME Good(d), NEW id \in Ids, channel_func_write(id)
  PROVE  Does(d, d', Held(d), Taken(d))
<1> DEFINE cmds == <<Cmd("CHLD_2x", d.call[id].idx), Cmd("CLCC", 0)>>
           t == Enque(d, id, cmds)
<1>1. id \in Linked(d) /\ d' = t
  BY AttachedLinked DEF channel_func_write
<1>2. d.call[id].idx \in 0 .. 31
  BY DEF Good, Shape, Driver, Cpvt
<1>3. cmds \in Seq(Command) \ {<<>>} /\ \A k \in DOMAIN cmds : cmds[k].cmd # "D"
  BY <1>2 DEF Cmd, Command, CmdNames
<1> HIDE DEF cmds
<1>4. Minor(d, t) /\ Kept(d, t)
  BY <1>1, <1>3, EnqueMinor
<1> HIDE DEF t
<1>5. Heard(d, d', {}, {})
  BY <1>1, <1>4, MinorHeard
<1> QED BY <1>5, HeardDoes

(* The duty is given up when the hangup is in the queue, and not before.   *)
LEMMA HangupDoes ==
  ASSUME Good(d), NEW id \in Ids, NEW stored \in BOOLEAN, channel_hangup(id, stored)
  PROVE  Does(d, d', Held(d), Taken(d))
<1> DEFINE need == d.call[id].need
           h == at_enque_hangup(d, id, d.call[id].idx)
           r == [h EXCEPT !.call[id].need = FALSE]
           s1 == IF need /\ stored THEN r ELSE d
           s2 == [disactivate_call(s1, id) EXCEPT !.call[id].ch = FALSE]
           t == [s2 EXCEPT !.chan[id] = NoChan]
           u == [d EXCEPT !.chan[id] = NoChan]
<1>1. /\ d.chan[id].up
      /\ Attached(id) => d' = t
      /\ ~Attached(id) => d' = u
  BY DEF channel_hangup
<1>2. CASE ~Attached(id)
  <2>1. ~d.chan[id].link
    BY <1>1, <1>2 DEF Attached, Good, Points
  <2>2. Stayed(d, u)
    BY <2>1, Cleared
  <2> HIDE DEF u
  <2>3. Held(u) = Held(d) /\ Taken(u) = Taken(d)
    BY <2>2, StayedStory
  <2>4. Dutiful(d, u)
    BY <2>2 DEF Stayed, Dutiful
  <2>. QED BY <1>1, <1>2, <2>2, <2>3, <2>4 DEF Does, Stayed
<1>3. CASE Attached(id)
  <2>1. id \in Linked(d)
    BY <1>3, AttachedLinked
  <2>2. d.call[id].idx \in 0 .. 31
    <3>1. d.call \in [Ids -> Cpvt]
      BY DEF Good, Shape, Driver
    <3>2. d.call[id] \in Cpvt
      BY <3>1
    <3>. QED BY <3>2 DEF Cpvt
  <2>3. /\ Minor(d, h) /\ Kept(d, h) /\ h.call = d.call
        /\ \E i \in DOMAIN h.queue : h.queue[i].cpvt = id /\ Head(h.queue[i].cmds).cmd \in Hangups
    BY <2>1, <2>2, HangupMinor
  <2> HIDE DEF h
  <2>4. Good(h) /\ id \in Linked(h) /\ Held(h) = Held(d) /\ Taken(h) = Taken(d) /\ Linked(h) = Linked(d)
    BY <2>1, <2>3, MinorGood
  <2>5. /\ Minor(h, r) /\ r.queue = h.queue
        /\ \A o \in Ids : r.call[o].need = IF o = id THEN FALSE ELSE h.call[o].need
    BY <2>4, NeedMinor
  <2> HIDE DEF r
  <2>6. Good(r) /\ Held(r) = Held(d) /\ Taken(r) = Taken(d) /\ Linked(r) = Linked(d)
    BY <2>4, <2>5, MinorGood
  <2>7. /\ Good(s1) /\ Held(s1) = Held(d) /\ Taken(s1) = Taken(d) /\ Linked(s1) = Linked(d)
        /\ d.queue # <<>> => s1.queue # <<>>
    <3>1. d.queue # <<>> => r.queue # <<>>
      BY <2>3, <2>5 DEF Kept
    <3>. QED BY <2>6, <3>1
  <2>8. Dutiful(d, s1)
    <3>1. Dutiful(d, d)
      BY DEF Dutiful
    <3>2. Dutiful(d, r)
      BY <2>3, <2>5 DEF Dutiful
    <3>. QED BY <3>1, <3>2
  <2> HIDE DEF s1
  <2>9. Stayed(s1, t)
    BY <2>1, <2>7, Detached
  <2> HIDE DEF t
  <2>10. Held(t) = Held(d) /\ Taken(t) = Taken(d)
    BY <2>7, <2>9, StayedStory
  <2>11. Dutiful(d, t)
    BY <2>8, <2>9 DEF Stayed, Dutiful
  <2>. QED BY <1>1, <1>3, <2>7, <2>9, <2>10, <2>11 DEF Does, Stayed
<1> QED BY <1>2, <1>3

-----------------------------------------------------------------------------
(* The handlers of the monitor thread, without what concerns the inbox.    *)

(* The first message, and what the order of messages says of it. *)
LEMMA FirstMessage ==
  ASSUME IInv, inbox # <<>>
  PROVE  /\ Head(inbox) \in Message /\ Head(inbox) = inbox[1]
         /\ 1 \in DOMAIN inbox /\ DOMAIN inbox = 1 .. Len(inbox) /\ Len(inbox) \in Nat
         /\ RingBy(Head(inbox)) \cap Taken(d) = {}
         /\ DialledBy(Head(inbox)) \cap Held(d) = {}
<1>1. inbox \in Seq(Message) /\ Story
  BY DEF IInv
<1>2. /\ Head(inbox) \in Message /\ Head(inbox) = inbox[1]
      /\ 1 \in DOMAIN inbox /\ DOMAIN inbox = 1 .. Len(inbox) /\ Len(inbox) \in Nat
  BY <1>1
<1>3. \A n : ~EndBetween(n, 0, 1)
  BY <1>2 DEF EndBetween
<1>4. Held(d) \subseteq Idx /\ Taken(d) \subseteq Held(d)
  BY TakenHeld DEF IInv, Good, Single, Held, Incoming
<1>5. 0 \in 0 .. Len(inbox) /\ 0 < 1
  BY <1>2
<1>6. ASSUME NEW n \in RingBy(Head(inbox)) \cap Taken(d) PROVE FALSE
  <2>1. n \in Idx /\ n \in TakenAt(0) /\ n \in RingBy(inbox[1])
    BY <1>2, <1>4 DEF TakenAt
  <2>. QED BY <1>1, <1>2, <1>3, <1>5, <2>1 DEF Story
<1>7. ASSUME NEW n \in DialledBy(Head(inbox)) \cap Held(d) PROVE FALSE
  <2>1. n \in Idx /\ n \in HeldAt(0) /\ n \in DialledBy(inbox[1])
    BY <1>2, <1>4 DEF HeldAt
  <2>. QED BY <1>1, <1>2, <1>3, <1>5, <2>1 DEF Story
<1> QED BY <1>2, <1>6, <1>7

(* What a handler that keeps its place in the order of messages does. *)
Hears(m) == Does(d, d', (Held(d) \cup HeldBy(m)) \ EndedBy(m), (Taken(d) \cup TakenBy(m)) \ EndedBy(m))

LEMMA HeardHears ==
  ASSUME NEW m, m.type # "CEND", NEW A, NEW B, Heard(d, d', A, B), A \subseteq HeldBy(m), B \subseteq TakenBy(m)
  PROVE  Hears(m)
BY HeardDoes DEF Hears, Does, EndedBy

LEMMA OrigHears ==
  ASSUME IInv, at_response_orig
  PROVE  Hears(Head(inbox))
<1> DEFINE m == Head(inbox)
           id == d.last
           s1 == [d EXCEPT !.last = None]
           r == [s1 EXCEPT !.call[id].idx = m.idx]
           s2 == change_channel_state(r, id, "dialing")
           t == request_clcc(s2)
<1>1. m.type = "ORIG" /\ inbox # <<>> /\ d' = IF id = None THEN s1 ELSE t
  BY DEF at_response_orig, Handled, Reading
<1>2. m \in Message /\ DialledBy(m) \cap Held(d) = {}
  BY <1>1, FirstMessage
<1>3. m.idx \in 0 .. 31 /\ m.idx \notin Held(d)
  BY <1>1, <1>2 DEF Message, DialledBy
<1> HIDE DEF m
<1>4. Good(d) /\ d \in Driver
  BY DEF IInv, Good, Shape
<1>5. /\ s1 \in Driver /\ s1.chans = d.chans /\ s1.call = d.call /\ s1.chan = d.chan
      /\ s1.chansno = d.chansno /\ s1.chan_count = d.chan_count /\ s1.last = None
      /\ s1.queue = d.queue
  BY <1>4 DEF Driver
<1> HIDE DEF s1
<1>6. Minor(d, s1) /\ Kept(d, s1)
  BY <1>4, <1>5, SameCalls
<1>7. Good(s1) /\ Linked(s1) = Linked(d) /\ Held(s1) = Held(d) /\ Taken(s1) = Taken(d)
  BY <1>4, <1>6, MinorGood
<1>8. CASE id = None
  <2>1. Heard(d, d', {}, {})
    BY <1>1, <1>4, <1>6, <1>8, MinorHeard
  <2>. QED BY <1>1, <2>1, HeardHears DEF m
<1>9. CASE id # None
  <2>1. id \in Linked(s1) /\ s1.call[id].dir = "out"
    BY <1>4, <1>5, <1>7, <1>9 DEF Good, Points, Dials
  <2>2. /\ Good(r) /\ Linked(r) = Linked(s1) /\ Kept(s1, r) /\ r.call[id].dir = "out"
        /\ Held(r) \subseteq Held(s1) /\ Taken(r) \subseteq Taken(s1)
    BY <1>3, <1>7, <2>1, Renumbered
  <2> HIDE DEF r
  <2>3. "dialing" \in States \ {"released"}
    BY DEF States
  <2>4. Turned(r, s2, id, "dialing")
    BY <2>1, <2>2, <2>3, ChangeState
  <2> HIDE DEF s2
  <2>5. Kept(r, s2) /\ Held(s2) \subseteq Held(r) /\ Taken(s2) \subseteq Taken(r) /\ Good(s2)
    <3>1. Kept(r, s2)
      BY <2>1, <2>2, <2>3, <2>4, TurnedKept
    <3>2. /\ Held(s2) \subseteq Held(r)
          /\ \A n \in Taken(s2) : \/ n \in Taken(r)
                                  \/ /\ r.call[id].dir = "in" /\ n = r.call[id].idx
                                     /\ "dialing" \notin Ringing \cup {"released"}
      BY <2>1, <2>2, <2>3, <2>4, TurnedStory
    <3>. QED BY <2>2, <2>4, <3>1, <3>2 DEF Turned
  <2>6. Minor(s2, t) /\ Kept(s2, t)
    BY <2>5, ClccMinor
  <2> HIDE DEF t
  <2>7. Good(t) /\ Held(t) = Held(s2) /\ Taken(t) = Taken(s2)
    BY <2>5, <2>6, MinorGood
  <2>8. Kept(d, t)
    BY <1>6, <2>2, <2>5, <2>6, KeptTwice
  <2>9. Heard(d, d', {}, {})
    BY <1>1, <1>7, <1>9, <2>2, <2>5, <2>7, <2>8 DEF Heard
  <2>. QED BY <1>1, <2>9, HeardHears DEF m
<1> QED BY <1>8, <1>9 DEF m

LEMMA CendHears ==
  ASSUME IInv, at_response_cend
  PROVE  Hears(Head(inbox))
<1> DEFINE m == Head(inbox)
           s == request_clcc(d)
           id == pvt_find_cpvt(d, m.idx)
           t == Ended(s, id)
<1>1. m.type = "CEND" /\ inbox # <<>> /\ d' = IF id = None THEN s ELSE t
  BY DEF at_response_cend, Handled, Reading, Ended
<1>2. m.idx \in Idx
  BY <1>1, FirstMessage DEF Message
<1> HIDE DEF m
<1>3. Good(d) /\ d.chans \in Seq(Ids)
  BY DEF IInv, Good, Shape, Driver
<1>4. \/ id = None /\ \A o \in Linked(d) : d.call[o].idx # m.idx
      \/ id \in Linked(d) /\ d.call[id].idx = m.idx
  BY <1>3, FindCall
<1> HIDE DEF id
<1>5. Minor(d, s) /\ Kept(d, s) /\ s.call = d.call
  BY <1>3, ClccMinor
<1> HIDE DEF s
<1>6. Good(s) /\ Linked(s) = Linked(d) /\ Held(s) = Held(d) /\ Taken(s) = Taken(d)
  BY <1>3, <1>5, MinorGood
<1>7. CASE id = None
  <2>1. m.idx \notin Held(d)
    BY <1>3, <1>4, <1>7, GoodTasks DEF Held, Incoming
  <2>2. m.idx \notin Taken(d)
    BY <2>1, TakenHeld
  <2>3. Does(d, s, Held(d), Taken(d))
    <3>1. Heard(d, s, {}, {})
      BY <1>3, <1>5, MinorHeard
    <3>. QED BY <3>1, HeardDoes
  <2>4. Does(d, s, (Held(d) \cup HeldBy(m)) \ {m.idx}, (Taken(d) \cup TakenBy(m)) \ {m.idx})
    BY <2>1, <2>2, <2>3, <1>6 DEF Does
  <2>5. d' = s /\ EndedBy(m) = {m.idx}
    BY <1>1, <1>7 DEF EndedBy
  <2>. QED BY <2>4, <2>5 DEF Hears, m
<1>8. CASE id # None
  <2>1. id \in Linked(s) /\ s.call[id].idx = m.idx
    BY <1>4, <1>5, <1>6, <1>8
  <2>2. /\ Good(t) /\ Linked(t) = Linked(s) \ {id}
        /\ DOMAIN t.queue = DOMAIN s.queue
        /\ \A o \in Linked(t) : t.call[o].need = s.call[o].need
        /\ Held(t) \subseteq Held(s) /\ Taken(t) \subseteq Taken(s)
        /\ s.call[id].dir = "in" => s.call[id].idx \notin Held(t)
    BY <1>6, <2>1, EndOne
  <2> HIDE DEF t
  <2>3. m.idx \notin Held(t)
    <3>1. CASE s.call[id].dir = "in"
      BY <2>1, <2>2, <3>1
    <3>2. CASE s.call[id].dir # "in"
      <4>1. ASSUME m.idx \in Held(s) PROVE FALSE
        <5>1. PICK o \in Incoming(s) : s.call[o].idx = m.idx
          BY <4>1 DEF Held
        <5>2. o = id
          BY <1>6, <2>1, <5>1 DEF Good, Single
        <5>. QED BY <3>2, <5>1, <5>2 DEF Incoming
      <4>. QED BY <2>2, <4>1
    <3>. QED BY <3>1, <3>2
  <2>4. m.idx \notin Taken(t)
    BY <2>3, TakenHeld
  <2>5. d.queue # <<>> => t.queue # <<>>
    <3>1. s \in Driver /\ t \in Driver
      BY <1>6, <2>2 DEF Good, Shape
    <3>2. s.queue # <<>> => t.queue # <<>>
      BY <2>2, <3>1, NotEmptied
    <3>. QED BY <1>5, <3>2 DEF Kept
  <2>6. Dutiful(d, t)
    BY <1>5, <2>2 DEF Dutiful
  <2>7. Does(d, t, (Held(d) \cup HeldBy(m)) \ {m.idx}, (Taken(d) \cup TakenBy(m)) \ {m.idx})
    BY <1>6, <2>2, <2>3, <2>4, <2>5, <2>6 DEF Does
  <2>8. d' = t /\ EndedBy(m) = {m.idx}
    BY <1>1, <1>8 DEF EndedBy
  <2>. QED BY <2>7, <2>8 DEF Hears, m
<1> QED BY <1>7, <1>8 DEF m

LEMMA ConnHears ==
  ASSUME IInv, at_response_conn
  PROVE  Hears(Head(inbox))
<1> DEFINE m == Head(inbox)
           r == [d EXCEPT !.ring = FALSE, !.dialing = FALSE, !.cwaiting = FALSE]
           s1 == request_clcc(r)
           id == pvt_find_cpvt(d, m.idx)
           s2 == change_channel_state(s1, id, "active")
           a == at_enque_hangup(s1, sys, m.idx)
           b == at_enque_conference(s2, id)
<1>1. /\ m.type = "CONN" /\ inbox # <<>>
      /\ id = None => d' = a
      /\ id # None => d' = b \/ d' = s2
  BY DEF at_response_conn, Handled, Reading
<1>2. m.idx \in Idx /\ m.idx \in 0 .. 31 /\ TakenBy(m) = {m.idx}
  BY <1>1, FirstMessage DEF Message, TakenBy
<1> HIDE DEF m
<1>3. Good(d) /\ d.chans \in Seq(Ids) /\ d \in Driver
  BY DEF IInv, Good, Shape, Driver
<1>4. \/ id = None
      \/ id \in Linked(d) /\ d.call[id].idx = m.idx
  BY <1>3, FindCall
<1> HIDE DEF id
<1>5. /\ r \in Driver /\ r.chans = d.chans /\ r.call = d.call /\ r.chan = d.chan
      /\ r.chansno = d.chansno /\ r.chan_count = d.chan_count /\ r.last = d.last
      /\ r.queue = d.queue
  BY <1>3 DEF Driver
<1> HIDE DEF r
<1>6. Minor(d, r) /\ Kept(d, r) /\ Good(r)
  BY <1>3, <1>5, SameCalls, MinorGood
<1>7. Minor(r, s1) /\ Kept(r, s1) /\ s1.call = r.call
  BY <1>6, ClccMinor
<1> HIDE DEF s1
<1>8. Minor(d, s1) /\ Kept(d, s1)
  BY <1>3, <1>6, <1>7, MinorTwice, KeptTwice
<1>9. /\ Good(s1) /\ Linked(s1) = Linked(d) /\ Held(s1) = Held(d) /\ Taken(s1) = Taken(d)
      /\ s1.call = d.call
  BY <1>3, <1>5, <1>7, <1>8, MinorGood
<1>10. CASE id = None
  <2>1. Minor(s1, a) /\ Kept(s1, a)
    BY <1>2, <1>9, HangupMinor
  <2> HIDE DEF a
  <2>2. Heard(d, a, {}, {})
    BY <1>3, <1>8, <2>1, MinorTwice, KeptTwice, MinorHeard
  <2>. QED BY <1>1, <1>10, <2>2, HeardHears DEF m
<1>11. CASE id # None
  <2>1. id \in Linked(s1) /\ s1.call[id].idx = m.idx
    BY <1>4, <1>9, <1>11
  <2>2. "active" \in States \ {"released"}
    BY DEF States
  <2>3. Turned(s1, s2, id, "active")
    BY <1>9, <2>1, <2>2, ChangeState
  <2> HIDE DEF s2
  <2>4. Kept(s1, s2)
    BY <1>9, <2>1, <2>2, <2>3, TurnedKept
  <2>5. /\ Held(s2) \subseteq Held(s1)
        /\ \A n \in Taken(s2) : \/ n \in Taken(s1)
                                \/ /\ s1.call[id].dir = "in" /\ n = s1.call[id].idx
                                   /\ "active" \notin Ringing \cup {"released"}
    BY <1>9, <2>1, <2>2, <2>3, TurnedStory
  <2>6. Good(s2) /\ Linked(s2) = Linked(s1)
    BY <2>3 DEF Turned
  <2>7. Heard(d, s2, {}, {m.idx})
    BY <1>8, <1>9, <2>1, <2>4, <2>5, <2>6, KeptTwice DEF Heard
  <2>8. Minor(s2, b) /\ Kept(s2, b)
    BY <2>1, <2>6, ConferenceMinor
  <2> HIDE DEF b
  <2>9. Heard(s2, b, {}, {})
    BY <2>6, <2>8, MinorHeard
  <2>10. Heard(d, b, {}, {m.idx})
    BY <2>7, <2>9, KeptTwice DEF Heard
  <2>11. Heard(d, d', {}, {m.idx})
    BY <1>1, <1>11, <2>7, <2>10
  <2>. QED BY <1>1, <1>2, <2>11, HeardHears DEF m
<1> QED BY <1>10, <1>11

LEMMA RingHears ==
  ASSUME IInv, at_response_ring \/ at_response_ccwa
  PROVE  Hears(Head(inbox))
<1> DEFINE a == [d EXCEPT !.ring = TRUE, !.dialing = FALSE, !.cwaiting = FALSE]
           b == [d EXCEPT !.cwaiting = TRUE]
<1>1. Head(inbox).type # "CEND" /\ (d' = request_clcc(a) \/ d' = request_clcc(b))
  BY DEF at_response_ring, at_response_ccwa, Handled, Reading
<1>2. Good(d) /\ d \in Driver
  BY DEF IInv, Good, Shape
<1>3. /\ a \in Driver /\ a.chans = d.chans /\ a.call = d.call /\ a.chan = d.chan
      /\ a.chansno = d.chansno /\ a.chan_count = d.chan_count /\ a.last = d.last
      /\ a.queue = d.queue
  BY <1>2 DEF Driver
<1>4. /\ b \in Driver /\ b.chans = d.chans /\ b.call = d.call /\ b.chan = d.chan
      /\ b.chansno = d.chansno /\ b.chan_count = d.chan_count /\ b.last = d.last
      /\ b.queue = d.queue
  BY <1>2 DEF Driver
<1> HIDE DEF a, b
<1>5. ASSUME NEW s \in {a, b} PROVE Heard(d, request_clcc(s), {}, {})
  <2>1. Minor(d, s) /\ Kept(d, s) /\ Good(s)
    <3>1. /\ s \in Driver /\ s.chans = d.chans /\ s.call = d.call /\ s.chan = d.chan
          /\ s.chansno = d.chansno /\ s.chan_count = d.chan_count /\ s.last = d.last
          /\ s.queue = d.queue
      BY <1>3, <1>4
    <3>. QED BY <1>2, <3>1, SameCalls, MinorGood
  <2>2. Minor(s, request_clcc(s)) /\ Kept(s, request_clcc(s))
    BY <2>1, ClccMinor
  <2>. QED BY <1>2, <2>1, <2>2, MinorTwice, KeptTwice, MinorHeard
<1>6. Heard(d, d', {}, {})
  BY <1>1, <1>5
<1> QED BY <1>1, <1>6, HeardHears

LEMMA BusyHears ==
  ASSUME IInv, at_response_busy
  PROVE  Hears(Head(inbox))
<1> DEFINE id == IF HeadTask.cpvt = sys THEN d.last ELSE HeadTask.cpvt
           t == [d EXCEPT !.call[id].need = TRUE]
<1>1. Head(inbox).type # "CEND" /\ d.queue # <<>> /\ d' = IF id = None THEN d ELSE t
  BY DEF at_response_busy, Handled, Reading
<1>2. Good(d) /\ d.queue \in Seq(Task)
  BY DEF IInv, Good, Shape, Driver
<1>3. id \in Linked(d) \cup {None}
  <2>1. 1 \in DOMAIN d.queue
    <3> DEFINE q == d.queue
    <3>1. q \in Seq(Task) /\ q # <<>>
      BY <1>1, <1>2
    <3> HIDE DEF q
    <3>2. 1 \in DOMAIN q
      BY <3>1
    <3>. QED BY <3>2 DEF q
  <2>2. d.queue[1].cpvt \in Linked(d) \cup {sys} /\ d.last \in Linked(d) \cup {None}
    BY <1>2, <2>1 DEF Good, Points
  <2>. QED BY <2>2 DEF HeadTask
<1> HIDE DEF id
<1>4. Heard(d, d, {}, {})
  BY <1>2 DEF Heard, Kept
<1>5. ASSUME id # None PROVE Heard(d, t, {}, {})
  <2>1. /\ Minor(d, t) /\ t.queue = d.queue
        /\ \A o \in Ids : t.call[o].need = IF o = id THEN TRUE ELSE d.call[o].need
    BY <1>2, <1>3, <1>5, NeedMinor
  <2> HIDE DEF t
  <2>. QED BY <1>2, <2>1, MinorHeard DEF Kept
<1> HIDE DEF t
<1>6. Heard(d, d', {}, {})
  BY <1>1, <1>4, <1>5
<1> QED BY <1>1, <1>6, HeardHears

LEMMA ClccHears ==
  ASSUME IInv, NEW how, at_response_clcc(how)
  PROVE  Hears(Head(inbox))
<1> DEFINE m == Head(inbox)
<1>1. m.type = "CLCC" /\ inbox # <<>> /\ d' = AllLines(d, m.lines, how)
  BY DEF at_response_clcc, Handled, Reading
<1>2. m \in Message /\ RingBy(m) \cap Taken(d) = {}
  BY <1>1, FirstMessage
<1> HIDE DEF m
<1>3. Good(d)
  BY DEF IInv
<1>4. Heard(d, d', HeldBy(m), TakenBy(m))
  BY <1>1, <1>2, <1>3, AllLinesHeard
<1>5. Hears(m)
  BY <1>1, <1>4, HeardHears
<1> QED BY <1>5 DEF m

(* The step gives up a duty to hang up for a hangup only, one queued or    *)
(* the one executed.                                                       *)
KeepsDuty ==
  \A id \in Ids :
    d.call[id].need /\ ~d'.call[id].need /\ id \in Linked(d')
      => \/ \E i \in DOMAIN d'.queue :
              d'.queue[i].cpvt = id /\ Head(d'.queue[i].cmds).cmd \in Hangups
         \/ executed /\ HeadTask.cpvt = id /\ HeadCmd.cmd \in Hangups

(* A result is the result of the command that heads the queue. *)
LEMMA ResultOfHead ==
  ASSUME IInv, inbox # <<>>, Final(Head(inbox))
  PROVE  /\ executed /\ d.queue # <<>>
         /\ HeadTask.cpvt \in Linked(d) \cup {sys}
         /\ HeadCmd.cmd = "D" /\ HeadTask.cpvt # sys => d.call[HeadTask.cpvt].dir = "out"
         /\ \A i \in DOMAIN inbox : Final(inbox[i]) => i = 1
<1>1. /\ 1 \in DOMAIN inbox /\ Head(inbox) = inbox[1] /\ Wire /\ Good(d)
  BY FirstMessage DEF IInv
<1>2. /\ executed /\ d.queue # <<>> /\ \A i \in DOMAIN inbox : Final(inbox[i]) => i = 1
  BY <1>1 DEF Wire
<1>3. d.queue \in Seq(Task) /\ \A i \in DOMAIN d.queue : TaskFor(d, d.queue[i]) /\ d.queue[i] \in Task
  BY <1>1, GoodTasks
<1>4. 1 \in DOMAIN d.queue
  <2> DEFINE q == d.queue
  <2>1. q \in Seq(Task) /\ q # <<>>
    BY <1>2, <1>3
  <2> HIDE DEF q
  <2>2. 1 \in DOMAIN q
    BY <2>1
  <2>. QED BY <2>2 DEF q
<1>5. TaskFor(d, HeadTask) /\ HeadTask \in Task
  BY <1>3, <1>4 DEF HeadTask
<1>6. HeadTask.cmds \in Seq(Command) /\ HeadTask.cmds # <<>>
  BY <1>5 DEF Task
<1>7. HeadCmd = HeadTask.cmds[1] /\ 1 \in DOMAIN HeadTask.cmds
  <2> DEFINE q == HeadTask.cmds
  <2>1. q \in Seq(Command) /\ q # <<>>
    BY <1>6
  <2> HIDE DEF q
  <2>2. 1 \in DOMAIN q /\ Head(q) = q[1]
    BY <2>1
  <2>. QED BY <2>2 DEF q, HeadCmd
<1>8. HeadTask.cpvt \in Linked(d) \cup {sys}
  BY <1>5 DEF TaskFor
<1>9. HeadCmd.cmd = "D" /\ HeadTask.cpvt # sys => d.call[HeadTask.cpvt].dir = "out"
  BY <1>5, <1>7 DEF TaskFor
<1> QED BY <1>2, <1>8, <1>9

(* SetNeed *)
NeedSet(s, t, id, value) ==
  /\ Minor(s, t) /\ t.queue = s.queue
  /\ \A o \in Ids : s.call[o].need /\ ~t.call[o].need => o = id /\ ~value

LEMMA SetNeedMinor ==
  ASSUME NEW s, Good(s), NEW id \in Linked(s) \cup {sys}, NEW value \in BOOLEAN
  PROVE  NeedSet(s, SetNeed(s, id, value), id, value)
<1>1. Minor(s, s)
  BY GoodTasks DEF Minor, Alike, Good, Shape
<1>2. CASE id = sys
  <2>1. SetNeed(s, id, value) = s
    BY <1>2 DEF SetNeed
  <2>. QED BY <1>1, <2>1 DEF NeedSet
<1>3. CASE id # sys
  <2> DEFINE t == [s EXCEPT !.call[id].need = value]
  <2>1. /\ Minor(s, t) /\ t.queue = s.queue
        /\ \A o \in Ids : t.call[o].need = IF o = id THEN value ELSE s.call[o].need
    BY <1>3, NeedMinor
  <2>2. SetNeed(s, id, value) = t
    BY <1>3 DEF SetNeed
  <2> HIDE DEF t
  <2>3. NeedSet(s, t, id, value)
    <3>1. ASSUME NEW o \in Ids, s.call[o].need, ~t.call[o].need PROVE o = id /\ ~value
      BY <2>1, <3>1
    <3>. QED BY <2>1, <3>1 DEF NeedSet
  <2>. QED BY <2>2, <2>3
<1> QED BY <1>2, <1>3

LEMMA OkDoes ==
  ASSUME IInv, at_response_ok
  PROVE  Good(d') /\ Held(d') = Held(d) /\ Taken(d') = Taken(d) /\ KeepsDuty
<1> DEFINE id == HeadTask.cpvt
           r == [d EXCEPT !.dialing = TRUE, !.last = IF id = sys THEN @ ELSE id]
           a == SetNeed(r, id, TRUE)
           b == SetNeed(d, id, TRUE)
           c == SetNeed(d, id, FALSE)
           s == CASE HeadCmd.cmd = "D" -> a
                  [] HeadCmd.cmd \in {"A", "CHLD_2x"} -> b
                  [] HeadCmd.cmd \in Hangups -> c
                  [] OTHER -> d
           t == Advance(s, "OK")
           (* duties go with a hangup only *)
           Safe(u) == \A o \in Ids : d.call[o].need /\ ~u.call[o].need
                                       => o = id /\ HeadCmd.cmd \in Hangups
<1>1. d' = t /\ inbox # <<>> /\ Head(inbox).type = "OK"
  BY DEF at_response_ok, Reading
<1>2. /\ executed /\ d.queue # <<>> /\ id \in Linked(d) \cup {sys}
      /\ HeadCmd.cmd = "D" /\ id # sys => d.call[id].dir = "out"
  BY <1>1, ResultOfHead DEF Final
<1>3. Good(d) /\ d \in Driver /\ Linked(d) \subseteq Ids
  BY GoodTasks DEF IInv, Good, Shape
<1> HIDE DEF id
<1>4. ASSUME HeadCmd.cmd = "D" PROVE Minor(d, a) /\ a.queue = d.queue /\ Safe(a)
  <2>1. /\ r \in Driver /\ r.chans = d.chans /\ r.call = d.call /\ r.chan = d.chan
        /\ r.chansno = d.chansno /\ r.chan_count = d.chan_count
        /\ r.last = IF id = sys THEN d.last ELSE id
        /\ r.queue = d.queue
    BY <1>2, <1>3 DEF Driver
  <2> HIDE DEF r
  <2>2. r.last \in {None, d.last} \/ (r.last \in Linked(d) /\ d.call[r.last].dir = "out")
    BY <1>2, <1>4, <2>1
  <2>3. Minor(d, r)
    BY <1>3, <2>1, <2>2, GoodTasks DEF Minor, Alike
  <2>4. Good(r) /\ id \in Linked(r) \cup {sys}
    BY <1>2, <1>3, <2>3, MinorGood
  <2>5. NeedSet(r, a, id, TRUE)
    BY <2>4, SetNeedMinor
  <2> HIDE DEF a
  <2>. QED BY <1>3, <2>1, <2>3, <2>5, MinorTwice DEF NeedSet
<1>5. Minor(d, b) /\ b.queue = d.queue /\ Safe(b)
  <2>1. NeedSet(d, b, id, TRUE)
    BY <1>2, <1>3, SetNeedMinor
  <2> HIDE DEF b
  <2>. QED BY <2>1 DEF NeedSet
<1>6. ASSUME HeadCmd.cmd \in Hangups PROVE Minor(d, c) /\ c.queue = d.queue /\ Safe(c)
  <2>1. NeedSet(d, c, id, FALSE)
    BY <1>2, <1>3, SetNeedMinor
  <2> HIDE DEF c
  <2>. QED BY <1>6, <2>1 DEF NeedSet
<1>7. Minor(d, d) /\ Safe(d)
  BY <1>3, GoodTasks DEF Minor, Alike
<1> HIDE DEF a, b, c, r, Safe
<1>8. Minor(d, s) /\ s.queue = d.queue /\ Safe(s)
  BY <1>4, <1>5, <1>6, <1>7
<1> HIDE DEF s
<1>9. Good(s) /\ s.queue # <<>>
  BY <1>2, <1>3, <1>8, MinorGood
<1>10. Minor(s, t) /\ t.call = s.call
  BY <1>9, AdvanceMinor
<1> HIDE DEF t
<1>11. Minor(d, t)
  BY <1>3, <1>8, <1>10, MinorTwice
<1>12. Good(t) /\ Held(t) = Held(d) /\ Taken(t) = Taken(d)
  BY <1>3, <1>11, MinorGood
<1>13. ASSUME NEW o \in Ids, d.call[o].need, ~t.call[o].need
       PROVE  executed /\ HeadTask.cpvt = o /\ HeadCmd.cmd \in Hangups
  BY <1>2, <1>8, <1>10, <1>13 DEF Safe, id
<1>14. KeepsDuty
  BY <1>1, <1>13 DEF KeepsDuty
<1> QED BY <1>1, <1>12, <1>14

(* disconnect_dongle *)
LEMMA DisconnectDoes ==
  ASSUME Good(d), Disconnect
  PROVE  Good(d') /\ Held(d') = {} /\ Taken(d') = {} /\ KeepsDuty
<1> DEFINE s == Released(d)
           t == [s EXCEPT !.queue = <<>>, !.last = None,
                          !.ring = FALSE, !.cwaiting = FALSE, !.dialing = FALSE]
<1>1. d' = t
  BY DEF Disconnect
<1>2. Good(s) /\ Linked(s) = {}
  BY EndAll
<1> HIDE DEF s
<1>3. s \in Driver /\ <<>> \in Seq(Task)
  BY <1>2 DEF Good, Shape
<1>4. /\ t \in Driver /\ t.chans = s.chans /\ t.call = s.call /\ t.chan = s.chan
      /\ t.chansno = s.chansno /\ t.chan_count = s.chan_count /\ t.last = None
      /\ t.queue = <<>>
  BY <1>3 DEF Driver
<1> HIDE DEF t
<1>5. Minor(s, t)
  BY <1>2, <1>4, SameCalls
<1>6. Good(t) /\ Linked(t) = {}
  BY <1>2, <1>5, MinorGood
<1>7. Held(t) = {} /\ Taken(t) = {}
  BY <1>6 DEF Held, Taken, Incoming
<1>8. KeepsDuty
  BY <1>1, <1>6 DEF KeepsDuty
<1> QED BY <1>1, <1>6, <1>7, <1>8

LEMMA ErrorDoes ==
  ASSUME IInv, at_response_error
  PROVE  /\ Good(d') /\ Held(d') \subseteq Held(d) /\ Taken(d') \subseteq Taken(d) /\ KeepsDuty
         /\ Disconnect \/ (executed' = FALSE /\ inbox' = Tail(inbox) /\ UNCHANGED net)
<1> DEFINE id == HeadTask.cpvt
           told == HeadCmd.cmd \in {"A", "CHLD_2x", "CHLD_3"} /\ id # sys /\ d.call[id].ch
           h == queue_hangup(d, id)
           s == IF told THEN h ELSE d
           t == Advance(s, "ERROR")
<1>1. /\ inbox # <<>> /\ Head(inbox).type = "ERROR"
      /\ \/ Disconnect
         \/ d' = t /\ executed' = FALSE /\ inbox' = Tail(inbox) /\ UNCHANGED net
  BY DEF at_response_error, Reading
<1>2. executed /\ d.queue # <<>> /\ id \in Linked(d) \cup {sys}
  BY <1>1, ResultOfHead DEF Final
<1>3. Good(d) /\ Linked(d) \subseteq Ids /\ d \in Driver
  BY GoodTasks DEF IInv, Good, Shape
<1> HIDE DEF id
<1>4. CASE Disconnect
  BY <1>3, <1>4, DisconnectDoes
<1>5. CASE d' = t /\ executed' = FALSE /\ inbox' = Tail(inbox) /\ UNCHANGED net
  <2>1. ASSUME told PROVE Minor(d, h) /\ Kept(d, h) /\ h.queue = d.queue
    BY <1>2, <1>3, <2>1, QueueHangupMinor
  <2>2. Minor(d, d) /\ Kept(d, d)
    BY <1>3, GoodTasks DEF Minor, Alike, Kept
  <2> HIDE DEF h, told
  <2>3. Minor(d, s) /\ Kept(d, s) /\ s.queue = d.queue
    BY <2>1, <2>2
  <2> HIDE DEF s
  <2>4. Good(s) /\ s.queue # <<>>
    BY <1>2, <1>3, <2>3, MinorGood
  <2>5. Minor(s, t) /\ t.call = s.call
    BY <2>4, AdvanceMinor
  <2> HIDE DEF t
  <2>6. Minor(d, t)
    BY <1>3, <2>3, <2>5, MinorTwice
  <2>7. Good(t) /\ Held(t) = Held(d) /\ Taken(t) = Taken(d)
    BY <1>3, <2>6, MinorGood
  <2>8. KeepsDuty
    BY <1>5, <2>3, <2>5 DEF KeepsDuty, Kept
  <2>. QED BY <1>5, <2>7, <2>8
<1> QED BY <1>1, <1>4, <1>5

-----------------------------------------------------------------------------
(* The order of messages when the first is handled.                        *)
LEMMA HandledStory ==
  ASSUME IInv, inbox # <<>>, inbox' = Tail(inbox), net' = net,
         Held(d') \subseteq (Held(d) \cup HeldBy(Head(inbox))) \ EndedBy(Head(inbox)),
         Taken(d') \subseteq (Taken(d) \cup TakenBy(Head(inbox))) \ EndedBy(Head(inbox))
  PROVE  Story' /\ inbox' \in Seq(Message) /\ net' \in [Idx -> NetCall]
<1> DEFINE L == Len(inbox)
           (* where in inbox' what is told at p is told *)
           Moves(n, p, k) == p = k + 1 \/ (k = 0 /\ p = 0 /\ n \notin EndedBy(inbox[1]))
<1>1. inbox \in Seq(Message) /\ Story /\ net \in [Idx -> NetCall]
  BY DEF IInv
<1>2. /\ L \in Nat /\ L >= 1 /\ DOMAIN inbox = 1 .. L /\ Head(inbox) = inbox[1]
      /\ inbox' \in Seq(Message) /\ Len(inbox') = L - 1 /\ DOMAIN inbox' = 1 .. L - 1
      /\ \A i \in 1 .. L - 1 : inbox'[i] = inbox[i + 1]
  <2> DEFINE q == inbox
  <2>1. q \in Seq(Message) /\ q # <<>>
    BY <1>1
  <2> HIDE DEF q
  <2>2. /\ Len(q) \in Nat /\ Len(q) >= 1 /\ DOMAIN q = 1 .. Len(q) /\ Head(q) = q[1]
        /\ Tail(q) \in Seq(Message) /\ Len(Tail(q)) = Len(q) - 1 /\ DOMAIN Tail(q) = 1 .. Len(q) - 1
        /\ \A i \in 1 .. Len(q) - 1 : Tail(q)[i] = q[i + 1]
    BY <2>1
  <2>. QED BY <2>2 DEF q
<1> HIDE DEF L
<1>3. ASSUME NEW n, NEW k \in 0 .. L - 1, NEW p \in 0 .. L, Moves(n, p, k), EndAfter(n, p)
      PROVE  EndAfter(n, k)'
  <2>1. PICK j \in 1 .. L : p < j /\ n \in EndedBy(inbox[j])
    BY <1>2, <1>3 DEF EndAfter
  <2>2. j - 1 \in 1 .. L - 1 /\ k < j - 1 /\ (j - 1) + 1 = j
    <3>1. CASE p = k + 1
      BY <1>2, <2>1, <3>1
    <3>2. CASE k = 0 /\ p = 0 /\ n \notin EndedBy(inbox[1])
      <4>1. j # 1
        BY <2>1, <3>2
      <4>. QED BY <1>2, <2>1, <3>2, <4>1
    <3>. QED BY <1>3, <3>1, <3>2
  <2>3. inbox'[j - 1] = inbox[j]
    BY <1>2, <2>2
  <2>. QED BY <1>2, <2>1, <2>2, <2>3 DEF EndAfter
<1>4. ASSUME NEW n, NEW k \in 0 .. L - 1, NEW p \in 0 .. L, Moves(n, p, k),
             NEW q \in 1 .. L - 1, EndBetween(n, p, q + 1)
      PROVE  EndBetween(n, k, q)'
  <2>1. PICK j \in 1 .. L : p < j /\ j < q + 1 /\ n \in EndedBy(inbox[j])
    BY <1>2, <1>4 DEF EndBetween
  <2>2. j - 1 \in 1 .. L - 1 /\ k < j - 1 /\ j - 1 < q /\ (j - 1) + 1 = j
    <3>1. CASE p = k + 1
      BY <1>2, <2>1, <3>1
    <3>2. CASE k = 0 /\ p = 0 /\ n \notin EndedBy(inbox[1])
      <4>1. j # 1
        BY <2>1, <3>2
      <4>. QED BY <1>2, <2>1, <3>2, <4>1
    <3>. QED BY <1>4, <3>1, <3>2
  <2>3. inbox'[j - 1] = inbox[j]
    BY <1>2, <2>2
  <2>. QED BY <1>2, <2>1, <2>2, <2>3 DEF EndBetween
<1>5. ASSUME NEW n \in Idx, NEW k \in 0 .. L - 1, n \in HeldAt(k)'
      PROVE  \E p \in 0 .. L : Moves(n, p, k) /\ n \in HeldAt(p)
  <2>1. CASE k = 0
    <3>1. n \in Held(d) \cup HeldBy(inbox[1]) /\ n \notin EndedBy(inbox[1])
      BY <1>2, <1>5, <2>1 DEF HeldAt
    <3>2. CASE n \in Held(d)
      <4>1. 0 \in 0 .. L /\ Moves(n, 0, k) /\ n \in HeldAt(0)
        BY <1>2, <2>1, <3>1, <3>2 DEF HeldAt
      <4>. QED BY <4>1
    <3>3. CASE n \in HeldBy(inbox[1])
      <4>1. 1 \in 0 .. L /\ Moves(n, 1, k) /\ n \in HeldAt(1)
        BY <1>2, <2>1, <3>1, <3>3 DEF HeldAt
      <4>. QED BY <4>1
    <3>. QED BY <3>1, <3>2, <3>3
  <2>2. CASE k # 0
    <3>1. k \in 1 .. L - 1 /\ k + 1 \in 0 .. L /\ k + 1 # 0
      BY <1>2, <2>2
    <3>2. HeldAt(k)' = HeldAt(k + 1)
      BY <1>2, <2>2, <3>1 DEF HeldAt
    <3>3. k + 1 \in 0 .. L /\ Moves(n, k + 1, k) /\ n \in HeldAt(k + 1)
      BY <1>5, <3>1, <3>2
    <3>. QED BY <3>3
  <2>. QED BY <2>1, <2>2
<1>6. ASSUME NEW n \in Idx, NEW k \in 0 .. L - 1, n \in TakenAt(k)'
      PROVE  \E p \in 0 .. L : Moves(n, p, k) /\ n \in TakenAt(p)
  <2>1. CASE k = 0
    <3>1. n \in Taken(d) \cup TakenBy(inbox[1]) /\ n \notin EndedBy(inbox[1])
      BY <1>2, <1>6, <2>1 DEF TakenAt
    <3>2. CASE n \in Taken(d)
      <4>1. 0 \in 0 .. L /\ Moves(n, 0, k) /\ n \in TakenAt(0)
        BY <1>2, <2>1, <3>1, <3>2 DEF TakenAt
      <4>. QED BY <4>1
    <3>3. CASE n \in TakenBy(inbox[1])
      <4>1. 1 \in 0 .. L /\ Moves(n, 1, k) /\ n \in TakenAt(1)
        BY <1>2, <2>1, <3>1, <3>3 DEF TakenAt
      <4>. QED BY <4>1
    <3>. QED BY <3>1, <3>2, <3>3
  <2>2. CASE k # 0
    <3>1. k \in 1 .. L - 1 /\ k + 1 \in 0 .. L /\ k + 1 # 0
      BY <1>2, <2>2
    <3>2. TakenAt(k)' = TakenAt(k + 1)
      BY <1>2, <2>2, <3>1 DEF TakenAt
    <3>3. k + 1 \in 0 .. L /\ Moves(n, k + 1, k) /\ n \in TakenAt(k + 1)
      BY <1>6, <3>1, <3>2
    <3>. QED BY <3>3
  <2>. QED BY <2>1, <2>2
<1> HIDE DEF Moves
<1>7. \A q \in 1 .. L - 1 : inbox'[q] = inbox[q + 1] /\ q + 1 \in 1 .. L
  BY <1>2
<1>8. ASSUME NEW n \in Idx, NEW k \in 0 .. L - 1, n \in HeldAt(k)'
      PROVE  /\ (net'[n].dir = "in" /\ net'[n].st # "none") \/ EndAfter(n, k)'
             /\ \A q \in 1 .. L - 1 : k < q /\ n \in DialledBy(inbox'[q]) => EndBetween(n, k, q)'
  <2>1. PICK p \in 0 .. L : Moves(n, p, k) /\ n \in HeldAt(p)
    BY <1>5, <1>8
  <2>2. /\ (net[n].dir = "in" /\ net[n].st # "none") \/ EndAfter(n, p)
        /\ \A q \in 1 .. L : p < q /\ n \in DialledBy(inbox[q]) => EndBetween(n, p, q)
    BY <1>1, <1>2, <2>1 DEF Story, L
  <2>3. (net'[n].dir = "in" /\ net'[n].st # "none") \/ EndAfter(n, k)'
    BY <1>3, <2>1, <2>2
  <2>4. ASSUME NEW q \in 1 .. L - 1, k < q, n \in DialledBy(inbox'[q])
        PROVE  EndBetween(n, k, q)'
    <3>1. p < q + 1 /\ n \in DialledBy(inbox[q + 1]) /\ q + 1 \in 1 .. L
      BY <1>2, <1>7, <2>1, <2>4 DEF Moves
    <3>2. EndBetween(n, p, q + 1)
      BY <2>2, <3>1
    <3>. QED BY <1>4, <2>1, <3>2
  <2>. QED BY <2>3, <2>4
<1>9. ASSUME NEW n \in Idx, NEW k \in 0 .. L - 1, n \in TakenAt(k)'
      PROVE  /\ net'[n].st \in Spoken \/ EndAfter(n, k)'
             /\ \A q \in 1 .. L - 1 : k < q /\ n \in RingBy(inbox'[q]) => EndBetween(n, k, q)'
  <2>1. PICK p \in 0 .. L : Moves(n, p, k) /\ n \in TakenAt(p)
    BY <1>6, <1>9
  <2>2. /\ net[n].st \in Spoken \/ EndAfter(n, p)
        /\ \A q \in 1 .. L : p < q /\ n \in RingBy(inbox[q]) => EndBetween(n, p, q)
    BY <1>1, <1>2, <2>1 DEF Story, L
  <2>3. net'[n].st \in Spoken \/ EndAfter(n, k)'
    BY <1>3, <2>1, <2>2
  <2>4. ASSUME NEW q \in 1 .. L - 1, k < q, n \in RingBy(inbox'[q])
        PROVE  EndBetween(n, k, q)'
    <3>1. p < q + 1 /\ n \in RingBy(inbox[q + 1]) /\ q + 1 \in 1 .. L
      BY <1>2, <1>7, <2>1, <2>4 DEF Moves
    <3>2. EndBetween(n, p, q + 1)
      BY <2>2, <3>1
    <3>. QED BY <1>4, <2>1, <3>2
  <2>. QED BY <2>3, <2>4
<1>10. Story'
  BY <1>2, <1>8, <1>9 DEF Story
<1> QED BY <1>1, <1>2, <1>10

-----------------------------------------------------------------------------
(* The order of messages when the modem sends more.                        *)

Ends(msgs, n) == \E k \in DOMAIN msgs : n \in EndedBy(msgs[k])
(* What is sent tells of the calls as they are now, and the end of those   *)
(* that are no longer.                                                     *)
Honest(msgs) ==
  /\ \A n \in Idx : net[n].dir = "in" /\ net[n].st # "none"
       => (net'[n].dir = "in" /\ net'[n].st # "none") \/ Ends(msgs, n)
  /\ \A n \in Idx : net[n].st \in Spoken => net'[n].st \in Spoken \/ Ends(msgs, n)
  /\ \A n \in Idx, k \in DOMAIN msgs :
       /\ n \in HeldBy(msgs[k]) => /\ net'[n].dir = "in" /\ net'[n].st # "none"
                                   /\ \A j \in DOMAIN msgs : n \notin DialledBy(msgs[j])
       /\ n \in TakenBy(msgs[k]) => /\ net'[n].st \in Spoken
                                    /\ \A j \in DOMAIN msgs : n \notin RingBy(msgs[j])
       /\ n \in DialledBy(msgs[k]) => net[n].dir = "out"
       /\ n \in RingBy(msgs[k]) => net[n].st \in Ringing

(* Where the old messages and the new ones are. *)
LEMMA SentAt ==
  ASSUME inbox \in Seq(Message), NEW msgs \in Seq(Message), inbox' = inbox \o msgs
  PROVE  /\ Len(inbox) \in Nat /\ Len(msgs) \in Nat
         /\ DOMAIN inbox = 1 .. Len(inbox) /\ DOMAIN msgs = 1 .. Len(msgs)
         /\ inbox' \in Seq(Message) /\ Len(inbox') = Len(inbox) + Len(msgs)
         /\ DOMAIN inbox' = 1 .. Len(inbox) + Len(msgs)
         /\ \A i \in 1 .. Len(inbox) : inbox'[i] = inbox[i]
         /\ \A i \in 1 .. Len(msgs) : inbox'[Len(inbox) + i] = msgs[i]
<1> DEFINE q == inbox
           r == q \o msgs
<1>1. q \in Seq(Message) /\ msgs \in Seq(Message)
  OBVIOUS
<1> HIDE DEF q
<1>2. /\ r \in Seq(Message) /\ Len(r) = Len(q) + Len(msgs)
      /\ \A i \in 1 .. Len(r) : r[i] = IF i <= Len(q) THEN q[i] ELSE msgs[i - Len(q)]
  BY <1>1, ConcatProperties
<1>3. Len(q) \in Nat /\ Len(msgs) \in Nat /\ DOMAIN q = 1 .. Len(q) /\ DOMAIN msgs = 1 .. Len(msgs)
  BY <1>1
<1> HIDE DEF r
<1>4. DOMAIN r = 1 .. Len(r)
  BY <1>2
<1>5. \A i \in 1 .. Len(q) : r[i] = q[i]
  BY <1>2, <1>3
<1>6. ASSUME NEW i \in 1 .. Len(msgs) PROVE r[Len(q) + i] = msgs[i]
  <2>1. Len(q) + i \in 1 .. Len(r) /\ ~(Len(q) + i <= Len(q)) /\ (Len(q) + i) - Len(q) = i
    BY <1>2, <1>3
  <2>. QED BY <1>2, <2>1
<1>7. inbox' = r
  BY DEF q, r
<1> QED BY <1>2, <1>3, <1>4, <1>5, <1>6, <1>7 DEF q

LEMMA SentStory ==
  ASSUME IInv, NEW msgs \in Seq(Message), inbox' = inbox \o msgs, d' = d, Honest(msgs)
  PROVE  Story' /\ inbox' \in Seq(Message)
<1> DEFINE L == Len(inbox)
           M == Len(msgs)
<1>1. inbox \in Seq(Message) /\ Story
  BY DEF IInv
<1>2. /\ L \in Nat /\ M \in Nat /\ DOMAIN inbox = 1 .. L /\ DOMAIN msgs = 1 .. M
      /\ inbox' \in Seq(Message) /\ Len(inbox') = L + M /\ DOMAIN inbox' = 1 .. L + M
      /\ \A i \in 1 .. L : inbox'[i] = inbox[i]
      /\ \A i \in 1 .. M : inbox'[L + i] = msgs[i]
  BY <1>1, SentAt DEF L, M
<1> HIDE DEF L, M
<1>3. ASSUME NEW i \in 1 .. L + M, i > L PROVE i - L \in 1 .. M /\ inbox'[i] = msgs[i - L]
  <2>1. i - L \in 1 .. M /\ L + (i - L) = i
    BY <1>2, <1>3
  <2>. QED BY <1>2, <2>1
<1>4. ASSUME NEW n, NEW p \in 0 .. L, EndAfter(n, p) \/ Ends(msgs, n) PROVE EndAfter(n, p)'
  <2>1. ASSUME EndAfter(n, p) PROVE EndAfter(n, p)'
    <3>1. PICK j \in 1 .. L : p < j /\ n \in EndedBy(inbox[j])
      BY <1>2, <2>1 DEF EndAfter
    <3>2. j \in 1 .. L + M /\ inbox'[j] = inbox[j]
      BY <1>2, <3>1
    <3>. QED BY <1>2, <3>1, <3>2 DEF EndAfter
  <2>2. ASSUME Ends(msgs, n) PROVE EndAfter(n, p)'
    <3>1. PICK k \in 1 .. M : n \in EndedBy(msgs[k])
      BY <1>2, <2>2 DEF Ends
    <3>2. L + k \in 1 .. L + M /\ p < L + k /\ inbox'[L + k] = msgs[k]
      BY <1>2, <3>1
    <3>. QED BY <1>2, <3>1, <3>2 DEF EndAfter
  <2>. QED BY <1>4, <2>1, <2>2
<1>5. ASSUME NEW n, NEW p \in 0 .. L, NEW q \in 1 .. L, EndBetween(n, p, q) PROVE EndBetween(n, p, q)'
  <2>1. PICK j \in 1 .. L : p < j /\ j < q /\ n \in EndedBy(inbox[j])
    BY <1>2, <1>5 DEF EndBetween
  <2>2. j \in 1 .. L + M /\ inbox'[j] = inbox[j]
    BY <1>2, <2>1
  <2>. QED BY <1>2, <2>1, <2>2 DEF EndBetween
<1>6. ASSUME NEW n, NEW p \in 0 .. L, NEW q \in 1 .. L + M, q > L, EndAfter(n, p)
      PROVE  EndBetween(n, p, q)'
  <2>1. PICK j \in 1 .. L : p < j /\ n \in EndedBy(inbox[j])
    BY <1>2, <1>6 DEF EndAfter
  <2>2. j \in 1 .. L + M /\ j < q /\ inbox'[j] = inbox[j]
    BY <1>2, <1>6, <2>1
  <2>. QED BY <1>2, <2>1, <2>2 DEF EndBetween
<1>7. \A p \in 0 .. L : HeldAt(p)' = HeldAt(p) /\ TakenAt(p)' = TakenAt(p)
  <2> SUFFICES ASSUME NEW p \in 0 .. L PROVE HeldAt(p)' = HeldAt(p) /\ TakenAt(p)' = TakenAt(p)
    OBVIOUS
  <2>1. CASE p = 0
    BY <2>1 DEF HeldAt, TakenAt
  <2>2. CASE p # 0
    <3>1. inbox'[p] = inbox[p]
      BY <1>2, <2>2
    <3>. QED BY <2>2, <3>1 DEF HeldAt, TakenAt
  <2>. QED BY <2>1, <2>2
<1>8. ASSUME NEW n \in Idx, NEW p \in 0 .. L + M, n \in HeldAt(p)'
      PROVE  /\ (net'[n].dir = "in" /\ net'[n].st # "none") \/ EndAfter(n, p)'
             /\ \A q \in 1 .. L + M : p < q /\ n \in DialledBy(inbox'[q]) => EndBetween(n, p, q)'
  <2>1. CASE p \in 0 .. L
    <3>1. n \in HeldAt(p)
      BY <1>7, <1>8, <2>1
    <3>2. /\ (net[n].dir = "in" /\ net[n].st # "none") \/ EndAfter(n, p)
          /\ \A q \in 1 .. L : p < q /\ n \in DialledBy(inbox[q]) => EndBetween(n, p, q)
      BY <1>1, <1>2, <2>1, <3>1 DEF Story, L
    <3>3. (net'[n].dir = "in" /\ net'[n].st # "none") \/ EndAfter(n, p)'
      BY <1>4, <2>1, <3>2 DEF Honest
    <3>4. ASSUME NEW q \in 1 .. L + M, p < q, n \in DialledBy(inbox'[q])
          PROVE  EndBetween(n, p, q)'
      <4>1. CASE q \in 1 .. L
        BY <1>2, <1>5, <2>1, <3>2, <3>4, <4>1
      <4>2. CASE q > L
        <5>1. q - L \in DOMAIN msgs /\ n \in DialledBy(msgs[q - L])
          BY <1>2, <1>3, <3>4, <4>2
        <5>2. net[n].dir = "out"
          BY <5>1 DEF Honest
        <5>3. EndAfter(n, p)
          BY <3>2, <5>2
        <5>. QED BY <1>6, <2>1, <4>2, <5>3
      <4>. QED BY <1>2, <4>1, <4>2
    <3>. QED BY <3>3, <3>4
  <2>2. CASE p > L
    <3>1. p \in 1 .. L + M /\ p # 0
      BY <1>2, <2>2
    <3>2. p - L \in DOMAIN msgs /\ inbox'[p] = msgs[p - L]
      BY <1>2, <1>3, <2>2, <3>1
    <3>3. n \in HeldBy(msgs[p - L])
      BY <1>8, <3>1, <3>2 DEF HeldAt
    <3>4. /\ net'[n].dir = "in" /\ net'[n].st # "none"
          /\ \A j \in DOMAIN msgs : n \notin DialledBy(msgs[j])
      BY <3>2, <3>3 DEF Honest
    <3>5. ASSUME NEW q \in 1 .. L + M, p < q, n \in DialledBy(inbox'[q]) PROVE FALSE
      <4>1. q > L
        BY <1>2, <2>2, <3>5
      <4>2. q - L \in DOMAIN msgs /\ n \in DialledBy(msgs[q - L])
        BY <1>2, <1>3, <3>5, <4>1
      <4>. QED BY <3>4, <4>2
    <3>. QED BY <3>4, <3>5
  <2>. QED BY <1>2, <2>1, <2>2
<1>9. ASSUME NEW n \in Idx, NEW p \in 0 .. L + M, n \in TakenAt(p)'
      PROVE  /\ net'[n].st \in Spoken \/ EndAfter(n, p)'
             /\ \A q \in 1 .. L + M : p < q /\ n \in RingBy(inbox'[q]) => EndBetween(n, p, q)'
  <2>1. CASE p \in 0 .. L
    <3>1. n \in TakenAt(p)
      BY <1>7, <1>9, <2>1
    <3>2. /\ net[n].st \in Spoken \/ EndAfter(n, p)
          /\ \A q \in 1 .. L : p < q /\ n \in RingBy(inbox[q]) => EndBetween(n, p, q)
      BY <1>1, <1>2, <2>1, <3>1 DEF Story, L
    <3>3. net'[n].st \in Spoken \/ EndAfter(n, p)'
      BY <1>4, <2>1, <3>2 DEF Honest
    <3>4. ASSUME NEW q \in 1 .. L + M, p < q, n \in RingBy(inbox'[q])
          PROVE  EndBetween(n, p, q)'
      <4>1. CASE q \in 1 .. L
        BY <1>2, <1>5, <2>1, <3>2, <3>4, <4>1
      <4>2. CASE q > L
        <5>1. q - L \in DOMAIN msgs /\ n \in RingBy(msgs[q - L])
          BY <1>2, <1>3, <3>4, <4>2
        <5>2. net[n].st \in Ringing
          BY <5>1 DEF Honest
        <5>3. EndAfter(n, p)
          BY <3>2, <5>2 DEF Spoken, Ringing
        <5>. QED BY <1>6, <2>1, <4>2, <5>3
      <4>. QED BY <1>2, <4>1, <4>2
    <3>. QED BY <3>3, <3>4
  <2>2. CASE p > L
    <3>1. p \in 1 .. L + M /\ p # 0
      BY <1>2, <2>2
    <3>2. p - L \in DOMAIN msgs /\ inbox'[p] = msgs[p - L]
      BY <1>2, <1>3, <2>2, <3>1
    <3>3. n \in TakenBy(msgs[p - L])
      BY <1>9, <3>1, <3>2 DEF TakenAt
    <3>4. net'[n].st \in Spoken /\ \A j \in DOMAIN msgs : n \notin RingBy(msgs[j])
      BY <3>2, <3>3 DEF Honest
    <3>5. ASSUME NEW q \in 1 .. L + M, p < q, n \in RingBy(inbox'[q]) PROVE FALSE
      <4>1. q > L
        BY <1>2, <2>2, <3>5
      <4>2. q - L \in DOMAIN msgs /\ n \in RingBy(msgs[q - L])
        BY <1>2, <1>3, <3>5, <4>1
      <4>. QED BY <3>4, <4>2
    <3>. QED BY <3>4, <3>5
  <2>. QED BY <1>2, <2>1, <2>2
<1>10. Story'
  BY <1>2, <1>8, <1>9 DEF Story
<1> QED BY <1>2, <1>10

(* One result at most is on the way, and only while its command waits.     *)
LEMMA SentWire ==
  ASSUME IInv, NEW msgs \in Seq(Message), inbox' = inbox \o msgs, d' = d,
         \/ executed' = executed /\ \A k \in DOMAIN msgs : ~Final(msgs[k])
         \/ /\ ~executed /\ executed' = TRUE /\ d.queue # <<>>
            /\ \A j, k \in DOMAIN msgs : Final(msgs[j]) /\ Final(msgs[k]) => j = k
  PROVE  Wire'
<1> DEFINE L == Len(inbox)
           M == Len(msgs)
<1>1. inbox \in Seq(Message) /\ Wire
  BY DEF IInv
<1>2. /\ L \in Nat /\ M \in Nat /\ DOMAIN inbox = 1 .. L /\ DOMAIN msgs = 1 .. M
      /\ DOMAIN inbox' = 1 .. L + M
      /\ \A i \in 1 .. L : inbox'[i] = inbox[i]
      /\ \A i \in 1 .. M : inbox'[L + i] = msgs[i]
  BY <1>1, SentAt
<1> HIDE DEF L, M
<1>3. ASSUME NEW i \in 1 .. L + M, Final(inbox'[i])
      PROVE  \/ i \in DOMAIN inbox /\ Final(inbox[i])
             \/ i > L /\ i - L \in DOMAIN msgs /\ Final(msgs[i - L])
  <2>1. CASE i <= L
    <3>1. i \in 1 .. L
      BY <1>2, <2>1
    <3>. QED BY <1>2, <1>3, <3>1
  <2>2. CASE i > L
    <3>1. i - L \in 1 .. M /\ L + (i - L) = i
      BY <1>2, <2>2
    <3>2. inbox'[i] = msgs[i - L]
      BY <1>2, <3>1
    <3>. QED BY <1>2, <1>3, <2>2, <3>1, <3>2
  <2>. QED BY <1>2, <2>1, <2>2
<1>4. CASE executed' = executed /\ \A k \in DOMAIN msgs : ~Final(msgs[k])
  <2>1. \A i \in 1 .. L + M : Final(inbox'[i]) => i \in DOMAIN inbox /\ Final(inbox[i])
    BY <1>3, <1>4
  <2>. QED BY <1>1, <1>2, <1>4, <2>1 DEF Wire, Final
<1>5. CASE /\ ~executed /\ executed' = TRUE /\ d.queue # <<>>
           /\ \A j, k \in DOMAIN msgs : Final(msgs[j]) /\ Final(msgs[k]) => j = k
  <2>1. \A i \in 1 .. L + M : Final(inbox'[i]) => i > L /\ i - L \in DOMAIN msgs /\ Final(msgs[i - L])
    BY <1>1, <1>3, <1>5 DEF Wire
  <2>2. ASSUME NEW i \in 1 .. L + M, NEW j \in 1 .. L + M, Final(inbox'[i]), Final(inbox'[j])
        PROVE  i = j
    <3>1. i - L = j - L
      BY <1>5, <2>1, <2>2
    <3>. QED BY <1>2, <3>1
  <2>. QED BY <1>2, <1>5, <2>2 DEF Wire, Final
<1> QED BY <1>4, <1>5

(* The messages MsgsFor makes. *)
LEMMA MsgFields ==
  ASSUME NEW type \in Types \ {"CLCC"}, NEW n \in 0 .. 31,
         type \in {"ORIG", "CEND", "CONN"} => n \in Idx
  PROVE  /\ Msg(type, n) \in Message /\ Msg(type, n).type = type /\ Msg(type, n).idx = n
         /\ Msg(type, n).lines = <<>>
<1>1. <<>> \in Seq(Line) /\ 1 .. Len(<<>>) = {}
  OBVIOUS
<1> QED BY <1>1 DEF Msg, Message

Mentions(s, type, set) ==
  /\ s \in Seq(Message)
  /\ \A i \in DOMAIN s : \E n \in set : s[i] = Msg(type, n)
  /\ \A n \in set : \E i \in DOMAIN s : s[i] = Msg(type, n)

LEMMA MsgsForSay ==
  ASSUME NEW type \in {"CONN", "CEND"}, NEW set \in SUBSET Idx
  PROVE  Mentions(MsgsFor(type, set), type, set)
<1> DEFINE f == [i \in Idx |-> Msg(type, i)]
<1>1. \A i \in Idx : i \in 0 .. 31
  BY BoundsAssumption DEF Idx
<1>2. f \in [Idx -> Message]
  BY <1>1, MsgFields DEF Types
<1>3. \A i \in Idx : f[i] = Msg(type, i)
  OBVIOUS
<1>4. MsgsFor(type, set) = InOrder(set, f)
  BY DEF MsgsFor
<1> HIDE DEF f
<1>5. /\ InOrder(set, f) \in Seq(Message)
      /\ \A i \in DOMAIN InOrder(set, f) : \E n \in set : InOrder(set, f)[i] = f[n]
      /\ \A n \in set : \E i \in DOMAIN InOrder(set, f) : InOrder(set, f)[i] = f[n]
  BY <1>2, InOrderSays
<1> QED BY <1>3, <1>4, <1>5 DEF Mentions

(* The OK of a command, with what else it says. *)
Answers(msgs, s) ==
  /\ msgs \in Seq(Message)
  /\ \A k \in DOMAIN msgs : msgs[k] = OK \/ \E i \in DOMAIN s : msgs[k] = s[i]
  /\ \A i \in DOMAIN s : \E k \in DOMAIN msgs : msgs[k] = s[i]
  /\ \A j, k \in DOMAIN msgs : Final(msgs[j]) /\ Final(msgs[k]) => j = k

LEMMA WithOk ==
  ASSUME NEW s \in Seq(Message), \A i \in DOMAIN s : ~Final(s[i])
  PROVE  Answers(s \o <<OK>>, s) /\ Answers(<<OK>> \o s, s)
<1> DEFINE o == <<OK>>
           L == Len(s)
           a == s \o o
           b == o \o s
<1>1. OK \in Message /\ Final(OK)
  <2>1. "OK" \in Types \ {"CLCC"} /\ "OK" \notin {"ORIG", "CEND", "CONN"} /\ 0 \in 0 .. 31
    BY DEF Types
  <2>. QED BY <2>1, MsgFields DEF OK, Final
<1>2. o \in Seq(Message) /\ Len(o) = 1 /\ o[1] = OK /\ L \in Nat /\ DOMAIN s = 1 .. L
  BY <1>1
<1> HIDE DEF o
<1>3. /\ a \in Seq(Message) /\ Len(a) = L + 1 /\ DOMAIN a = 1 .. L + 1
      /\ \A i \in 1 .. L : a[i] = s[i]
      /\ a[L + 1] = OK
  <2>1. /\ a \in Seq(Message) /\ Len(a) = Len(s) + Len(o)
        /\ \A i \in 1 .. Len(a) : a[i] = IF i <= Len(s) THEN s[i] ELSE o[i - Len(s)]
    <3>1. o \in Seq(Message) /\ s \in Seq(Message)
      BY <1>2
    <3> DEFINE c == s \o o
    <3>2. /\ c \in Seq(Message) /\ Len(c) = Len(s) + Len(o)
          /\ \A i \in 1 .. Len(s) + Len(o) :
               c[i] = IF i <= Len(s) THEN s[i] ELSE o[i - Len(s)]
      BY <3>1, ConcatProperties
    <3> HIDE DEF c
    <3>. QED BY <3>2 DEF c
  <2> HIDE DEF a
  <2>2. L + 1 \in 1 .. Len(a) /\ ~(L + 1 <= Len(s)) /\ (L + 1) - Len(s) = 1
    BY <1>2, <2>1
  <2>3. a[L + 1] = OK
    BY <1>2, <2>1, <2>2
  <2>. QED BY <1>2, <2>1, <2>3
<1>4. /\ b \in Seq(Message) /\ Len(b) = L + 1 /\ DOMAIN b = 1 .. L + 1
      /\ \A i \in 1 .. L : b[i + 1] = s[i]
      /\ b[1] = OK
  <2>1. /\ b \in Seq(Message) /\ Len(b) = Len(o) + Len(s)
        /\ \A i \in 1 .. Len(b) : b[i] = IF i <= Len(o) THEN o[i] ELSE s[i - Len(o)]
    <3>1. o \in Seq(Message) /\ s \in Seq(Message)
      BY <1>2
    <3> DEFINE c == o \o s
    <3>2. /\ c \in Seq(Message) /\ Len(c) = Len(o) + Len(s)
          /\ \A i \in 1 .. Len(o) + Len(s) :
               c[i] = IF i <= Len(o) THEN o[i] ELSE s[i - Len(o)]
      BY <3>1, ConcatProperties
    <3> HIDE DEF c
    <3>. QED BY <3>2 DEF c
  <2> HIDE DEF b
  <2>2. b[1] = OK
    BY <1>2, <2>1
  <2>3. ASSUME NEW i \in 1 .. L PROVE b[i + 1] = s[i]
    <3>1. i + 1 \in 1 .. Len(b) /\ ~(i + 1 <= Len(o)) /\ (i + 1) - Len(o) = i
      BY <1>2, <2>1
    <3>. QED BY <2>1, <3>1
  <2>. QED BY <1>2, <2>1, <2>2, <2>3
<1> HIDE DEF a, b, L
<1>5. Answers(a, s)
  <2>1. \A k \in 1 .. L + 1 : k = L + 1 \/ k \in 1 .. L
    BY <1>2
  <2>2. \A k \in 1 .. L : k \in 1 .. L + 1
    BY <1>2
  <2>3. \A k \in DOMAIN a : Final(a[k]) => k = L + 1
    BY <1>2, <1>3, <2>1
  <2>. QED BY <1>2, <1>3, <2>1, <2>2, <2>3 DEF Answers
<1>6. Answers(b, s)
  <2>1. \A k \in 1 .. L + 1 : k = 1 \/ (k - 1 \in 1 .. L /\ (k - 1) + 1 = k)
    BY <1>2
  <2>2. \A k \in 1 .. L : k + 1 \in 1 .. L + 1
    BY <1>2
  <2>3. \A k \in DOMAIN b : k = 1 \/ (k - 1 \in DOMAIN s /\ b[k] = s[k - 1])
    BY <1>2, <1>4, <2>1
  <2>4. \A k \in DOMAIN b : Final(b[k]) => k = 1
    BY <2>3
  <2>. QED BY <1>2, <1>4, <2>2, <2>3, <2>4 DEF Answers
<1> QED BY <1>5, <1>6 DEF a, b, o

(* Messages that tell of calls taken and of calls ended only. *)
Plain(msgs, conn, told) ==
  /\ \A k \in DOMAIN msgs : \/ msgs[k].type \in {"OK", "ERROR", "RING", "CCWA", "BUSY"}
                            \/ \E n \in conn : msgs[k] = Msg("CONN", n)
                            \/ \E n \in told : msgs[k] = Msg("CEND", n)
  /\ \A n \in told : \E k \in DOMAIN msgs : msgs[k] = Msg("CEND", n)

LEMMA PlainHonest ==
  ASSUME NEW msgs, NEW conn \in SUBSET Idx, NEW told \in SUBSET Idx, Plain(msgs, conn, told),
         \A n \in conn : net'[n].st \in Spoken,
         \A n \in Idx : net[n].dir = "in" /\ net[n].st # "none"
           => (net'[n].dir = "in" /\ net'[n].st # "none") \/ n \in told,
         \A n \in Idx : net[n].st \in Spoken => net'[n].st \in Spoken \/ n \in told
  PROVE  Honest(msgs)
<1>1. ASSUME NEW n \in told PROVE Ends(msgs, n)
  <2>1. PICK k \in DOMAIN msgs : msgs[k] = Msg("CEND", n)
    BY DEF Plain
  <2>2. n \in EndedBy(msgs[k])
    BY <2>1 DEF Msg, EndedBy
  <2>. QED BY <2>2 DEF Ends
<1>2. ASSUME NEW k \in DOMAIN msgs
      PROVE  /\ HeldBy(msgs[k]) = {} /\ RingBy(msgs[k]) = {} /\ DialledBy(msgs[k]) = {}
             /\ \A n \in TakenBy(msgs[k]) : n \in conn
  <2>1. CASE msgs[k].type \in {"OK", "ERROR", "RING", "CCWA", "BUSY"}
    BY <2>1 DEF HeldBy, RingBy, DialledBy, TakenBy
  <2>2. CASE \E n \in conn : msgs[k] = Msg("CONN", n)
    BY <2>2 DEF Msg, HeldBy, RingBy, DialledBy, TakenBy
  <2>3. CASE \E n \in told : msgs[k] = Msg("CEND", n)
    BY <2>3 DEF Msg, HeldBy, RingBy, DialledBy, TakenBy
  <2>. QED BY <2>1, <2>2, <2>3 DEF Plain
<1>3. ASSUME NEW n \in Idx, NEW k \in DOMAIN msgs
      PROVE  /\ n \notin HeldBy(msgs[k]) /\ n \notin RingBy(msgs[k]) /\ n \notin DialledBy(msgs[k])
             /\ n \in TakenBy(msgs[k]) => net'[n].st \in Spoken
  BY <1>2
<1>4. \A n \in Idx : net[n].dir = "in" /\ net[n].st # "none"
        => (net'[n].dir = "in" /\ net'[n].st # "none") \/ Ends(msgs, n)
  BY <1>1
<1>5. \A n \in Idx : net[n].st \in Spoken => net'[n].st \in Spoken \/ Ends(msgs, n)
  BY <1>1
<1> QED BY <1>3, <1>4, <1>5 DEF Honest

LEMMA AnswersPlain ==
  ASSUME NEW msgs, NEW s, NEW set, Answers(msgs, s)
  PROVE  /\ Mentions(s, "CONN", set) => Plain(msgs, set, {})
         /\ Mentions(s, "CEND", set) => Plain(msgs, {}, set)
         /\ s = <<>> => Plain(msgs, {}, {})
<1>1. OK.type = "OK" /\ DOMAIN <<>> = {}
  BY DEF OK, Msg
<1>2. Mentions(s, "CONN", set) => Plain(msgs, set, {})
  BY <1>1 DEF Answers, Mentions, Plain
<1>3. Mentions(s, "CEND", set) => Plain(msgs, {}, set)
  BY <1>1 DEF Answers, Mentions, Plain
<1>4. s = <<>> => Plain(msgs, {}, {})
  BY <1>1 DEF Answers, Plain
<1> QED BY <1>2, <1>3, <1>4

(* Calls that change their state, as the messages tell. *)
LEMMA BecameHonest ==
  ASSUME net \in [Idx -> NetCall], NEW from \in SUBSET Idx,
         NEW to \in {"active", "onhold", "none", "dialing", "alerting"},
         NEW msgs, NEW conn \in SUBSET Idx, NEW told \in SUBSET Idx, Plain(msgs, conn, told),
         net' = Became(from, to),
         to \in {"dialing", "alerting"} =>
           \A i \in from : net[i].dir = "out" /\ net[i].st \notin Spoken,
         to = "none" => \A i \in from : \/ i \in told \/ net[i].st = "none"
                                        \/ net[i].dir = "out" /\ net[i].st \notin Spoken,
         \A n \in conn : n \in from /\ to = "active"
  PROVE  net' \in [Idx -> NetCall] /\ Honest(msgs)
<1>1. ASSUME NEW i \in Idx
      PROVE  /\ net'[i] \in NetCall /\ net'[i].dir = net[i].dir
             /\ net'[i].st = IF i \in from THEN to ELSE net[i].st
  <2>1. net[i] \in NetCall
    OBVIOUS
  <2>2. CASE i \in from
    <3> DEFINE c == [net[i] EXCEPT !.st = to]
    <3>1. net'[i] = c
      BY <2>2 DEF Became
    <3>2. c.dir = net[i].dir /\ c.st = to
      BY <2>1 DEF NetCall
    <3>3. c \in NetCall
      BY <2>1, <2>2 DEF NetCall, InStates, OutStates, Dirs
    <3> HIDE DEF c
    <3>. QED BY <2>2, <3>1, <3>2, <3>3
  <2>3. CASE i \notin from
    <3>1. net'[i] = net[i]
      BY <2>3 DEF Became
    <3>. QED BY <2>1, <2>3, <3>1
  <2>. QED BY <2>2, <2>3
<1>2. net' \in [Idx -> NetCall]
  <2>1. net' = [i \in Idx |-> net'[i]]
    BY DEF Became
  <2>. QED BY <1>1, <2>1
<1>3. \A n \in conn : net'[n].st \in Spoken
  BY <1>1 DEF Spoken
<1>4. \A n \in Idx : net[n].dir = "in" /\ net[n].st # "none"
        => (net'[n].dir = "in" /\ net'[n].st # "none") \/ n \in told
  BY <1>1
<1>5. \A n \in Idx : net[n].st \in Spoken => net'[n].st \in Spoken \/ n \in told
  BY <1>1 DEF Spoken
<1> QED BY <1>2, <1>3, <1>4, <1>5, PlainHonest

(* What a command makes of the calls, and what it says. *)
Sends(msgs) ==
  /\ net' \in [Idx -> NetCall] /\ msgs \in Seq(Message) /\ Honest(msgs)
  /\ \A j, k \in DOMAIN msgs : Final(msgs[j]) /\ Final(msgs[k]) => j = k

LEMMA SwapSends ==
  ASSUME net \in [Idx -> NetCall], NEW taken \in SUBSET In({"waiting", "onhold", "active"}),
         net' = Swap(taken).net
  PROVE  Sends(Swap(taken).msgs)
<1> DEFINE set == taken \cap In({"waiting"})
           s == MsgsFor("CONN", set)
           msgs == s \o <<OK>>
           calls == [i \in Idx |-> CASE i \in taken -> [net[i] EXCEPT !.st = "active"]
                                     [] i \in In({"active"}) \ taken -> [net[i] EXCEPT !.st = "onhold"]
                                     [] OTHER -> net[i]]
<1>1. Swap(taken).msgs = msgs /\ net' = calls
  BY DEF Swap, Outcome
<1>2. taken \subseteq Idx /\ set \in SUBSET Idx
  BY DEF In
<1>3. Mentions(s, "CONN", set)
  BY <1>2, MsgsForSay
<1> HIDE DEF s
<1>4. Answers(msgs, s)
  <2>1. s \in Seq(Message) /\ \A i \in DOMAIN s : ~Final(s[i])
    BY <1>3 DEF Mentions, Final, Msg
  <2>. QED BY <2>1, WithOk
<1> HIDE DEF msgs
<1>5. Plain(msgs, set, {})
  BY <1>3, <1>4, AnswersPlain
<1>6. ASSUME NEW i \in Idx
      PROVE  /\ net'[i] \in NetCall /\ net'[i].dir = net[i].dir
             /\ net'[i].st = "none" <=> net[i].st = "none"
             /\ net[i].st \in Spoken \/ i \in set => net'[i].st \in Spoken
  <2>1. net[i] \in NetCall /\ net[i].dir \in Dirs
    BY DEF NetCall
  <2> DEFINE a == [net[i] EXCEPT !.st = "active"]
             b == [net[i] EXCEPT !.st = "onhold"]
  <2>2. a \in NetCall /\ a.dir = net[i].dir /\ a.st = "active"
    BY <2>1 DEF NetCall, InStates, OutStates
  <2>3. b \in NetCall /\ b.dir = net[i].dir /\ b.st = "onhold"
    BY <2>1 DEF NetCall, InStates, OutStates
  <2> HIDE DEF a, b
  <2>4. CASE i \in taken
    <3>1. net'[i] = a
      BY <1>1, <2>4 DEF a
    <3>2. net[i].st \in {"waiting", "onhold", "active"}
      BY <2>4 DEF In
    <3>. QED BY <2>2, <3>1, <3>2 DEF Spoken
  <2>5. CASE i \in In({"active"}) \ taken
    <3>1. net'[i] = b
      BY <1>1, <2>5 DEF b
    <3>2. net[i].st = "active"
      BY <2>5 DEF In
    <3>. QED BY <2>3, <3>1, <3>2 DEF Spoken
  <2>6. CASE i \notin taken /\ i \notin In({"active"})
    <3>1. net'[i] = net[i]
      BY <1>1, <2>6
    <3>. QED BY <2>1, <2>6, <3>1
  <2>. QED BY <2>4, <2>5, <2>6
<1>7. net' \in [Idx -> NetCall]
  <2>1. net' = [i \in Idx |-> net'[i]]
    BY <1>1
  <2>. QED BY <1>6, <2>1
<1>8. Honest(msgs)
  <2>1. \A n \in set : net'[n].st \in Spoken
    BY <1>2, <1>6
  <2>2. \A n \in Idx : net[n].dir = "in" /\ net[n].st # "none"
          => (net'[n].dir = "in" /\ net'[n].st # "none") \/ n \in {}
    BY <1>6
  <2>3. \A n \in Idx : net[n].st \in Spoken => net'[n].st \in Spoken \/ n \in {}
    BY <1>6
  <2> HIDE DEF set
  <2>. QED BY <1>2, <1>5, <2>1, <2>2, <2>3, PlainHonest
<1> QED BY <1>1, <1>4, <1>7, <1>8 DEF Sends, Answers

(* A command that changes the state of calls and says which were taken and *)
(* which ended.                                                            *)
LEMMA BecameSends ==
  ASSUME net \in [Idx -> NetCall], NEW from \in SUBSET Idx,
         NEW to \in {"active", "onhold", "none"},
         NEW msgs, NEW s, NEW conn \in SUBSET Idx, NEW told \in SUBSET Idx,
         Answers(msgs, s), Plain(msgs, conn, told), net' = Became(from, to),
         to = "none" => \A i \in from : \/ i \in told \/ net[i].st = "none"
                                        \/ net[i].dir = "out" /\ net[i].st \notin Spoken,
         \A n \in conn : n \in from /\ to = "active"
  PROVE  Sends(msgs)
<1>1. net' \in [Idx -> NetCall] /\ Honest(msgs)
  BY BecameHonest
<1> QED BY <1>1 DEF Sends, Answers

LEMMA OkAlone ==
  /\ Answers(<<OK>>, <<>>) /\ Plain(<<OK>>, {}, {})
<1> DEFINE o == <<OK>>
<1>1. OK \in Message /\ OK.type = "OK"
  <2>1. "OK" \in Types \ {"CLCC"} /\ "OK" \notin {"ORIG", "CEND", "CONN"} /\ 0 \in 0 .. 31
    BY DEF Types
  <2>. QED BY <2>1, MsgFields DEF OK
<1>2. o \in Seq(Message) /\ DOMAIN o = {1} /\ o[1] = OK /\ DOMAIN <<>> = {}
  BY <1>1
<1> HIDE DEF o
<1>3. Answers(o, <<>>) /\ Plain(o, {}, {})
  BY <1>1, <1>2 DEF Answers, Plain
<1> QED BY <1>3 DEF o

(* ATD: the modem places the call on the lowest free number. *)
LEMMA DialSends ==
  ASSUME net \in [Idx -> NetCall], NEW i \in In({"none"}),
         net' = [net EXCEPT ![i] = [dir |-> "out", st |-> "placed"]]
  PROVE  Sends(<<OK>>)
<1> DEFINE c == [dir |-> "out", st |-> "placed"]
           o == <<OK>>
<1>1. i \in Idx /\ net[i].st = "none"
  BY DEF In
<1>2. c \in NetCall /\ c.dir = "out" /\ c.st = "placed"
  BY DEF NetCall, OutStates, Dirs
<1> HIDE DEF c
<1>3. net' \in [Idx -> NetCall] /\ \A n \in Idx : net'[n] = IF n = i THEN c ELSE net[n]
  BY <1>1, <1>2 DEF c
<1>4. Answers(o, <<>>) /\ Plain(o, {}, {})
  BY OkAlone
<1> HIDE DEF o
<1>5. \A n \in Idx : net[n].dir = "in" /\ net[n].st # "none"
        => (net'[n].dir = "in" /\ net'[n].st # "none") \/ n \in {}
  BY <1>1, <1>3
<1>6. \A n \in Idx : net[n].st \in Spoken => net'[n].st \in Spoken \/ n \in {}
  BY <1>1, <1>3 DEF Spoken
<1>7. {} \in SUBSET Idx /\ \A n \in {} : net'[n].st \in Spoken
  OBVIOUS
<1>8. Honest(o)
  BY <1>4, <1>5, <1>6, <1>7, PlainHonest
<1>9. Sends(o)
  BY <1>3, <1>4, <1>8 DEF Sends, Answers
<1> QED BY <1>9 DEF o

(* ATA and AT+CHLD=3 make calls active. *)
LEMMA AnswerSends ==
  ASSUME net \in [Idx -> NetCall], NEW from \in SUBSET Idx, net' = Became(from, "active")
  PROVE  Sends(MsgsFor("CONN", from) \o <<OK>>) /\ Sends(<<OK>>)
<1> DEFINE s == MsgsFor("CONN", from)
           msgs == s \o <<OK>>
           o == <<OK>>
<1>1. Mentions(s, "CONN", from)
  BY MsgsForSay
<1> HIDE DEF s
<1>2. s \in Seq(Message) /\ \A i \in DOMAIN s : ~Final(s[i])
  BY <1>1 DEF Mentions, Final, Msg
<1>3. Answers(msgs, s)
  BY <1>2, WithOk
<1> HIDE DEF msgs
<1>4. Plain(msgs, from, {})
  BY <1>1, <1>3, AnswersPlain
<1>5. Sends(msgs)
  BY <1>3, <1>4, BecameSends
<1>6. Answers(o, <<>>) /\ Plain(o, {}, {})
  BY OkAlone
<1> HIDE DEF o
<1>7. Sends(o)
  BY <1>6, BecameSends
<1> QED BY <1>5, <1>7 DEF s, msgs, o

(* AT+CHUP and AT+CHLD=1x end calls; only one that was just placed may end *)
(* without ^CEND.                                                          *)
LEMMA HangupSends ==
  ASSUME net \in [Idx -> NetCall], NEW gone \in SUBSET Idx, NEW told \in {gone, gone \ In({"placed"})},
         net' = Became(gone, "none")
  PROVE  Sends(<<OK>> \o MsgsFor("CEND", told))
<1> DEFINE s == MsgsFor("CEND", told)
           msgs == <<OK>> \o s
<1>1. told \in SUBSET Idx
  OBVIOUS
<1>2. Mentions(s, "CEND", told)
  BY <1>1, MsgsForSay
<1> HIDE DEF s
<1>3. s \in Seq(Message) /\ \A i \in DOMAIN s : ~Final(s[i])
  BY <1>2 DEF Mentions, Final, Msg
<1>4. Answers(msgs, s)
  BY <1>3, WithOk
<1> HIDE DEF msgs
<1>5. Plain(msgs, {}, told)
  BY <1>2, <1>4, AnswersPlain
<1>6. ASSUME NEW i \in gone, i \notin told
      PROVE  net[i].dir = "out" /\ net[i].st \notin Spoken
  <2>1. i \in Idx /\ net[i].st = "placed" /\ net[i] \in NetCall
    BY <1>6 DEF In
  <2>. QED BY <2>1 DEF NetCall, InStates, Dirs, Spoken
<1>7. Sends(msgs)
  BY <1>1, <1>4, <1>5, <1>6, BecameSends
<1> QED BY <1>7 DEF s, msgs

(* A message alone that says nothing of any call. *)
LEMMA SilentSends ==
  ASSUME net \in [Idx -> NetCall], NEW type \in {"ERROR", "RING", "CCWA"}, net' = net
  PROVE  Sends(<<Msg(type, 0)>>)
<1> DEFINE m == Msg(type, 0)
           o == <<m>>
<1>1. m \in Message /\ m.type = type
  <2>1. type \in Types \ {"CLCC"} /\ type \notin {"ORIG", "CEND", "CONN"} /\ 0 \in 0 .. 31
    BY DEF Types
  <2>. QED BY <2>1, MsgFields
<1> HIDE DEF m
<1>2. o \in Seq(Message) /\ DOMAIN o = {1} /\ o[1] = m
  BY <1>1
<1> HIDE DEF o
<1>3. Plain(o, {}, {})
  BY <1>1, <1>2 DEF Plain
<1>4. Honest(o)
  BY <1>3, PlainHonest
<1>5. Sends(o)
  BY <1>2, <1>4 DEF Sends
<1> QED BY <1>5 DEF m, o

(* The list of calls the modem gives tells of each call as it is.          *)
LEMMA LinesSay ==
  ASSUME net \in [Idx -> NetCall]
  PROVE  /\ Lines \in Seq(Line)
         /\ \A i \in 1 .. Len(Lines) : Lines[i].idx \in Idx /\ Lines[i] = Listed(Lines[i].idx)
<1> DEFINE f == [i \in Idx |-> Listed(i)]
           V == {Listed(i) : i \in Idx}
           set == Idx \ In({"none"})
           q == InOrder(set, f)
<1>1. f \in [Idx -> V] /\ \A i \in Idx : f[i] = Listed(i)
  OBVIOUS
<1>2. Lines = q /\ set \in SUBSET Idx
  BY DEF Lines
<1> HIDE DEF f, V, set
<1>3. q \in Seq(V) /\ \A i \in DOMAIN q : \E n \in set : q[i] = f[n]
  <2>1. set \in SUBSET Idx /\ f \in [Idx -> V]
    BY <1>1, <1>2
  <2>2. /\ InOrder(set, f) \in Seq(V)
        /\ \A i \in DOMAIN InOrder(set, f) : \E n \in set : InOrder(set, f)[i] = f[n]
        /\ \A n \in set : \E i \in DOMAIN InOrder(set, f) : InOrder(set, f)[i] = f[n]
    BY <2>1, InOrderSays
  <2>. QED BY <2>2
<1>4. ASSUME NEW n \in set PROVE Listed(n) \in Line /\ Listed(n).idx = n
  <2>1. n \in Idx /\ net[n] \in NetCall /\ net[n].st # "none"
    BY <1>4 DEF In, set
  <2> DEFINE st == IF net[n].st = "placed" THEN "dialing" ELSE net[n].st
             l == [idx |-> n, dir |-> net[n].dir, st |-> st]
  <2>2. /\ net[n].dir \in Dirs /\ st \in (InStates \cup OutStates) \ {"placed"}
        /\ net[n].dir = "in" => st \in InStates
        /\ net[n].dir = "out" => st \in OutStates
    BY <2>1 DEF NetCall, InStates, OutStates, Dirs
  <2>3. Listed(n) = l
    BY DEF Listed
  <2> HIDE DEF st
  <2>4. l \in Line /\ l.idx = n
    BY <2>1, <2>2 DEF Line
  <2>. QED BY <2>3, <2>4
<1> HIDE DEF q
<1>5. Len(q) \in Nat /\ DOMAIN q = 1 .. Len(q)
  BY <1>3
<1>6. ASSUME NEW i \in 1 .. Len(q)
      PROVE q[i] \in Line /\ q[i].idx \in Idx /\ q[i] = Listed(q[i].idx)
  <2>1. PICK n \in set : q[i] = f[n]
    BY <1>3, <1>5
  <2>2. n \in Idx
    BY <1>2
  <2>. QED BY <1>1, <1>4, <2>1, <2>2
<1>7. q \in Seq(Line)
  <2>1. q = [i \in 1 .. Len(q) |-> q[i]]
    BY <1>3
  <2>2. q \in [1 .. Len(q) -> Line]
    BY <1>6, <2>1
  <2>. QED BY <1>5, <2>2, IsASeq
<1> QED BY <1>2, <1>6, <1>7 DEF q

LEMMA ListSends ==
  ASSUME net \in [Idx -> NetCall], net' = net
  PROVE  Sends((IF Lines = <<>> THEN <<>>
                ELSE <<[type |-> "CLCC", idx |-> 0, lines |-> Lines]>>) \o <<OK>>)
<1> DEFINE m == [type |-> "CLCC", idx |-> 0, lines |-> Lines]
           s == IF Lines = <<>> THEN <<>> ELSE <<m>>
           msgs == s \o <<OK>>
<1>1. /\ Lines \in Seq(Line)
      /\ \A i \in 1 .. Len(Lines) : Lines[i].idx \in Idx /\ Lines[i] = Listed(Lines[i].idx)
  BY LinesSay
<1>2. m \in Message /\ m.type = "CLCC" /\ m.lines = Lines
  <2>1. \A i, j \in 1 .. Len(Lines) : Lines[i].idx = Lines[j].idx => Lines[i] = Lines[j]
    BY <1>1
  <2>2. 0 \in 0 .. 31 /\ "CLCC" \in Types
    BY DEF Types
  <2> DEFINE q == Lines
  <2>3. q \in Seq(Line) /\ \A i, j \in 1 .. Len(q) : q[i].idx = q[j].idx => q[i] = q[j]
    BY <1>1, <2>1
  <2> HIDE DEF q
  <2>4. [type |-> "CLCC", idx |-> 0, lines |-> q] \in Message
    BY <2>2, <2>3 DEF Message
  <2>. QED BY <2>4 DEF q
<1> HIDE DEF m
<1>3. s \in Seq(Message) /\ \A i \in DOMAIN s : s[i] = m
  <2>1. <<>> \in Seq(Message) /\ DOMAIN <<>> = {}
    OBVIOUS
  <2>2. <<m>> \in Seq(Message) /\ \A i \in DOMAIN <<m>> : <<m>>[i] = m
    BY <1>2
  <2>. QED BY <2>1, <2>2
<1> HIDE DEF s
<1>4. Answers(msgs, s)
  <2>1. \A i \in DOMAIN s : ~Final(s[i])
    BY <1>2, <1>3 DEF Final
  <2>. QED BY <1>3, <2>1, WithOk
<1> HIDE DEF msgs
<1>5. OK.type = "OK"
  BY DEF OK, Msg
<1>6. ASSUME NEW k \in DOMAIN msgs PROVE msgs[k] = OK \/ msgs[k] = m
  BY <1>3, <1>4 DEF Answers
<1>7. ASSUME NEW n \in Idx, NEW i \in 1 .. Len(Lines), Lines[i].idx = n
      PROVE  Lines[i].dir = net[n].dir /\ (Lines[i].dir = "in" => Lines[i].st = net[n].st)
  <2>1. Lines[i] = Listed(n) /\ net[n] \in NetCall
    BY <1>1, <1>7
  <2>2. Listed(n).dir = net[n].dir /\ (net[n].st # "placed" => Listed(n).st = net[n].st)
    BY DEF Listed
  <2>3. net[n].dir = "in" => net[n].st # "placed"
    BY <2>1 DEF NetCall, InStates
  <2>. QED BY <2>1, <2>2, <2>3
<1>8. ASSUME NEW n \in Idx, NEW i \in 1 .. Len(Lines), Lines[i].idx = n, Lines[i].dir = "in"
      PROVE  /\ net[n].dir = "in" /\ net[n].st = Lines[i].st /\ net[n].st # "none"
             /\ net[n].st \notin Ringing => net[n].st \in Spoken
  <2>1. Lines[i] \in Line /\ net[n].dir = "in" /\ net[n].st = Lines[i].st
    BY <1>1, <1>7, <1>8
  <2> DEFINE l == Lines[i]
  <2>2. l \in Line /\ l.dir = "in"
    BY <1>8, <2>1
  <2> HIDE DEF l
  <2>3. l.st \in InStates
    BY <2>2 DEF Line
  <2>4. /\ l.st # "none"
        /\ l.st \notin Ringing => l.st \in Spoken
    BY <2>3 DEF InStates, Spoken, Ringing
  <2>. QED BY <2>1, <2>4 DEF l
<1>9. \A l \in LinesOf(m) : \E i \in 1 .. Len(Lines) : l = Lines[i] /\ l.dir = "in"
  BY <1>2 DEF LinesOf
<1>10. ASSUME NEW n \in Idx
       PROVE  /\ n \in HeldBy(m) => net[n].dir = "in" /\ net[n].st # "none"
              /\ n \in TakenBy(m) => net[n].st \in Spoken
              /\ n \in RingBy(m) => net[n].st \in Ringing
              /\ n \notin DialledBy(m) /\ n \notin HeldBy(OK) /\ n \notin TakenBy(OK)
              /\ n \notin RingBy(OK) /\ n \notin DialledBy(OK)
  <2>1. n \in HeldBy(m) => net[n].dir = "in" /\ net[n].st # "none"
    <3>1. n \in HeldBy(m) => \E l \in LinesOf(m) : n = l.idx
      BY <1>2 DEF HeldBy
    <3>. QED BY <1>8, <1>9, <3>1
  <2>2. n \in TakenBy(m) => net[n].st \in Spoken
    <3>1. n \in TakenBy(m) => \E l \in LinesOf(m) : n = l.idx /\ l.st \notin Ringing
      BY <1>2 DEF TakenBy
    <3>. QED BY <1>8, <1>9, <3>1
  <2>3. n \in RingBy(m) => net[n].st \in Ringing
    <3>1. n \in RingBy(m) => \E l \in LinesOf(m) : n = l.idx /\ l.st \in Ringing
      BY <1>2 DEF RingBy
    <3>. QED BY <1>8, <1>9, <3>1
  <2>4. /\ n \notin DialledBy(m) /\ n \notin HeldBy(OK) /\ n \notin TakenBy(OK)
        /\ n \notin RingBy(OK) /\ n \notin DialledBy(OK)
    BY <1>2, <1>5 DEF DialledBy, HeldBy, TakenBy, RingBy
  <2>. QED BY <2>1, <2>2, <2>3, <2>4
<1>11. \A st \in Ringing : st \notin Spoken
  BY DEF Ringing, Spoken
<1>12. Honest(msgs)
  <2>1. \A n \in Idx, k \in DOMAIN msgs :
       /\ n \in HeldBy(msgs[k]) => /\ net'[n].dir = "in" /\ net'[n].st # "none"
                                   /\ \A j \in DOMAIN msgs : n \notin DialledBy(msgs[j])
       /\ n \in DialledBy(msgs[k]) => net[n].dir = "out"
       /\ n \in RingBy(msgs[k]) => net[n].st \in Ringing
    BY <1>6, <1>10
  <2>2. \A n \in Idx, k \in DOMAIN msgs :
          n \in TakenBy(msgs[k]) => /\ net'[n].st \in Spoken
                                    /\ \A j \in DOMAIN msgs : n \notin RingBy(msgs[j])
    BY <1>6, <1>10, <1>11
  <2>. QED BY <2>1, <2>2 DEF Honest
<1>13. Sends(msgs)
  BY <1>4, <1>12 DEF Sends, Answers
<1> QED BY <1>13 DEF m, s, msgs

(* Whatever the command and whatever becomes of it. *)
LEMMA OutcomeSends ==
  ASSUME net \in [Idx -> NetCall], NEW c \in Command,
         NEW o \in Outcomes(c) \cup {Outcome(net, <<Msg("ERROR", 0)>>)}, net' = o.net
  PROVE  Sends(o.msgs)
<1>1. CASE o = Outcome(net, <<Msg("ERROR", 0)>>)
  <2>1. o.net = net /\ o.msgs = <<Msg("ERROR", 0)>>
    BY <1>1 DEF Outcome
  <2>2. Sends(<<Msg("ERROR", 0)>>)
    BY <2>1, SilentSends
  <2>. QED BY <2>1, <2>2
<1>2. CASE o \in Outcomes(c) /\ c.cmd = "D"
  <2>1. \E i \in In({"none"}) : o = Outcome([net EXCEPT ![i] = [dir |-> "out", st |-> "placed"]], <<OK>>)
    BY <1>2 DEF Outcomes, Hangups
  <2>2. PICK i \in In({"none"}) : o = Outcome([net EXCEPT ![i] = [dir |-> "out", st |-> "placed"]], <<OK>>)
    BY <2>1
  <2>3. net' = [net EXCEPT ![i] = [dir |-> "out", st |-> "placed"]] /\ o.msgs = <<OK>>
    BY <2>2 DEF Outcome
  <2>4. Sends(<<OK>>)
    BY <2>3, DialSends
  <2>. QED BY <2>3, <2>4
<1>3. CASE o \in Outcomes(c) /\ c.cmd = "A"
  <2> DEFINE from == In({"incoming"})
  <2>1. o = Outcome(Became(from, "active"), MsgsFor("CONN", from) \o <<OK>>)
    BY <1>3 DEF Outcomes, Hangups
  <2>2. net' = Became(from, "active") /\ o.msgs = MsgsFor("CONN", from) \o <<OK>> /\ from \in SUBSET Idx
    BY <2>1 DEF Outcome, In
  <2> HIDE DEF from
  <2>3. Sends(MsgsFor("CONN", from) \o <<OK>>)
    BY <2>2, AnswerSends
  <2>. QED BY <2>2, <2>3
<1>4. CASE o \in Outcomes(c) /\ c.cmd \in {"CHLD_2", "CHLD_2x"}
  <2> DEFINE a == IF In({"waiting"}) # {} THEN In({"waiting"}) ELSE In({"onhold"})
             b == {c.idx} \cap In({"waiting", "onhold", "active"})
  <2>1. o = Swap(a) \/ o = Swap(b)
    BY <1>4 DEF Outcomes, Hangups
  <2>2. a \in SUBSET In({"waiting", "onhold", "active"}) /\ b \in SUBSET In({"waiting", "onhold", "active"})
    BY DEF In
  <2> HIDE DEF a, b
  <2>. QED BY <2>1, <2>2, SwapSends
<1>5. CASE o \in Outcomes(c) /\ c.cmd = "CHLD_3"
  <2> DEFINE from == In({"onhold"})
  <2>1. o = Outcome(Became(from, "active"), <<OK>>)
    BY <1>5 DEF Outcomes, Hangups
  <2>2. net' = Became(from, "active") /\ o.msgs = <<OK>> /\ from \in SUBSET Idx
    BY <2>1 DEF Outcome, In
  <2> HIDE DEF from
  <2>3. Sends(<<OK>>)
    BY <2>2, AnswerSends
  <2>. QED BY <2>2, <2>3
<1>6. CASE o \in Outcomes(c) /\ c.cmd \in Hangups
  <2> DEFINE gone == IF c.cmd = "CHLD_1x" THEN {c.idx} \cap (Idx \ In({"none"}))
                     ELSE In({"active", "placed", "dialing", "alerting", "incoming"})
  <2>1. c.cmd \notin {"D", "A", "CHLD_2", "CHLD_2x", "CHLD_3", "CLCC"}
    BY <1>6 DEF Hangups
  <2>2. \E told \in {gone, gone \ In({"placed"})} :
          o = Outcome(Became(gone, "none"), <<OK>> \o MsgsFor("CEND", told))
    BY <1>6, <2>1 DEF Outcomes
  <2>3. gone \in SUBSET Idx
    BY DEF In
  <2> HIDE DEF gone
  <2>4. PICK told \in {gone, gone \ In({"placed"})} :
          o = Outcome(Became(gone, "none"), <<OK>> \o MsgsFor("CEND", told))
    BY <2>2
  <2>5. net' = Became(gone, "none") /\ o.msgs = <<OK>> \o MsgsFor("CEND", told)
    BY <2>4 DEF Outcome
  <2>6. Sends(<<OK>> \o MsgsFor("CEND", told))
    BY <2>3, <2>5, HangupSends
  <2>. QED BY <2>5, <2>6
<1>7. CASE o \in Outcomes(c) /\ c.cmd = "CLCC"
  <2> DEFINE msgs == (IF Lines = <<>> THEN <<>>
                      ELSE <<[type |-> "CLCC", idx |-> 0, lines |-> Lines]>>) \o <<OK>>
  <2>1. o = Outcome(net, msgs)
    BY <1>7 DEF Outcomes, Hangups
  <2> HIDE DEF msgs
  <2>2. net' = net /\ o.msgs = msgs
    BY <2>1 DEF Outcome
  <2>3. Sends(msgs)
    BY <2>2, ListSends DEF msgs
  <2>. QED BY <2>2, <2>3
<1>8. c.cmd \in {"D", "A", "CHLD_2", "CHLD_2x", "CHLD_3", "CLCC"} \/ c.cmd \in Hangups
  BY DEF Command, CmdNames, Hangups
<1> QED BY <1>1, <1>2, <1>3, <1>4, <1>5, <1>6, <1>7, <1>8

(* What the network does by itself brings no result of a command. *)
Spreads ==
  \E msgs : Sends(msgs) /\ inbox' = inbox \o msgs /\ \A k \in DOMAIN msgs : ~Final(msgs[k])

LEMMA BecameSpreads ==
  ASSUME net \in [Idx -> NetCall], NEW from \in SUBSET Idx,
         NEW to \in {"active", "onhold", "none", "dialing", "alerting"},
         NEW msgs \in Seq(Message), NEW conn \in SUBSET Idx, NEW told \in SUBSET Idx,
         Plain(msgs, conn, told), \A k \in DOMAIN msgs : ~Final(msgs[k]),
         net' = Became(from, to), inbox' = inbox \o msgs,
         to \in {"dialing", "alerting"} =>
           \A i \in from : net[i].dir = "out" /\ net[i].st \notin Spoken,
         to = "none" => \A i \in from : \/ i \in told \/ net[i].st = "none"
                                        \/ net[i].dir = "out" /\ net[i].st \notin Spoken,
         \A n \in conn : n \in from /\ to = "active"
  PROVE  Spreads
<1>1. net' \in [Idx -> NetCall] /\ Honest(msgs)
  BY BecameHonest
<1>2. \A j, k \in DOMAIN msgs : Final(msgs[j]) /\ Final(msgs[k]) => j = k
  OBVIOUS
<1>3. Sends(msgs)
  BY <1>1, <1>2 DEF Sends
<1> QED BY <1>3 DEF Spreads

(* The numbers of calls are numbers of messages. *)
LEMMA Numbers == \A i \in Idx : i \in 0 .. 31
BY BoundsAssumption DEF Idx

LEMMA OneMessage ==
  ASSUME NEW type \in Types \ {"CLCC", "OK", "ERROR"}, NEW n \in 0 .. 31,
         type \in {"ORIG", "CEND", "CONN"} => n \in Idx
  PROVE  /\ <<Msg(type, n)>> \in Seq(Message) /\ DOMAIN <<Msg(type, n)>> = {1}
         /\ <<Msg(type, n)>>[1] = Msg(type, n) /\ Msg(type, n).type = type
         /\ \A k \in DOMAIN <<Msg(type, n)>> : ~Final(<<Msg(type, n)>>[k])
<1> DEFINE m == Msg(type, n)
           o == <<m>>
<1>1. m \in Message /\ m.type = type
  BY MsgFields
<1> HIDE DEF m
<1>2. o \in Seq(Message) /\ DOMAIN o = {1} /\ o[1] = m
  BY <1>1
<1> HIDE DEF o
<1>3. \A k \in DOMAIN o : ~Final(o[k])
  BY <1>1, <1>2 DEF Final
<1> QED BY <1>1, <1>2, <1>3 DEF m, o

LEMMA OriginatesSpreads ==
  ASSUME net \in [Idx -> NetCall], NEW i \in Idx, Originates(i)
  PROVE  Spreads
<1> DEFINE m == Msg("ORIG", i)
           o == <<m>>
           e == <<>>
<1>1. net[i].st = "placed" /\ net' = Became({i}, "dialing") /\ inbox' = inbox \o o
  BY DEF Originates, Network
<1>2. net[i].dir = "out" /\ net[i].st \notin Spoken
  <2>1. net[i] \in NetCall
    OBVIOUS
  <2>. QED BY <1>1, <2>1 DEF NetCall, InStates, Dirs, Spoken
<1>3. DOMAIN e = {} /\ Plain(e, {}, {})
  BY DEF Plain
<1> HIDE DEF e
<1>4. net' \in [Idx -> NetCall] /\ Honest(e)
  BY <1>1, <1>2, <1>3, BecameHonest
<1>5. "ORIG" \in Types \ {"CLCC", "OK", "ERROR"} /\ i \in 0 .. 31
  BY Numbers DEF Types
<1>6. o \in Seq(Message) /\ DOMAIN o = {1} /\ o[1] = m /\ m.type = "ORIG" /\ ~Final(m)
  <2>1. /\ o \in Seq(Message) /\ DOMAIN o = {1} /\ o[1] = m /\ m.type = "ORIG"
        /\ \A k \in DOMAIN o : ~Final(o[k])
    BY <1>5, OneMessage
  <2>. QED BY <2>1
<1>7. HeldBy(m) = {} /\ TakenBy(m) = {} /\ RingBy(m) = {} /\ DialledBy(m) = {i}
  BY <1>6 DEF Msg, HeldBy, TakenBy, RingBy, DialledBy
<1> HIDE DEF o, m
<1>8. Honest(o)
  BY <1>2, <1>3, <1>4, <1>6, <1>7 DEF Honest, Ends
<1>9. Sends(o)
  BY <1>4, <1>6, <1>8 DEF Sends
<1> QED BY <1>1, <1>6, <1>9 DEF Spreads, o, m

LEMMA AlertsSpreads ==
  ASSUME net \in [Idx -> NetCall], NEW i \in Idx, RemoteAlerts(i)
  PROVE  Spreads
<1> DEFINE e == <<>>
<1>1. net[i].st = "dialing" /\ net' = Became({i}, "alerting") /\ inbox' = inbox \o e
  BY DEF RemoteAlerts, Network
<1>2. net[i].dir = "out" /\ net[i].st \notin Spoken
  <2>1. net[i] \in NetCall
    OBVIOUS
  <2>. QED BY <1>1, <2>1 DEF NetCall, InStates, Dirs, Spoken
<1>3. e \in Seq(Message) /\ DOMAIN e = {} /\ Plain(e, {}, {})
  BY DEF Plain
<1> HIDE DEF e
<1> QED BY <1>1, <1>2, <1>3, BecameSpreads

LEMMA AnswersSpreads ==
  ASSUME net \in [Idx -> NetCall], NEW i \in Idx, RemoteAnswers(i)
  PROVE  Spreads
<1> DEFINE m == Msg("CONN", i)
           o == <<m>>
<1>1. net' = Became({i}, "active") /\ inbox' = inbox \o o
  BY DEF RemoteAnswers, Network
<1>2. "CONN" \in Types \ {"CLCC", "OK", "ERROR"} /\ i \in 0 .. 31
  BY Numbers DEF Types
<1>3. o \in Seq(Message) /\ DOMAIN o = {1} /\ o[1] = m /\ \A k \in DOMAIN o : ~Final(o[k])
  BY <1>2, OneMessage
<1> HIDE DEF o
<1>4. Plain(o, {i}, {}) /\ o \in Seq(Message) /\ \A k \in DOMAIN o : ~Final(o[k])
  BY <1>3 DEF Plain
<1>5. {i} \in SUBSET Idx /\ {} \in SUBSET Idx /\ \A n \in {i} : n \in {i} /\ "active" = "active"
  OBVIOUS
<1> QED BY <1>1, <1>4, <1>5, BecameSpreads

LEMMA EndsSpreads ==
  ASSUME net \in [Idx -> NetCall], NEW i \in Idx, RemoteEnds(i)
  PROVE  Spreads
<1> DEFINE m == Msg("CEND", i)
           o == <<m>>
<1>1. net' = Became({i}, "none") /\ inbox' = inbox \o o
  BY DEF RemoteEnds, Network
<1>2. "CEND" \in Types \ {"CLCC", "OK", "ERROR"} /\ i \in 0 .. 31
  BY Numbers DEF Types
<1>3. o \in Seq(Message) /\ DOMAIN o = {1} /\ o[1] = m /\ \A k \in DOMAIN o : ~Final(o[k])
  BY <1>2, OneMessage
<1> HIDE DEF o
<1>4. Plain(o, {}, {i}) /\ o \in Seq(Message) /\ \A k \in DOMAIN o : ~Final(o[k])
  BY <1>3 DEF Plain
<1>5. {i} \in SUBSET Idx /\ {} \in SUBSET Idx
  OBVIOUS
<1>6. net' \in [Idx -> NetCall] /\ Honest(o)
  BY <1>1, <1>4, <1>5, BecameHonest
<1>7. Sends(o)
  BY <1>4, <1>6 DEF Sends
<1> QED BY <1>1, <1>4, <1>7 DEF Spreads

LEMMA BusySpreads ==
  ASSUME net \in [Idx -> NetCall], NEW i \in Idx, RemoteBusy(i)
  PROVE  Spreads
<1> DEFINE b == Msg("BUSY", 0)
           m == Msg("CEND", i)
           o == <<b, m>>
<1>1. net' = Became({i}, "none") /\ inbox' = inbox \o o
  BY DEF RemoteBusy, Network
<1>2. /\ "CEND" \in Types \ {"CLCC"} /\ i \in 0 .. 31 /\ "BUSY" \in Types \ {"CLCC"} /\ 0 \in 0 .. 31
      /\ "BUSY" \notin {"ORIG", "CEND", "CONN"}
  BY Numbers DEF Types
<1>3. b \in Message /\ b.type = "BUSY" /\ m \in Message /\ m.type = "CEND"
  BY <1>2, MsgFields
<1> HIDE DEF b
<1>4. Final(b) = FALSE /\ Final(m) = FALSE
  BY <1>3 DEF Final
<1> HIDE DEF m
<1>5. o \in Seq(Message) /\ DOMAIN o = {1, 2} /\ o[1] = b /\ o[2] = m
  BY <1>3
<1> HIDE DEF o
<1>6. Plain(o, {}, {i}) /\ \A k \in DOMAIN o : ~Final(o[k])
  <2>1. \A k \in DOMAIN o : o[k].type = "BUSY" \/ o[k] = Msg("CEND", i)
    BY <1>3, <1>5 DEF m
  <2>2. 2 \in DOMAIN o /\ o[2] = Msg("CEND", i)
    BY <1>5 DEF m
  <2>. QED BY <1>4, <1>5, <2>1, <2>2 DEF Plain
<1>7. {i} \in SUBSET Idx /\ {} \in SUBSET Idx
  OBVIOUS
<1>8. net' \in [Idx -> NetCall] /\ Honest(o)
  BY <1>1, <1>6, <1>7, BecameHonest
<1>9. Sends(o)
  BY <1>5, <1>6, <1>8 DEF Sends
<1> QED BY <1>1, <1>6, <1>9 DEF Spreads

(* A new call that rings or waits. *)
LEMMA CallsSpreads ==
  ASSUME net \in [Idx -> NetCall], NEW i \in Idx, RemoteCalls(i)
  PROVE  Spreads
<1>1. ASSUME NEW type \in {"RING", "CCWA"}, NEW st \in Ringing,
             Network([net EXCEPT ![i] = [dir |-> "in", st |-> st]], <<Msg(type, 0)>>)
      PROVE  Spreads
  <2> DEFINE m == Msg(type, 0)
             o == <<m>>
             c == [dir |-> "in", st |-> st]
  <2>1. net' = [net EXCEPT ![i] = c] /\ inbox' = inbox \o o /\ net[i].st = "none"
    BY <1>1 DEF Network, RemoteCalls
  <2>2. type \in Types \ {"CLCC", "OK", "ERROR"} /\ 0 \in 0 .. 31 /\ type \notin {"ORIG", "CEND", "CONN"}
    BY DEF Types
  <2>3. /\ o \in Seq(Message) /\ DOMAIN o = {1} /\ o[1] = m /\ m.type = type
        /\ \A k \in DOMAIN o : ~Final(o[k])
    BY <2>2, OneMessage
  <2> HIDE DEF o, m
  <2>4. c \in NetCall /\ c.dir = "in" /\ c.st = st
    BY DEF NetCall, InStates, Dirs, Ringing
  <2> HIDE DEF c
  <2>5. net' \in [Idx -> NetCall] /\ \A n \in Idx : net'[n] = IF n = i THEN c ELSE net[n]
    BY <2>1, <2>4
  <2>6. Plain(o, {}, {})
    BY <2>3 DEF Plain
  <2>7. \A n \in Idx : net[n].dir = "in" /\ net[n].st # "none"
          => (net'[n].dir = "in" /\ net'[n].st # "none") \/ n \in {}
    BY <2>1, <2>5
  <2>8. \A n \in Idx : net[n].st \in Spoken => net'[n].st \in Spoken \/ n \in {}
    BY <2>1, <2>5 DEF Spoken
  <2>9. {} \in SUBSET Idx /\ \A n \in {} : net'[n].st \in Spoken
    OBVIOUS
  <2>10. Honest(o)
    BY <2>6, <2>7, <2>8, <2>9, PlainHonest
  <2>11. Sends(o)
    BY <2>3, <2>5, <2>10 DEF Sends
  <2>. QED BY <2>1, <2>3, <2>11 DEF Spreads
<1>2. \/ Network([net EXCEPT ![i] = [dir |-> "in", st |-> "incoming"]], <<Msg("RING", 0)>>)
      \/ Network([net EXCEPT ![i] = [dir |-> "in", st |-> "waiting"]], <<Msg("CCWA", 0)>>)
  BY DEF RemoteCalls
<1> QED BY <1>1, <1>2 DEF Ringing

LEMMA RingsSpreads ==
  ASSUME net \in [Idx -> NetCall], NEW i \in Idx, RingsAgain(i)
  PROVE  Spreads
<1> DEFINE o == <<Msg("RING", 0)>>
<1>1. net' = net /\ inbox' = inbox \o o
  BY DEF RingsAgain, Network
<1>2. Sends(o)
  BY <1>1, SilentSends
<1>3. \A k \in DOMAIN o : ~Final(o[k])
  <2>1. "RING" \in Types \ {"CLCC", "OK", "ERROR"} /\ 0 \in 0 .. 31 /\ "RING" \notin {"ORIG", "CEND", "CONN"}
    BY DEF Types
  <2>. QED BY <2>1, OneMessage
<1> HIDE DEF o
<1> QED BY <1>1, <1>2, <1>3 DEF Spreads

-----------------------------------------------------------------------------
(* The invariant step by step.                                             *)

(* A callback from Asterisk: nothing is read or sent. *)
LEMMA CallbackKeeps ==
  ASSUME IInv, Does(d, d', Held(d), Taken(d)), Quiet
  PROVE  IInv' /\ KeepsDuty
<1>1. /\ Good(d') /\ Dutiful(d, d') /\ (d.queue # <<>> => d'.queue # <<>>)
      /\ Held(d') \subseteq Held(d) /\ Taken(d') \subseteq Taken(d)
  BY DEF Does
<1>2. executed' = executed /\ inbox' = inbox /\ net' = net
  BY DEF Quiet
<1>3. Wire /\ Story /\ executed \in BOOLEAN /\ inbox \in Seq(Message) /\ net \in [Idx -> NetCall]
  BY DEF IInv
<1>4. Wire'
  BY <1>1, <1>2, <1>3 DEF Wire
<1>5. Story'
  <2>1. \A n, p, q : EndBetween(n, p, q)' <=> EndBetween(n, p, q)
    BY <1>2 DEF EndBetween
  <2>2. \A n, p : EndAfter(n, p)' <=> EndAfter(n, p)
    BY <1>2 DEF EndAfter
  <2>3. ASSUME NEW n \in Idx, NEW p \in 0 .. Len(inbox)
        PROVE  /\ n \in HeldAt(p)' => n \in HeldAt(p)
               /\ n \in TakenAt(p)' => n \in TakenAt(p)
    BY <1>1, <1>2 DEF HeldAt, TakenAt
  <2>. QED BY <1>2, <1>3, <2>1, <2>2, <2>3 DEF Story
<1>6. KeepsDuty
  BY <1>1 DEF KeepsDuty, Dutiful
<1> QED BY <1>1, <1>2, <1>3, <1>4, <1>5, <1>6 DEF IInv

(* A message that is no result is handled. *)
LEMMA HandlerKeeps ==
  ASSUME IInv, inbox # <<>>, Hears(Head(inbox)), ~Final(Head(inbox)),
         inbox' = Tail(inbox), UNCHANGED <<executed, net>>
  PROVE  IInv' /\ KeepsDuty
<1>1. /\ Good(d') /\ Dutiful(d, d') /\ (d.queue # <<>> => d'.queue # <<>>)
      /\ Held(d') \subseteq (Held(d) \cup HeldBy(Head(inbox))) \ EndedBy(Head(inbox))
      /\ Taken(d') \subseteq (Taken(d) \cup TakenBy(Head(inbox))) \ EndedBy(Head(inbox))
  BY DEF Hears, Does
<1>2. Story' /\ inbox' \in Seq(Message) /\ net' \in [Idx -> NetCall]
  BY <1>1, HandledStory
<1>3. Wire /\ executed \in BOOLEAN /\ inbox \in Seq(Message)
  BY DEF IInv
<1>4. /\ Len(inbox) \in Nat /\ DOMAIN inbox = 1 .. Len(inbox) /\ DOMAIN inbox' = 1 .. Len(inbox) - 1
      /\ \A i \in 1 .. Len(inbox) - 1 : inbox'[i] = inbox[i + 1]
  <2> DEFINE q == inbox
  <2>1. q \in Seq(Message) /\ q # <<>>
    BY <1>3
  <2> HIDE DEF q
  <2>2. /\ Len(q) \in Nat /\ Len(q) >= 1 /\ DOMAIN q = 1 .. Len(q)
        /\ DOMAIN Tail(q) = 1 .. Len(q) - 1
        /\ \A i \in 1 .. Len(q) - 1 : Tail(q)[i] = q[i + 1]
    BY <2>1
  <2>. QED BY <2>2 DEF q
<1>5. \A i \in DOMAIN inbox' : i + 1 \in DOMAIN inbox /\ inbox'[i] = inbox[i + 1]
  BY <1>4
<1>6. Wire'
  <2>1. executed' = executed
    OBVIOUS
  <2>2. \A i \in DOMAIN inbox' : Final(inbox'[i]) => executed'
    BY <1>3, <1>5, <2>1 DEF Wire
  <2>3. ASSUME NEW i \in DOMAIN inbox', NEW j \in DOMAIN inbox', Final(inbox'[i]), Final(inbox'[j])
        PROVE  i = j
    <3>1. i + 1 = j + 1
      BY <1>3, <1>5, <2>3 DEF Wire
    <3>. QED BY <1>4, <3>1
  <2>. QED BY <1>1, <1>3, <2>1, <2>2, <2>3 DEF Wire, Final
<1>7. KeepsDuty
  BY <1>1 DEF KeepsDuty, Dutiful
<1> QED BY <1>1, <1>2, <1>3, <1>6, <1>7 DEF IInv

(* A result is handled: it was the only one. *)
LEMMA ResultKeeps ==
  ASSUME IInv, inbox # <<>>, Final(Head(inbox)), Good(d'),
         Held(d') \subseteq Held(d), Taken(d') \subseteq Taken(d),
         executed' = FALSE, inbox' = Tail(inbox), UNCHANGED net
  PROVE  IInv'
<1> DEFINE m == Head(inbox)
<1>1. EndedBy(m) = {}
  BY DEF EndedBy, Final
<1>2. Story' /\ inbox' \in Seq(Message) /\ net' \in [Idx -> NetCall]
  BY <1>1, HandledStory
<1>3. \A i \in DOMAIN inbox : Final(inbox[i]) => i = 1
  BY ResultOfHead
<1>4. inbox \in Seq(Message)
  BY DEF IInv
<1>5. \A i \in DOMAIN inbox' : i + 1 \in DOMAIN inbox /\ i + 1 # 1 /\ inbox'[i] = inbox[i + 1]
  <2> DEFINE q == inbox
  <2>1. q \in Seq(Message) /\ q # <<>>
    BY <1>4
  <2> HIDE DEF q
  <2>2. \A i \in DOMAIN Tail(q) : i + 1 \in DOMAIN q /\ i + 1 # 1 /\ Tail(q)[i] = q[i + 1]
    BY <2>1
  <2>. QED BY <2>2 DEF q
<1>6. \A i \in DOMAIN inbox' : ~Final(inbox'[i])
  BY <1>3, <1>5
<1>7. Wire'
  BY <1>6 DEF Wire, Final
<1> QED BY <1>2, <1>7 DEF IInv

(* The device is disconnected: there is nothing left to tell of. *)
LEMMA DisconnectKeeps ==
  ASSUME IInv, Disconnect
  PROVE  IInv' /\ KeepsDuty
<1>1. Good(d') /\ Held(d') = {} /\ Taken(d') = {} /\ KeepsDuty
  BY DisconnectDoes DEF IInv
<1>2. executed' = FALSE /\ inbox' = <<>> /\ net' = [i \in Idx |-> [dir |-> "out", st |-> "none"]]
  BY DEF Disconnect
<1>3. inbox' \in Seq(Message) /\ DOMAIN inbox' = {} /\ Len(inbox') = 0
  BY <1>2
<1>4. net' \in [Idx -> NetCall]
  <2> DEFINE c == [dir |-> "out", st |-> "none"]
  <2>1. c \in NetCall
    BY DEF NetCall, Dirs, InStates, OutStates
  <2>. QED BY <1>2, <2>1
<1>5. Wire'
  BY <1>2, <1>3 DEF Wire
<1>6. Story'
  BY <1>1, <1>3 DEF Story, HeldAt, TakenAt
<1> QED BY <1>1, <1>2, <1>3, <1>4, <1>5, <1>6 DEF IInv

(* The modem sends. *)
LEMMA SentKeeps ==
  ASSUME IInv, NEW msgs, Sends(msgs), inbox' = inbox \o msgs, d' = d,
         \/ executed' = executed /\ \A k \in DOMAIN msgs : ~Final(msgs[k])
         \/ ~executed /\ executed' = TRUE /\ d.queue # <<>>
  PROVE  IInv' /\ KeepsDuty
<1>1. /\ net' \in [Idx -> NetCall] /\ msgs \in Seq(Message) /\ Honest(msgs)
      /\ \A j, k \in DOMAIN msgs : Final(msgs[j]) /\ Final(msgs[k]) => j = k
  BY DEF Sends
<1>2. Story' /\ inbox' \in Seq(Message)
  BY <1>1, SentStory
<1>3. Wire'
  BY <1>1, SentWire
<1>4. Good(d) /\ executed \in BOOLEAN /\ executed' \in BOOLEAN
  BY DEF IInv
<1>5. KeepsDuty
  BY DEF KeepsDuty
<1> QED BY <1>1, <1>2, <1>3, <1>4, <1>5 DEF IInv

LEMMA AsteriskKeeps ==
  ASSUME IInv, AsteriskStep
  PROVE  IInv' /\ KeepsDuty
<1>1. Good(d)
  BY DEF IInv
<1>2. PICK id \in Ids :
        \/ \E opts \in Opts : channel_request(id, opts)
        \/ \E opts \in Opts, stored \in BOOLEAN : channel_call(id, opts, stored)
        \/ channel_answer(id)
        \/ channel_func_write(id)
        \/ \E stored \in BOOLEAN : channel_hangup(id, stored)
  BY DEF AsteriskStep
<1>3. ASSUME NEW opts \in Opts, channel_request(id, opts) PROVE Does(d, d', Held(d), Taken(d)) /\ Quiet
  BY <1>1, <1>3, RequestDoes DEF channel_request
<1>4. ASSUME NEW opts \in Opts, NEW stored \in BOOLEAN, channel_call(id, opts, stored)
      PROVE  Does(d, d', Held(d), Taken(d)) /\ Quiet
  <2>1. Does(d, d', Held(d), Taken(d))
    BY <1>1, <1>4, CallDoes
  <2>2. Quiet
    BY <1>4 DEF channel_call
  <2>. QED BY <2>1, <2>2
<1>5. ASSUME channel_answer(id) PROVE Does(d, d', Held(d), Taken(d)) /\ Quiet
  BY <1>1, <1>5, AnswerDoes DEF channel_answer
<1>6. ASSUME channel_func_write(id) PROVE Does(d, d', Held(d), Taken(d)) /\ Quiet
  BY <1>1, <1>6, WriteDoes DEF channel_func_write
<1>7. ASSUME NEW stored \in BOOLEAN, channel_hangup(id, stored)
      PROVE  Does(d, d', Held(d), Taken(d)) /\ Quiet
  <2>1. Does(d, d', Held(d), Taken(d))
    BY <1>1, <1>7, HangupDoes
  <2>2. Quiet
    BY <1>7 DEF channel_hangup
  <2>. QED BY <2>1, <2>2
<1>8. Does(d, d', Held(d), Taken(d)) /\ Quiet
  BY <1>2, <1>3, <1>4, <1>5, <1>6, <1>7
<1> QED BY <1>8, CallbackKeeps

LEMMA MonitorKeeps ==
  ASSUME IInv, MonitorStep
  PROVE  IInv' /\ KeepsDuty
<1>1. CASE at_response_ok
  <2>1. Good(d') /\ Held(d') = Held(d) /\ Taken(d') = Taken(d) /\ KeepsDuty
    BY <1>1, OkDoes
  <2>2. /\ inbox # <<>> /\ Head(inbox).type = "OK"
        /\ executed' = FALSE /\ inbox' = Tail(inbox) /\ UNCHANGED net
    BY <1>1 DEF at_response_ok, Reading
  <2>3. Final(Head(inbox))
    BY <2>2 DEF Final
  <2>. QED BY <2>1, <2>2, <2>3, ResultKeeps
<1>2. CASE at_response_error
  <2>1. /\ Good(d') /\ Held(d') \subseteq Held(d) /\ Taken(d') \subseteq Taken(d) /\ KeepsDuty
        /\ Disconnect \/ (executed' = FALSE /\ inbox' = Tail(inbox) /\ UNCHANGED net)
    BY <1>2, ErrorDoes
  <2>2. inbox # <<>> /\ Head(inbox).type = "ERROR"
    BY <1>2 DEF at_response_error, Reading
  <2>3. Final(Head(inbox))
    BY <2>2 DEF Final
  <2>. QED BY <2>1, <2>2, <2>3, ResultKeeps, DisconnectKeeps
<1>3. ASSUME NEW type \in {"ORIG", "CEND", "CONN", "RING", "CCWA", "BUSY", "CLCC"},
             NEW s, Handled(type, s), Hears(Head(inbox))
      PROVE  IInv' /\ KeepsDuty
  <2>1. /\ inbox # <<>> /\ Head(inbox).type = type
        /\ inbox' = Tail(inbox) /\ UNCHANGED <<executed, net>>
    BY <1>3 DEF Handled, Reading
  <2>2. ~Final(Head(inbox))
    BY <2>1 DEF Final
  <2>. QED BY <1>3, <2>1, <2>2, HandlerKeeps
<1>4. CASE at_response_orig
  <2>1. Hears(Head(inbox))
    BY <1>4, OrigHears
  <2>. QED BY <1>3, <1>4, <2>1 DEF at_response_orig
<1>5. CASE at_response_cend
  <2>1. Hears(Head(inbox))
    BY <1>5, CendHears
  <2>. QED BY <1>3, <1>5, <2>1 DEF at_response_cend
<1>6. CASE at_response_conn
  <2>1. Hears(Head(inbox))
    BY <1>6, ConnHears
  <2>. QED BY <1>3, <1>6, <2>1 DEF at_response_conn
<1>7. CASE at_response_ring
  <2>1. Hears(Head(inbox))
    BY <1>7, RingHears
  <2>. QED BY <1>3, <1>7, <2>1 DEF at_response_ring
<1>8. CASE at_response_ccwa
  <2>1. Hears(Head(inbox))
    BY <1>8, RingHears
  <2>. QED BY <1>3, <1>8, <2>1 DEF at_response_ccwa
<1>9. CASE at_response_busy
  <2>1. Hears(Head(inbox))
    BY <1>9, BusyHears
  <2>. QED BY <1>3, <1>9, <2>1 DEF at_response_busy
<1>10. ASSUME NEW how \in {"ok", "nochan", "nopbx"}, at_response_clcc(how)
       PROVE  IInv' /\ KeepsDuty
  <2>1. Hears(Head(inbox))
    BY <1>10, ClccHears
  <2>2. Handled("CLCC", AllLines(d, Head(inbox).lines, how))
    BY <1>10 DEF at_response_clcc
  <2>. QED BY <1>3, <2>1, <2>2
<1> QED BY <1>1, <1>2, <1>4, <1>5, <1>6, <1>7, <1>8, <1>9, <1>10 DEF MonitorStep

LEMMA ModemKeeps ==
  ASSUME IInv, ModemStep
  PROVE  IInv' /\ KeepsDuty
<1>1. net \in [Idx -> NetCall] /\ Good(d)
  BY DEF IInv
<1>2. CASE ModemExecutes
  <2>1. /\ d.queue # <<>> /\ ~executed /\ executed' = TRUE /\ d' = d
        /\ \E o \in Outcomes(HeadCmd) \cup {Outcome(net, <<Msg("ERROR", 0)>>)} :
             net' = o.net /\ inbox' = inbox \o o.msgs
    BY <1>2 DEF ModemExecutes
  <2>2. PICK o \in Outcomes(HeadCmd) \cup {Outcome(net, <<Msg("ERROR", 0)>>)} :
             net' = o.net /\ inbox' = inbox \o o.msgs
    BY <2>1
  <2>3. HeadCmd \in Command
    <3>1. d.queue \in Seq(Task)
      BY <1>1 DEF Good, Shape, Driver
    <3> DEFINE q == d.queue
    <3>2. q \in Seq(Task) /\ q # <<>>
      BY <2>1, <3>1
    <3> HIDE DEF q
    <3>3. q[1] \in Task
      BY <3>2
    <3> DEFINE cs == q[1].cmds
    <3>4. cs \in Seq(Command) /\ cs # <<>>
      BY <3>3 DEF Task
    <3> HIDE DEF cs
    <3>5. Head(cs) \in Command
      BY <3>4
    <3>. QED BY <3>5 DEF HeadCmd, HeadTask, q, cs
  <2>4. Sends(o.msgs)
    BY <1>1, <2>2, <2>3, OutcomeSends
  <2>. QED BY <2>1, <2>2, <2>4, SentKeeps
<1>3. ASSUME Spreads, UNCHANGED <<d, executed>> PROVE IInv' /\ KeepsDuty
  <2>1. PICK msgs : Sends(msgs) /\ inbox' = inbox \o msgs /\ \A k \in DOMAIN msgs : ~Final(msgs[k])
    BY <1>3 DEF Spreads
  <2>2. d' = d /\ executed' = executed
    BY <1>3
  <2>. QED BY <2>1, <2>2, SentKeeps
<1>4. ASSUME NEW i \in Idx,
             \/ Originates(i) \/ RemoteAlerts(i) \/ RemoteAnswers(i)
             \/ RemoteEnds(i) \/ RemoteBusy(i) \/ RemoteCalls(i) \/ RingsAgain(i)
      PROVE  Spreads /\ UNCHANGED <<d, executed>>
  <2>1. Spreads
    BY <1>1, <1>4, OriginatesSpreads, AlertsSpreads, AnswersSpreads, EndsSpreads,
       BusySpreads, CallsSpreads, RingsSpreads
  <2>2. UNCHANGED <<d, executed>>
    BY <1>4 DEF Originates, RemoteAlerts, RemoteAnswers, RemoteEnds, RemoteBusy, RemoteCalls,
                RingsAgain, Network
  <2>. QED BY <2>1, <2>2
<1> QED BY <1>2, <1>3, <1>4 DEF ModemStep

LEMMA NextKeeps ==
  ASSUME IInv, Next
  PROVE  IInv' /\ KeepsDuty
BY AsteriskKeeps, MonitorKeeps, ModemKeeps, DisconnectKeeps DEF Next

LEMMA StutterKeeps ==
  ASSUME IInv, UNCHANGED vars
  PROVE  IInv' /\ KeepsDuty
<1>1. d' = d /\ executed' = executed /\ inbox' = inbox /\ net' = net
  BY DEF vars
<1>2. Wire' /\ Story'
  <2>1. Wire /\ Story
    BY DEF IInv
  <2>. QED BY <1>1, <2>1 DEF Wire, Story, HeldAt, TakenAt, EndBetween, EndAfter
<1>3. KeepsDuty
  BY <1>1 DEF KeepsDuty
<1> QED BY <1>1, <1>2, <1>3 DEF IInv

(* At the start there is no call. *)
LEMMA InitHolds == ASSUME Init PROVE IInv
<1>1. /\ d.chans = <<>> /\ d.call = [id \in Ids |-> NoCpvt] /\ d.chan = [id \in Ids |-> NoChan]
      /\ d.chansno = 0 /\ d.chan_count = [st \in States |-> 0]
      /\ d.ring = FALSE /\ d.cwaiting = FALSE /\ d.dialing = FALSE
      /\ d.last = None /\ d.queue = <<>> /\ executed = FALSE /\ inbox = <<>>
      /\ net = [i \in Idx |-> [dir |-> "out", st |-> "none"]]
  BY DEF Init
<1>2. NoCpvt \in Cpvt /\ NoChan \in Chan
  BY DEF NoCpvt, NoChan, Cpvt, Chan, States
<1>3. d \in Driver
  BY <1>2 DEF Init, Driver
<1>4. Linked(d) = {}
  <2> DEFINE e == <<>>
  <2>1. DOMAIN e = {}
    OBVIOUS
  <2> HIDE DEF e
  <2>2. \A x : x \notin ToSet(e)
    BY <2>1 DEF ToSet
  <2>. QED BY <1>1, <2>2 DEF Linked, e
<1>5. \A id \in Ids : d.call[id] = NoCpvt /\ d.chan[id] = NoChan
  BY <1>1
<1>6. DOMAIN <<>> = {} /\ Len(<<>>) = 0
  OBVIOUS
<1>7. Shape(d)
  <2>1. IsFiniteSet({})
    BY FS_EmptySet
  <2>. QED BY <1>1, <1>3, <1>4, <1>5, <1>6, <2>1 DEF Shape
<1>8. Counts(d)
  <2>1. Cardinality({}) = 0
    BY FS_EmptySet
  <2>2. \A st \in States : InState(d, st) = {}
    BY <1>4 DEF InState
  <2>. QED BY <1>1, <2>1, <2>2 DEF Counts
<1>9. /\ \A id \in Ids : /\ ~d.chan[id].link /\ ~d.chan[id].up /\ d.chan[id].fd0 = "none"
                         /\ ~d.call[id].master /\ ~d.call[id].act
  BY <1>5 DEF NoCpvt, NoChan
<1>10. Points(d)
  BY <1>1, <1>4, <1>6, <1>9 DEF Points
<1>11. Sound(d) /\ Told(d)
  BY <1>4, <1>9 DEF Sound, Told
<1>12. Alive(d) /\ Dials(d) /\ Single(d)
  BY <1>1, <1>4, <1>6 DEF Alive, Dials, Single, Incoming
<1>13. inbox \in Seq(Message) /\ net \in [Idx -> NetCall] /\ executed \in BOOLEAN
  <2> DEFINE c == [dir |-> "out", st |-> "none"]
  <2>1. c \in NetCall
    BY DEF NetCall, Dirs, InStates, OutStates
  <2> HIDE DEF c
  <2>2. net = [i \in Idx |-> c]
    BY <1>1 DEF c
  <2>3. net \in [Idx -> NetCall]
    BY <2>1, <2>2
  <2>4. inbox \in Seq(Message)
    BY <1>1
  <2>. QED BY <1>1, <2>3, <2>4
<1>14. Wire
  BY <1>1, <1>6 DEF Wire
<1>15. Held(d) = {} /\ Taken(d) = {}
  BY <1>4 DEF Held, Taken, Incoming
<1>16. Story
  BY <1>1, <1>6, <1>15 DEF Story, HeldAt, TakenAt
<1> QED BY <1>7, <1>8, <1>10, <1>11, <1>12, <1>13, <1>14, <1>16 DEF IInv, Good

LEMMA Invariance == Spec => []IInv
<1>1. IInv /\ [Next]_vars => IInv'
  BY NextKeeps, StutterKeeps
<1> QED BY <1>1, InitHolds, PTL DEF Spec

-----------------------------------------------------------------------------
(* The types, from the stronger ones of IInv. *)
THEOREM TypeCorrect == Spec => []TypeOK
<1>1. ASSUME IInv PROVE TypeOK
  <2>1. d \in Driver /\ executed \in BOOLEAN
    BY <1>1 DEF IInv, Good, Shape
  <2>2. \A i \in DOMAIN d.queue : d.queue[i].cpvt \in Ids \cup {sys} /\ d.queue[i].cmds # <<>>
    <3>1. d.queue \in Seq(Task)
      BY <2>1 DEF Driver
    <3> DEFINE q == d.queue
    <3>2. q \in Seq(Task)
      BY <3>1
    <3> HIDE DEF q
    <3>3. \A i \in DOMAIN q : q[i] \in Task
      BY <3>2
    <3>. QED BY <3>3 DEF q, Task
  <2>. QED BY <2>1, <2>2 DEF TypeOK, Driver
<1> QED BY <1>1, Invariance, PTL

(* No pointer outlives the call it points to: cpvt_free takes the call out *)
(* of last_dialed_cpvt and of every queued task, and a channel's tech_pvt  *)
(* and its call's channel are set and taken back together.                 *)
THEOREM PointersLive == Spec => []NoDangling
<1>1. IInv => NoDangling
  BY DEF IInv, Good, Points, NoDangling
<1> QED BY <1>1, Invariance, PTL

(* chansno and chan_count are the numbers of calls there are, in each      *)
(* state, however the handlers and callbacks come one after another.       *)
THEOREM CountsRight == Spec => []CountsMatch
<1>1. IInv => CountsMatch
  BY DEF IInv, Good, Shape, Counts, InState, CountsMatch
<1> QED BY <1>1, Invariance, PTL

(* At most one call is master, its channel has the audio port, and only    *)
(* calls with sound are given one: activate_call and disactivate_call.     *)
THEOREM AudioRight == Spec => []AudioOnlyInCall
<1>1. IInv => AudioOnlyInCall
  BY DEF IInv, Good, Sound, AudioOnlyInCall
<1> QED BY <1>1, Invariance, PTL

(* A channel whose call was released has been told to hang up, by          *)
(* change_channel_state: disconnecting releases every call that way.       *)
THEOREM OrphansTold == Spec => []OrphanTold
<1>1. IInv => OrphanTold
  BY DEF IInv, Good, Told, OrphanTold
<1> QED BY <1>1, Invariance, PTL

(* An incoming call the driver still has and the modem has not has its     *)
(* ^CEND unread: nothing unread was made to forget it, and no list of      *)
(* calls handled since could have brought it back.                         *)
THEOREM EndsAnnounced == Spec => []EndAnnounced
<1>1. ASSUME IInv PROVE EndAnnounced
  <2>1. Good(d) /\ Story /\ inbox \in Seq(Message)
    BY <1>1 DEF IInv
  <2> SUFFICES ASSUME NEW id \in Linked(d), d.call[id].dir = "in", net[d.call[id].idx].st = "none"
               PROVE  \E i \in DOMAIN inbox : inbox[i] = Msg("CEND", d.call[id].idx)
    BY DEF EndAnnounced
  <2> DEFINE n == d.call[id].idx
  <2>2. n \in Idx /\ n \in Held(d) /\ net[n].st = "none"
    BY <2>1 DEF Good, Single, Incoming, Held
  <2> HIDE DEF n
  <2>3. 0 \in 0 .. Len(inbox) /\ n \in HeldAt(0)
    BY <2>1, <2>2 DEF HeldAt
  <2>4. EndAfter(n, 0)
    BY <2>1, <2>2, <2>3 DEF Story
  <2>5. PICK j \in DOMAIN inbox : n \in EndedBy(inbox[j])
    BY <2>4 DEF EndAfter
  <2> DEFINE m == inbox[j]
  <2>6. m \in Message
    BY <2>1, <2>5
  <2> HIDE DEF m
  <2>7. m.type = "CEND" /\ m.idx = n
    BY <2>5 DEF EndedBy, m
  <2>8. m \in [type : Types, idx : 0 .. 31, lines : Seq(Line)] /\ m.lines = <<>>
    BY <2>6, <2>7 DEF Message
  <2>9. m = [type |-> m.type, idx |-> m.idx, lines |-> m.lines]
    BY <2>8
  <2>10. m = Msg("CEND", n)
    BY <2>7, <2>8, <2>9 DEF Msg
  <2>. QED BY <2>5, <2>10 DEF m, n
<1> QED BY <1>1, Invariance, PTL

(* The duty to hang up, CALL_FLAG_NEED_HANGUP, is given up only for a      *)
(* hangup command that is queued or was executed, or with the call.        *)
THEOREM DutyKept == Spec => HangupKept
<1>1. ASSUME IInv, [Next]_vars PROVE KeepsDuty
  BY <1>1, NextKeeps, StutterKeeps
<1>2. Spec => [][KeepsDuty]_vars
  <2>1. IInv /\ [Next]_vars => [KeepsDuty]_vars
    BY <1>1
  <2>. QED BY <2>1, Invariance, PTL DEF Spec
<1> QED BY <1>2 DEF KeepsDuty, HangupKept
=============================================================================
