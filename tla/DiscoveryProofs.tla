--------------------------- MODULE DiscoveryProofs ---------------------------
(***************************************************************************)
(* That whatever fails, and whoever acts in between, the search for modems *)
(* gives back every lock file and descriptor it took, and believes nothing *)
(* of a port that no modem in it has said: for every number of ports,      *)
(* devices, CLI threads and descriptors, the case that none is left        *)
(* included.                                                               *)
(***************************************************************************)
EXTENDS Discovery, FiniteSetTheorems, SequenceTheorems, WellFoundedInduction, TLAPS

Fields == {"imei", "imsi"}
Answers == {None} \cup {m.imei : m \in Modems} \cup {m.imsi : m \in Modems}
Info == [Fields -> Answers]
CacheItem == [slot : Slots, imei : Answers, imsi : Answers,
              status : BOOLEAN, valid : BOOLEAN, n : Nat \ {0}]

(* where a thread is: between requests, at the next port, at a port, and   *)
(* there while the device is started on it                                 *)
Resting == {"idle", "list"}
Holding == {"lookup", "copy", "opentty", "lock", "open", "command", "unlink", "update",
            "store", "release", "open2", "monitor", "unlink2"}
Starting == {"opentty2", "lock2", "open2", "monitor", "unlink2"}
AtPort == {"claim"} \cup Holding \cup Starting
Places == Resting \cup {"device"} \cup AtPort

Thread == [pc : Places, dev : 1 .. N, slot : 0 .. Cardinality(Slots) + 1, res : Info,
           fd : Fds \cup {-1}, fail : BOOLEAN, item : Nat]
Connection == [slot : Slots \cup {0}, fd : Fds \cup {-1}, pc : {"off", "on", "unlink"}]

Distinct(q) == \A i, j \in DOMAIN q : q[i].n = q[j].n => i = j

Typed ==
  /\ fds \in [Fds -> Slots \cup {Closed, Hung}]
  /\ lock \in [Slots -> Fds \cup {NoLock, Foreign}]
  /\ usb \in [Slots -> Modems \cup {None}]
  /\ seen \in [Slots -> SUBSET Modems]
  /\ cache \in Seq(CacheItem) /\ Distinct(cache)
  /\ th \in [Threads -> Thread]
  /\ conn \in [Range(Devs) -> Connection]
  /\ fault \in BOOLEAN

-----------------------------------------------------------------------------
(* Induction over numbers, with sets in place of predicates, and what it   *)
(* gives for functions that are defined recursively.                       *)

(* A set of numbers that is not empty has a least one. *)
LEMMA LeastNumber ==
  ASSUME NEW T, T \subseteq Nat, T # {}
  PROVE  \E n \in T : \A m \in T : n <= m
<1> DEFINE R == OpToRel(<, Nat)
<1>1. IsWellFoundedOn(R, Nat)
  BY NatLessThanWellFounded
<1>2. \A m, n \in Nat : m < n => <<m, n>> \in R
  BY DEF OpToRel
<1> HIDE DEF R
<1>3. PICK n \in T : \A m \in T : ~(<<m, n>> \in R)
  BY <1>1, WFMin
<1>4. ASSUME NEW m \in T PROVE n <= m
  <2>1. m \in Nat /\ n \in Nat
    OBVIOUS
  <2>2. ~(m < n)
    BY <1>2, <1>3, <2>1
  <2>. QED BY <2>1, <2>2
<1> QED BY <1>4

(* Induction up to a bound: a set that holds 0, and each n + 1 up to B with *)
(* n, holds every number up to B.                                          *)
LEMMA BoundedInduction ==
  ASSUME NEW B \in Nat, NEW T, 0 \in T,
         ASSUME NEW n \in 0 .. B, n + 1 <= B, n \in T PROVE n + 1 \in T
  PROVE  0 .. B \subseteq T
<1> SUFFICES ASSUME ~(0 .. B \subseteq T) PROVE FALSE
  OBVIOUS
<1>1. PICK n \in (0 .. B) \ T : \A m \in (0 .. B) \ T : n <= m
  <2>1. (0 .. B) \ T \subseteq Nat /\ (0 .. B) \ T # {}
    OBVIOUS
  <2>. QED BY <2>1, LeastNumber
<1>2. n # 0 /\ n - 1 \in 0 .. B /\ (n - 1) + 1 = n
  BY <1>1
<1>3. n - 1 \in T
  BY <1>1, <1>2
<1>4. (n - 1) + 1 \in T
  BY <1>1, <1>2, <1>3
<1> QED BY <1>1, <1>2, <1>4

(* F[n] leads from each set of the family S to the next; h is such a way *)
Passes(B, S, F) == \A n \in 1 .. B : \A x \in S[n - 1] : F[n][x] \in S[n]
Way(B, S, e, F, h) ==
  /\ h[0] = e
  /\ \A n \in 1 .. B : h[n - 1] \in S[n - 1] /\ h[n] = F[n][h[n - 1]]

(* A step for each n that leads from one set of a family to the next can   *)
(* be taken B times: this is what gives a recursive function its values.   *)
LEMMA Iteration ==
  ASSUME NEW B \in Nat, NEW V, NEW S \in [0 .. B -> SUBSET V], NEW e \in S[0], NEW F,
         Passes(B, S, F)
  PROVE  \E h \in [0 .. B -> V] : Way(B, S, e, F, h)
<1> USE DEF Passes
<1> DEFINE Upto(n, h) ==
             /\ h \in [0 .. n -> V]
             /\ h[0] = e
             /\ \A k \in 0 .. n : h[k] \in S[k]
             /\ \A k \in 1 .. n : h[k] = F[k][h[k - 1]]
           T == {n \in 0 .. B : \E h : Upto(n, h)}
<1>1. 0 \in T
  <2> DEFINE h == [k \in 0 .. 0 |-> e]
  <2>1. Upto(0, h)
    OBVIOUS
  <2> HIDE DEF h, Upto
  <2>. QED BY <2>1
<1>2. ASSUME NEW n \in 0 .. B, n + 1 <= B, n \in T PROVE n + 1 \in T
  <2>1. PICK h : Upto(n, h)
    BY <1>2
  <2> DEFINE j == [k \in 0 .. n + 1 |-> IF k = n + 1 THEN F[n + 1][h[n]] ELSE h[k]]
  <2>2. \A k \in 0 .. n : j[k] = h[k]
    OBVIOUS
  <2>3. j[n + 1] = F[n + 1][h[n]] /\ n \in 0 .. n /\ n + 1 \in 1 .. B /\ (n + 1) - 1 = n
    BY <1>2
  <2>4. j[n + 1] \in S[n + 1]
    BY <2>1, <2>3
  <2>5. j \in [0 .. n + 1 -> V] /\ j[0] = e
    <3>1. n + 1 \in 0 .. B
      BY <1>2
    <3>2. \A k \in 0 .. n + 1 : k = n + 1 \/ k \in 0 .. n
      OBVIOUS
    <3>. QED BY <2>1, <2>2, <2>4, <3>1, <3>2
  <2>6. \A k \in 0 .. n + 1 : j[k] \in S[k]
    BY <2>1, <2>2, <2>4
  <2>7. \A k \in 1 .. n + 1 : j[k] = F[k][j[k - 1]]
    <3> SUFFICES ASSUME NEW k \in 1 .. n + 1 PROVE j[k] = F[k][j[k - 1]]
      OBVIOUS
    <3>1. k - 1 \in 0 .. n /\ j[k - 1] = h[k - 1]
      BY <2>2
    <3>2. CASE k = n + 1
      BY <2>3, <3>1, <3>2
    <3>3. CASE k \in 1 .. n
      BY <2>1, <2>2, <3>1, <3>3
    <3>. QED BY <3>2, <3>3
  <2> HIDE DEF j
  <2>8. Upto(n + 1, j)
    BY <2>5, <2>6, <2>7
  <2> HIDE DEF Upto
  <2>. QED BY <1>2, <2>8
<1> HIDE DEF T
<1>3. 0 .. B \subseteq T
  BY <1>1, <1>2, BoundedInduction
<1>4. PICK h : Upto(B, h)
  BY <1>3 DEF T
<1>5. \A n \in 1 .. B : n - 1 \in 0 .. B
  OBVIOUS
<1>6. h \in [0 .. B -> V] /\ Way(B, S, e, F, h)
  BY <1>4, <1>5 DEF Way
<1> QED BY <1>6

(* Values that pass from each set of a family to the next are in them all. *)
LEMMA Iterates ==
  ASSUME NEW B \in Nat, NEW S, NEW g, g[0] \in S[0],
         \A n \in 1 .. B : g[n - 1] \in S[n - 1] => g[n] \in S[n]
  PROVE  \A n \in 0 .. B : g[n] \in S[n]
<1> DEFINE T == {n \in 0 .. B : g[n] \in S[n]}
<1>1. 0 \in T
  OBVIOUS
<1>2. ASSUME NEW n \in 0 .. B, n + 1 <= B, n \in T PROVE n + 1 \in T
  BY <1>2
<1> HIDE DEF T
<1>3. 0 .. B \subseteq T
  BY <1>1, <1>2, BoundedInduction
<1> QED BY <1>3 DEF T

-----------------------------------------------------------------------------
(* The operators of the model.                                             *)

LEMMA InfoTypes ==
  /\ NoInfo \in Info /\ NoInfo["imei"] = None /\ NoInfo["imsi"] = None
  /\ \A c \in CacheItem : /\ [imei |-> c.imei, imsi |-> c.imsi] \in Info
                          /\ \A f \in Fields : [imei |-> c.imei, imsi |-> c.imsi][f] = c[f]
  /\ ANY["imei"] = "ANY" /\ ANY["imsi"] = "ANY"
<1>1. NoInfo \in Info /\ NoInfo["imei"] = None /\ NoInfo["imsi"] = None
  BY DEF NoInfo, Info, Fields, Answers
<1>2. ASSUME NEW c \in CacheItem
      PROVE  /\ [imei |-> c.imei, imsi |-> c.imsi] \in Info
             /\ \A f \in Fields : [imei |-> c.imei, imsi |-> c.imsi][f] = c[f]
  BY DEF CacheItem, Info, Fields
<1>3. ANY["imei"] = "ANY" /\ ANY["imsi"] = "ANY"
  BY DEF ANY
<1> QED BY <1>1, <1>2, <1>3

LEMMA SlotsBounds ==
  /\ Cardinality(Slots) \in Nat /\ Slots = 1 .. Cardinality(Slots)
  /\ \A s \in 0 .. Cardinality(Slots) + 1 :
       s + 1 \in 0 .. Cardinality(Slots) + 1 \/ s = Cardinality(Slots) + 1
BY SlotsAssumption, FS_CardinalityType

LEMMA DevsBounds ==
  /\ N \in Nat \ {0} /\ \A i \in 1 .. N : Devs[i] \in Range(Devs) /\ (i % N) + 1 \in 1 .. N
<1>1. Devs \in Seq(Range(Devs)) /\ Devs # <<>>
  BY DevsAssumption
<1>2. Len(Devs) \in Nat \ {0} /\ DOMAIN Devs = 1 .. Len(Devs)
  BY <1>1, EmptySeq, LenProperties
<1>3. \A i \in 1 .. Len(Devs) : Devs[i] \in Range(Devs)
  BY <1>2 DEF Range
<1>4. \A n \in Nat \ {0} : \A i \in 1 .. n : (i % n) + 1 \in 1 .. n
  OBVIOUS
<1> QED BY <1>2, <1>3, <1>4 DEF N

LEMMA NewFdFree == Free # {} => NewFd \in Free
<1> SUFFICES ASSUME Free # {} PROVE NewFd \in Free
  OBVIOUS
<1>1. Free \subseteq Nat
  BY FdsAssumption DEF Free
<1>2. \E n \in Free : \A m \in Free : n <= m
  BY <1>1, LeastNumber
<1> QED BY <1>2 DEF NewFd, Min

LEMMA FoundIs ==
  ASSUME cache \in Seq(CacheItem), NEW s
  PROVE  \/ Found(s) = 0
         \/ Found(s) \in DOMAIN cache /\ cache[Found(s)].slot = s
<1>1. CASE Hits(s) = {}
  BY <1>1 DEF Found
<1>2. CASE Hits(s) # {}
  <2>1. Hits(s) \subseteq Nat
    BY LenProperties DEF Hits
  <2>2. \E n \in Hits(s) : \A m \in Hits(s) : n <= m
    BY <1>2, <2>1, LeastNumber
  <2>3. Found(s) \in Hits(s)
    BY <1>2, <2>2 DEF Found, Min
  <2>. QED BY <2>3 DEF Hits
<1> QED BY <1>1, <1>2

(* Searching frees items and changes none. *)
LEMMA KeptSome ==
  ASSUME cache \in Seq(CacheItem), Distinct(cache), NEW s
  PROVE  /\ Kept(s) \in Seq(CacheItem) /\ Distinct(Kept(s))
         /\ \A i \in DOMAIN Kept(s) : \E k \in DOMAIN cache : Kept(s)[i] = cache[k]
<1> DEFINE L == Len(cache)
           Body(g) == [n \in 0 .. Len(cache) |->
                         CASE n = 0 -> <<>>
                           [] n # 0 /\ Stays(s, n) -> Append(g[n - 1], cache[n])
                           [] OTHER -> g[n - 1]]
           upto == CHOOSE g : g = Body(g)
           From(n, q) == /\ q \in Seq(CacheItem) /\ Distinct(q)
                         /\ \A i \in DOMAIN q : \E k \in 1 .. n : q[i] = cache[k]
           S == [n \in 0 .. L |-> {q \in Seq(CacheItem) : From(n, q)}]
           F == [n \in 1 .. L |-> [q \in S[n - 1] |->
                   IF Stays(s, n) THEN Append(q, cache[n]) ELSE q]]
<1>1. L \in Nat /\ DOMAIN cache = 1 .. L /\ L \in 0 .. L
  BY LenProperties
<1>2. Kept(s) = upto[Len(cache)]
  BY DEF Kept
<1>3. ASSUME NEW n \in 1 .. L, NEW q, From(n - 1, q)
      PROVE  From(n, IF Stays(s, n) THEN Append(q, cache[n]) ELSE q)
  <2>1. n - 1 \in Nat /\ q \in Seq(CacheItem) /\ cache[n] \in CacheItem
    BY <1>1, <1>3
  <2>2. \A k \in 1 .. n - 1 : k \in 1 .. n /\ k # n /\ k \in DOMAIN cache
    BY <1>1
  <2>3. From(n, q)
    BY <1>3, <2>2
  <2>4. From(n, Append(q, cache[n]))
    <3> DEFINE r == Append(q, cache[n])
    <3>1. /\ r \in Seq(CacheItem) /\ Len(q) \in Nat
          /\ DOMAIN q = 1 .. Len(q) /\ DOMAIN r = 1 .. Len(q) + 1
          /\ r[Len(q) + 1] = cache[n] /\ \A i \in 1 .. Len(q) : r[i] = q[i]
      BY <2>1, AppendProperties, LenProperties
    <3> HIDE DEF r
    <3>2. \A i \in DOMAIN r : \E k \in 1 .. n : r[i] = cache[k]
      BY <2>3, <3>1
    <3>3. \A i \in 1 .. Len(q) : r[i].n # cache[n].n
      <4> SUFFICES ASSUME NEW i \in 1 .. Len(q) PROVE q[i].n # cache[n].n
        BY <3>1
      <4>1. PICK k \in 1 .. n - 1 : q[i] = cache[k]
        BY <1>3, <3>1
      <4>. QED BY <1>1, <2>2, <4>1 DEF Distinct
    <3>4. Distinct(r)
      <4> SUFFICES ASSUME NEW i \in DOMAIN r, NEW j \in DOMAIN r, r[i].n = r[j].n PROVE i = j
        BY DEF Distinct
      <4>1. CASE i \in 1 .. Len(q) /\ j \in 1 .. Len(q)
        BY <1>3, <3>1, <4>1 DEF Distinct
      <4>2. CASE i = Len(q) + 1 \/ j = Len(q) + 1
        BY <3>1, <3>3, <4>2
      <4>. QED BY <3>1, <4>1, <4>2
    <3>. QED BY <3>1, <3>2, <3>4 DEF r
  <2>. QED BY <2>3, <2>4
<1>4. From(0, <<>>) /\ <<>> \in Seq(CacheItem) /\ 0 \in 0 .. L
  BY <1>1 DEF Distinct
<1> HIDE DEF From
<1>5. \A n \in 1 .. L : \A q \in S[n - 1] :
        F[n][q] = IF Stays(s, n) THEN Append(q, cache[n]) ELSE q
  OBVIOUS
<1>6. \A n \in 0 .. L : S[n] = {q \in Seq(CacheItem) : From(n, q)}
  OBVIOUS
<1>7. S \in [0 .. L -> SUBSET Seq(CacheItem)]
  OBVIOUS
<1> HIDE DEF S, F
<1>8. Passes(L, S, F)
  <2> SUFFICES ASSUME NEW n \in 1 .. L, NEW q \in S[n - 1] PROVE F[n][q] \in S[n]
    BY DEF Passes
  <2>1. n - 1 \in 0 .. L /\ n \in 0 .. L
    BY <1>1
  <2>2. From(n, F[n][q])
    BY <1>3, <1>5, <1>6, <2>1
  <2>. QED BY <1>6, <2>1, <2>2 DEF From
<1>9. PICK h \in [0 .. L -> Seq(CacheItem)] : Way(L, S, <<>>, F, h)
  <2>1. <<>> \in S[0]
    BY <1>4, <1>6
  <2>. QED BY <1>1, <1>7, <1>8, <2>1, Iteration
<1>10. h = Body(h)
  <2>1. ASSUME NEW n \in 0 .. L
        PROVE  h[n] = CASE n = 0 -> <<>>
                        [] n # 0 /\ Stays(s, n) -> Append(h[n - 1], cache[n])
                        [] OTHER -> h[n - 1]
    <3>1. CASE n = 0
      BY <1>9, <3>1 DEF Way
    <3>2. CASE n # 0
      <4>1. n \in 1 .. L
        BY <1>1, <3>2
      <4>2. h[n] = IF Stays(s, n) THEN Append(h[n - 1], cache[n]) ELSE h[n - 1]
        BY <1>5, <1>9, <4>1 DEF Way
      <4>. QED BY <3>2, <4>2
    <3>. QED BY <3>1, <3>2
  <2>. QED BY <2>1
<1>11. upto = Body(upto)
  BY <1>10
<1> HIDE DEF upto
<1>12. upto[0] = <<>> /\ \A n \in 1 .. L :
         upto[n] = IF Stays(s, n) THEN Append(upto[n - 1], cache[n]) ELSE upto[n - 1]
  <2>1. \A n \in 0 .. L : upto[n] = Body(upto)[n]
    BY <1>11
  <2>2. \A n \in 1 .. L : n \in 0 .. L /\ n # 0
    BY <1>1
  <2>. QED BY <1>1, <2>1, <2>2
<1> HIDE DEF Body
<1>13. \A n \in 0 .. L : upto[n] \in S[n]
  <2>1. upto[0] \in S[0]
    BY <1>4, <1>6, <1>12
  <2>2. ASSUME NEW n \in 1 .. L, upto[n - 1] \in S[n - 1] PROVE upto[n] \in S[n]
    BY <1>5, <1>8, <1>12, <2>2 DEF Passes
  <2>. QED BY <1>1, <2>1, <2>2, Iterates
<1>14. From(L, Kept(s))
  BY <1>1, <1>2, <1>6, <1>13
<1> QED BY <1>1, <1>14 DEF From

-----------------------------------------------------------------------------
(* The inductive invariant.                                                *)

(* what a thread has at every place *)
Fresh(t) == th[t].res = NoInfo /\ th[t].item = 0

Placed(t) ==
  /\ th[t].pc \in AtPort => th[t].slot \in Slots
  /\ th[t].pc \notin AtPort => Fresh(t)
  /\ th[t].pc = "device" => th[t].slot # 0
  /\ th[t].fd # -1 <=> th[t].pc \in {"command", "monitor"}
  /\ th[t].pc \in Starting => t = "discovery" /\ Matched(req(t), th[t].res)
  /\ t = "discovery" /\ th[t].pc # "idle" => conn[Devs[th[t].dev]] = Off

Connected(d) ==
  /\ conn[d].pc = "off" => conn[d] = Off
  /\ conn[d].pc = "on" => conn[d].slot \in Slots /\ conn[d].fd \in Fds

(* who works on a locked port *)
Holds(t, s) == th[t].slot = s /\ th[t].pc \in Holding
LocksHeld ==
  \A s \in Slots : lock[s] \in Fds =>
    (\E t \in Threads : Holds(t, s)) \/ (\E d \in Range(Devs) : conn[d].slot = s)

(* who has an open descriptor: one thread, or one device *)
On(d) == conn[d].pc = "on"
Has(f) == (\E t \in Threads : th[t].fd = f) \/ (\E d \in Range(Devs) : On(d) /\ conn[d].fd = f)
Shared ==
  \/ \E t, u \in Threads : th[t].fd # -1 /\ th[t].fd = th[u].fd /\ t # u
  \/ \E t \in Threads, d \in Range(Devs) : On(d) /\ th[t].fd = conn[d].fd
  \/ \E d, e \in Range(Devs) : On(d) /\ On(e) /\ conn[d].fd = conn[e].fd /\ d # e
FdsHeld ==
  /\ \A f \in Fds : fds[f] # Closed => Has(f)
  /\ \A t \in Threads : th[t].fd # -1 => fds[th[t].fd] \in {th[t].slot, Hung}
  /\ \A d \in Range(Devs) : On(d) => fds[conn[d].fd] \in {conn[d].slot, Hung}
  /\ ~Shared
  /\ \A f \in Fds : fds[f] \in Slots => usb[fds[f]] # None

(* what is believed of a port *)
Told ==
  /\ \A s \in Slots : usb[s] # None => usb[s] \in seen[s]
  /\ \A f \in Fields :
       /\ \A t \in Threads : Says(th[t].slot, f, th[t].res[f])
       /\ \A i \in DOMAIN cache : Says(cache[i].slot, f, cache[i][f])
       /\ \A d \in Range(Devs) : On(d) =>
            Want[d][f] = None \/ \E m \in seen[conn[d].slot] : m[f] = Want[d][f]
  /\ \A t \in Threads : \A i \in DOMAIN cache :
       cache[i].n = th[t].item => cache[i].slot = th[t].slot

IInv ==
  /\ Typed /\ LocksHeld /\ FdsHeld /\ Told
  /\ \A t \in Threads : Placed(t)
  /\ \A d \in Range(Devs) : Connected(d)

-----------------------------------------------------------------------------
(* What each action does to its thread.                                    *)

Moved(t) == th' \in [Threads -> Thread] /\ \A u \in Threads : u # t => th'[u] = th[u]
Continues(t, pc) ==
  /\ Moved(t) /\ th'[t].pc = pc
  /\ th'[t].dev = th[t].dev /\ th'[t].slot = th[t].slot
Leaves(t) ==
  /\ Moved(t) /\ th'[t].pc \in Resting \cup {"device"}
  /\ th'[t].res = NoInfo /\ th'[t].item = 0 /\ th'[t].fd = -1
  /\ th'[t].pc = "device" => th'[t].slot # 0 /\ th'[t].dev = th[t].dev
  /\ t = "discovery" => th'[t].pc # "list"
Known(t) == th'[t].res = th[t].res
Itemed(t) == th'[t].item = th[t].item
Opened(t) == th'[t].fd = th[t].fd

LEMMA ThreadTypes ==
  ASSUME Typed, NEW t \in Threads
  PROVE  /\ th[t] \in Thread /\ th[t].pc \in Places /\ th[t].dev \in 1 .. N
         /\ th[t].slot \in 0 .. Cardinality(Slots) + 1 /\ th[t].res \in Info
         /\ th[t].fd \in Fds \cup {-1} /\ th[t].fail \in BOOLEAN /\ th[t].item \in Nat
<1>1. th[t] \in Thread
  BY DEF Typed
<1> QED BY <1>1 DEF Thread

LEMMA MovesTo ==
  ASSUME Typed, NEW t \in Threads, NEW r \in Thread, th' = [th EXCEPT ![t] = r]
  PROVE  Moved(t) /\ th'[t] = r
BY DEF Typed, Moved

LEMMA AgainIs ==
  ASSUME Typed, NEW t \in Threads
  PROVE  /\ Again(t) \in Thread /\ Again(t).pc = "idle" /\ Again(t).res = NoInfo
         /\ Again(t).item = 0 /\ Again(t).fd = -1
<1>1. (th[t].dev % N) + 1 \in 1 .. N /\ 1 \in 1 .. N
  BY ThreadTypes, DevsBounds
<1>2. 0 \in 0 .. Cardinality(Slots) + 1
  BY SlotsBounds
<1> QED BY <1>1, <1>2, InfoTypes DEF Again, Idle, Thread, Places, Resting

LEMMA AgainLeaves ==
  ASSUME Typed, NEW t \in Threads, th' = [th EXCEPT ![t] = Again(t)]
  PROVE  Leaves(t)
BY AgainIs, MovesTo DEF Leaves, Resting

LEMMA GotoContinues ==
  ASSUME Typed, NEW t \in Threads, NEW pc \in Places, Goto(t, pc)
  PROVE  Continues(t, pc) /\ Known(t) /\ Itemed(t) /\ Opened(t)
<1> DEFINE r == [th[t] EXCEPT !.pc = pc]
<1>1. r \in Thread /\ r.pc = pc /\ r.dev = th[t].dev /\ r.slot = th[t].slot
      /\ r.res = th[t].res /\ r.item = th[t].item /\ r.fd = th[t].fd
  BY ThreadTypes DEF Thread
<1>2. th' = [th EXCEPT ![t] = r]
  BY DEF Goto
<1> HIDE DEF r
<1> QED BY <1>1, <1>2, MovesTo DEF Continues, Known, Itemed, Opened

LEMMA NextSlotLeaves ==
  ASSUME Typed, NEW t \in Threads, th[t].slot \in Slots \/ th[t].slot = 0, NextSlot(t)
  PROVE  Leaves(t)
<1> DEFINE r == [th[t] EXCEPT !.pc = "device", !.slot = @ + 1, !.res = NoInfo,
                              !.fail = TRUE, !.item = 0, !.fd = -1]
<1>1. th[t].slot + 1 \in 0 .. Cardinality(Slots) + 1 /\ th[t].slot + 1 # 0
  BY SlotsBounds, ThreadTypes
<1>2. /\ r \in Thread /\ r.pc = "device" /\ r.slot # 0 /\ r.dev = th[t].dev
      /\ r.res = NoInfo /\ r.item = 0 /\ r.fd = -1
  BY <1>1, ThreadTypes, InfoTypes DEF Thread, Places
<1>3. th' = [th EXCEPT ![t] = r]
  BY DEF NextSlot
<1> HIDE DEF r
<1> QED BY <1>2, <1>3, MovesTo DEF Leaves

LEMMA BeginMoves ==
  ASSUME Typed, NEW t \in Threads, Placed(t), Begin(t)
  PROVE  Leaves(t) /\ (t = "discovery" /\ th'[t].pc # "idle" => conn[Devs[th[t].dev]].pc = "off")
<1>1. Fresh(t) /\ th[t].fd = -1 /\ th[t].pc = "idle"
  BY DEF Begin, At, Placed, AtPort, Holding, Starting
<1> DEFINE turn == t = "discovery" /\ conn[Devs[th[t].dev]].pc # "off"
<1>2. CASE turn
  <2> DEFINE r == [th[t] EXCEPT !.dev = (@ % N) + 1]
  <2>1. (th[t].dev % N) + 1 \in 1 .. N
    BY ThreadTypes, DevsBounds
  <2>2. /\ r \in Thread /\ r.pc = "idle" /\ r.res = NoInfo /\ r.item = 0 /\ r.fd = -1
    BY <1>1, <2>1, ThreadTypes DEF Thread, Fresh
  <2>3. th' = [th EXCEPT ![t] = r]
    BY <1>2 DEF Begin
  <2> HIDE DEF r
  <2>. QED BY <2>2, <2>3, MovesTo DEF Leaves, Resting
<1>3. CASE ~turn
  <2> DEFINE r == [th[t] EXCEPT !.pc = "device", !.slot = 1]
  <2>1. 1 \in 0 .. Cardinality(Slots) + 1
    BY SlotsBounds
  <2>2. /\ r \in Thread /\ r.pc = "device" /\ r.slot = 1 /\ r.dev = th[t].dev
        /\ r.res = NoInfo /\ r.item = 0 /\ r.fd = -1
    BY <1>1, <2>1, ThreadTypes DEF Thread, Fresh, Places
  <2>3. th' = [th EXCEPT ![t] = r]
    BY <1>3 DEF Begin
  <2> HIDE DEF r
  <2>4. r.slot # 0
    BY <2>2
  <2>5. Moved(t) /\ th'[t] = r
    BY <2>2, <2>3, MovesTo
  <2>6. Leaves(t) /\ th'[t].pc = "device"
    BY <2>2, <2>4, <2>5 DEF Leaves
  <2>. QED BY <1>3, <2>6
<1> QED BY <1>2, <1>3

LEMMA DeviceMoves ==
  ASSUME Typed, NEW t \in Threads, Placed(t), Device(t)
  PROVE  \/ Leaves(t)
         \/ /\ Continues(t, "claim") /\ Known(t) /\ Itemed(t) /\ Opened(t)
            /\ th[t].slot \in Slots
<1>1. th[t].pc = "device" /\ th[t].slot # 0
  BY DEF Device, At, Placed
<1>2. CASE th[t].slot \notin Slots
  <2>1. CASE t = "discovery"
    <3>1. th' = [th EXCEPT ![t] = Again(t)]
      BY <1>2, <2>1 DEF Device
    <3>. QED BY <3>1, AgainLeaves
  <2>2. CASE t # "discovery"
    <3> DEFINE r == [Idle EXCEPT !.pc = "list"]
    <3>1. 0 \in 0 .. Cardinality(Slots) + 1 /\ 1 \in 1 .. N
      BY SlotsBounds, DevsBounds
    <3>2. /\ r \in Thread /\ r.pc = "list" /\ r.res = NoInfo /\ r.item = 0 /\ r.fd = -1
      BY <3>1, InfoTypes DEF Idle, Thread, Places, Resting
    <3>3. th' = [th EXCEPT ![t] = r]
      BY <1>2, <2>2 DEF Device
    <3> HIDE DEF r
    <3>. QED BY <2>2, <3>2, <3>3, MovesTo DEF Leaves, Resting
  <2>. QED BY <2>1, <2>2
<1>3. CASE th[t].slot \in Slots
  <2>1. Goto(t, "claim") \/ NextSlot(t)
    BY <1>3 DEF Device
  <2>2. "claim" \in Places
    BY DEF Places, AtPort
  <2>. QED BY <1>3, <2>1, <2>2, GotoContinues, NextSlotLeaves
<1> QED BY <1>2, <1>3

LEMMA ClaimMoves ==
  ASSUME Typed, NEW t \in Threads, Claim(t)
  PROVE  Continues(t, "lookup") /\ Known(t) /\ Itemed(t) /\ Opened(t)
<1>1. "lookup" \in Places
  BY DEF Places, AtPort, Holding
<1> QED BY <1>1, GotoContinues DEF Claim

LEMMA ListEndMoves ==
  ASSUME Typed, NEW t \in Threads, Placed(t), pdiscovery_list_end(t)
  PROVE  Leaves(t) /\ th'[t].pc = "idle"
<1>1. "idle" \in Places
  BY DEF Places, Resting
<1>2. Fresh(t) /\ th[t].fd = -1
  BY DEF pdiscovery_list_end, At, Placed, AtPort, Holding, Starting
<1>3. Continues(t, "idle") /\ Known(t) /\ Itemed(t) /\ Opened(t)
  BY <1>1, GotoContinues DEF pdiscovery_list_end
<1> QED BY <1>2, <1>3 DEF Leaves, Continues, Known, Itemed, Opened, Fresh, Resting

LEMMA LockMoves ==
  ASSUME Typed, NEW t \in Threads, Lock(t)
  PROVE  /\ Continues(t, IF th[t].pc = "lock" THEN "open" ELSE "open2")
         /\ Known(t) /\ Itemed(t) /\ Opened(t)
<1>1. (IF th[t].pc = "lock" THEN "open" ELSE "open2") \in Places
  BY DEF Places, AtPort, Holding
<1> QED BY <1>1, GotoContinues DEF Lock

LEMMA FoundItem ==
  ASSUME Typed, NEW s
  PROVE  \/ Found(s) = 0
         \/ /\ Found(s) \in DOMAIN cache /\ cache[Found(s)] \in CacheItem
            /\ cache[Found(s)].slot = s /\ cache[Found(s)].n \in Nat \ {0}
<1>1. Found(s) = 0 \/ (Found(s) \in DOMAIN cache /\ cache[Found(s)].slot = s)
  BY FoundIs DEF Typed
<1>2. \A i \in DOMAIN cache : cache[i] \in CacheItem
  BY ElementOfSeq, LenProperties DEF Typed
<1>3. \A c \in CacheItem : c.n \in Nat \ {0}
  BY DEF CacheItem
<1> QED BY <1>1, <1>2, <1>3

LEMMA SearchMoves ==
  ASSUME Typed, NEW t \in Threads, NEW pc \in Places, cache_search(t, pc)
  PROVE  /\ Continues(t, pc) /\ Known(t) /\ Opened(t)
         /\ \/ th'[t].item = 0
            \/ \E k \in DOMAIN cache : th'[t].item = cache[k].n /\ cache[k].slot = th[t].slot
<1> DEFINE i == IF Found(th[t].slot) = 0 THEN 0 ELSE cache[Found(th[t].slot)].n
           r == [th[t] EXCEPT !.pc = pc, !.item = i]
<1>1. /\ i \in Nat
      /\ i = 0 \/ \E k \in DOMAIN cache : i = cache[k].n /\ cache[k].slot = th[t].slot
  BY FoundItem
<1>2. th' = [th EXCEPT ![t] = r]
  BY DEF cache_search
<1> HIDE DEF i
<1>3. /\ r \in Thread /\ r.pc = pc /\ r.dev = th[t].dev /\ r.slot = th[t].slot
      /\ r.res = th[t].res /\ r.item = i /\ r.fd = th[t].fd
  BY <1>1, ThreadTypes DEF Thread
<1> HIDE DEF r
<1>4. Moved(t) /\ th'[t] = r
  BY <1>2, <1>3, MovesTo
<1> QED BY <1>1, <1>3, <1>4 DEF Continues, Known, Opened

(* the item of a thread is the one with its number *)
LEMMA ItemIs ==
  ASSUME Typed, NEW t \in Threads, Alive(th[t].item)
  PROVE  /\ Item(t) \in CacheItem
         /\ \E i \in DOMAIN cache : Item(t) = cache[i] /\ cache[i].n = th[t].item
<1>1. \E i \in DOMAIN cache : cache[i].n = th[t].item
  BY DEF Alive, Numbers
<1>2. \E i \in DOMAIN cache : Item(t) = cache[i] /\ cache[i].n = th[t].item
  BY <1>1 DEF Item
<1>3. \A i \in DOMAIN cache : cache[i] \in CacheItem
  BY ElementOfSeq, LenProperties DEF Typed
<1> QED BY <1>2, <1>3

LEMMA LookupMoves ==
  ASSUME Typed, NEW t \in Threads, cache_lookup(t)
  PROVE  \/ th' = th
         \/ Continues(t, "opentty") /\ Known(t) /\ Itemed(t) /\ Opened(t)
         \/ /\ \E pc \in {"opentty", "release"} : Continues(t, pc)
            /\ Opened(t) /\ th'[t].item = 0
            /\ Alive(th[t].item) /\ \A f \in Fields : th'[t].res[f] = Item(t)[f]
<1>1. CASE UseFreed(t)
  BY <1>1 DEF UseFreed
<1>2. CASE th[t].item = 0 /\ Goto(t, "opentty")
  <2>1. "opentty" \in Places
    BY DEF Places, AtPort, Holding
  <2>. QED BY <1>2, <2>1, GotoContinues
<1>3. CASE /\ th[t].item # 0 /\ Alive(th[t].item)
           /\ LET c == Item(t)
                  found == Enough(req(t), c)
              IN  th' = [th EXCEPT ![t].res = [imei |-> c.imei, imsi |-> c.imsi],
                                   ![t].fail = IF found THEN c.status ELSE @,
                                   ![t].item = 0,
                                   ![t].pc = IF found THEN "release" ELSE "opentty"]
  <2> DEFINE c == Item(t)
             info == [imei |-> c.imei, imsi |-> c.imsi]
             fail == IF Enough(req(t), c) THEN c.status ELSE th[t].fail
             pc == IF Enough(req(t), c) THEN "release" ELSE "opentty"
             r == [th[t] EXCEPT !.res = info, !.fail = fail, !.item = 0, !.pc = pc]
  <2>1. c \in CacheItem
    BY <1>3, ItemIs
  <2>2. th' = [th EXCEPT ![t] = r]
    BY <1>3
  <2> HIDE DEF c
  <2>3. info \in Info /\ \A f \in Fields : info[f] = c[f]
    BY <2>1, InfoTypes
  <2>4. fail \in BOOLEAN /\ pc \in Places /\ pc \in {"opentty", "release"}
    BY <2>1, ThreadTypes DEF CacheItem, Places, AtPort, Holding
  <2> HIDE DEF info, fail, pc
  <2>5. /\ r \in Thread /\ r.pc = pc /\ r.dev = th[t].dev /\ r.slot = th[t].slot
        /\ r.res = info /\ r.item = 0 /\ r.fd = th[t].fd
    BY <2>3, <2>4, ThreadTypes DEF Thread
  <2> HIDE DEF r
  <2>6. Moved(t) /\ th'[t] = r
    BY <2>2, <2>5, MovesTo
  <2>7. Continues(t, pc) /\ Opened(t) /\ th'[t].item = 0
    BY <2>5, <2>6 DEF Continues, Opened
  <2>8. \A f \in Fields : th'[t].res[f] = Item(t)[f]
    BY <2>3, <2>5, <2>6 DEF c
  <2>. QED BY <1>3, <2>4, <2>7, <2>8
<1> QED BY <1>1, <1>2, <1>3 DEF cache_lookup

LEMMA OpenttyMoves ==
  ASSUME Typed, NEW t \in Threads, Opentty(t)
  PROVE  \/ Leaves(t) /\ th[t].pc = "opentty2"
         \/ /\ \/ th[t].pc = "opentty" /\ \E pc \in {"lock", "update"} : Continues(t, pc)
               \/ th[t].pc = "opentty2" /\ Continues(t, "lock2")
            /\ Known(t) /\ Itemed(t) /\ Opened(t)
<1>1. th[t].pc \in {"opentty", "opentty2"}
  BY DEF Opentty, At
<1>2. CASE ~Busy(th[t].slot)
  <2> DEFINE pc == IF th[t].pc = "opentty" THEN "lock" ELSE "lock2"
             r == [th[t] EXCEPT !.pc = pc]
  <2>1. pc \in Places
    BY DEF Places, AtPort, Holding, Starting
  <2>2. Goto(t, pc)
    BY <1>2 DEF Opentty, Goto
  <2> HIDE DEF pc
  <2>3. Continues(t, pc) /\ Known(t) /\ Itemed(t) /\ Opened(t)
    BY <2>1, <2>2, GotoContinues
  <2>. QED BY <1>1, <2>3 DEF pc
<1>3. CASE Busy(th[t].slot) /\ th[t].pc = "opentty"
  <2> DEFINE r == [th[t] EXCEPT !.pc = "update", !.fail = TRUE]
  <2>1. th' = [th EXCEPT ![t] = r]
    BY <1>3 DEF Opentty
  <2>2. /\ r \in Thread /\ r.pc = "update" /\ r.dev = th[t].dev /\ r.slot = th[t].slot
        /\ r.res = th[t].res /\ r.item = th[t].item /\ r.fd = th[t].fd
    BY ThreadTypes DEF Thread, Places, AtPort, Holding
  <2> HIDE DEF r
  <2>. QED BY <1>3, <2>1, <2>2, MovesTo DEF Continues, Known, Itemed, Opened
<1>4. CASE Busy(th[t].slot) /\ th[t].pc = "opentty2"
  <2>1. th' = [th EXCEPT ![t] = Again(t)]
    BY <1>4 DEF Opentty
  <2>. QED BY <1>4, <2>1, AgainLeaves
<1> QED BY <1>1, <1>2, <1>3, <1>4

LEMMA OpenMoves ==
  ASSUME Typed, NEW t \in Threads, Open(t)
  PROVE  /\ NewFd \in Free /\ NewFd \in Fds /\ fds[NewFd] = Closed
         /\ \/ th[t].pc = "open" /\ Continues(t, "command")
            \/ th[t].pc = "open2" /\ Continues(t, "monitor")
         /\ Known(t) /\ Itemed(t) /\ th'[t].fd = NewFd
<1>1. th[t].pc \in {"open", "open2"} /\ NewFd \in Free
  BY NewFdFree DEF Open, At
<1> DEFINE pc == IF th[t].pc = "open" THEN "command" ELSE "monitor"
           r == [th[t] EXCEPT !.pc = pc, !.fd = NewFd]
<1>2. NewFd \in Fds /\ fds[NewFd] = Closed
  BY <1>1 DEF Free
<1>3. pc \in Places
  BY DEF Places, AtPort, Holding
<1>4. th' = [th EXCEPT ![t] = r]
  BY DEF Open
<1> HIDE DEF pc
<1>5. /\ r \in Thread /\ r.pc = pc /\ r.dev = th[t].dev /\ r.slot = th[t].slot
      /\ r.res = th[t].res /\ r.item = th[t].item /\ r.fd = NewFd
  BY <1>2, <1>3, ThreadTypes DEF Thread
<1> HIDE DEF r
<1>6. Continues(t, pc) /\ Known(t) /\ Itemed(t) /\ th'[t].fd = NewFd
  BY <1>4, <1>5, MovesTo DEF Continues, Known, Itemed
<1> QED BY <1>1, <1>2, <1>6 DEF pc

LEMMA OpenFailsMoves ==
  ASSUME Typed, NEW t \in Threads, OpenFails(t)
  PROVE  \/ th[t].pc = "open2" /\ Leaves(t)
         \/ /\ th[t].pc = "open" /\ Continues(t, "update")
            /\ Known(t) /\ Itemed(t) /\ Opened(t)
<1>1. th[t].pc \in {"open", "open2"}
  BY DEF OpenFails, At
<1>2. CASE th[t].pc = "open"
  <2> DEFINE r == [th[t] EXCEPT !.pc = "update", !.fail = TRUE]
  <2>1. th' = [th EXCEPT ![t] = r]
    BY <1>2 DEF OpenFails
  <2>2. /\ r \in Thread /\ r.pc = "update" /\ r.dev = th[t].dev /\ r.slot = th[t].slot
        /\ r.res = th[t].res /\ r.item = th[t].item /\ r.fd = th[t].fd
    BY ThreadTypes DEF Thread, Places, AtPort, Holding
  <2> HIDE DEF r
  <2>. QED BY <1>2, <2>1, <2>2, MovesTo DEF Continues, Known, Itemed, Opened
<1>3. CASE th[t].pc = "open2"
  <2>1. th' = [th EXCEPT ![t] = Again(t)]
    BY <1>3 DEF OpenFails
  <2>. QED BY <1>3, <2>1, AgainLeaves
<1> QED BY <1>1, <1>2, <1>3

LEMMA UnlinkMoves ==
  ASSUME Typed, NEW t \in Threads, Unlink(t)
  PROVE  \/ th[t].pc = "unlink2" /\ Leaves(t)
         \/ /\ th[t].pc = "unlink" /\ Continues(t, "update")
            /\ Known(t) /\ Itemed(t) /\ Opened(t)
<1>1. th[t].pc \in {"unlink", "unlink2"}
  BY DEF Unlink, At
<1>2. CASE th[t].pc = "unlink"
  <2>1. "update" \in Places
    BY DEF Places, AtPort, Holding
  <2>2. Goto(t, "update")
    BY <1>2 DEF Unlink, Goto
  <2>. QED BY <1>2, <2>1, <2>2, GotoContinues
<1>3. CASE th[t].pc = "unlink2"
  <2>1. th' = [th EXCEPT ![t] = Again(t)]
    BY <1>3 DEF Unlink
  <2>. QED BY <1>3, <2>1, AgainLeaves
<1> QED BY <1>1, <1>2, <1>3

(* what an answer adds was said by the modem *)
LEMMA MergeIs ==
  ASSUME NEW r, NEW known \in Info, NEW m \in Modems
  PROVE  /\ Merge(r, known, m) \in Info
         /\ \A f \in Fields : Merge(r, known, m)[f] = known[f] \/ Merge(r, known, m)[f] = m[f]
<1>1. \A f \in Fields : m[f] \in Answers /\ known[f] \in Answers
  BY DEF Fields, Answers, Info
<1>2. Merge(r, known, m) =
        [f \in Fields |-> IF r[f] # None /\ known[f] = None THEN m[f] ELSE known[f]]
  BY DEF Merge, Fields
<1> QED BY <1>1, <1>2 DEF Info

LEMMA CommandMoves ==
  ASSUME Typed, NEW t \in Threads, Command(t), th[t].fd \in Fds,
         fds[th[t].fd] \in Slots => usb[th[t].slot] \in Modems
  PROVE  /\ Continues(t, "unlink") /\ Itemed(t) /\ th'[t].fd = -1
         /\ \/ Known(t)
            \/ /\ usb[th[t].slot] \in Modems
               /\ \A f \in Fields : \/ th'[t].res[f] = th[t].res[f]
                                    \/ th'[t].res[f] = usb[th[t].slot][f]
<1>1. "unlink" \in Places
  BY DEF Places, AtPort, Holding
<1>2. CASE /\ fds[th[t].fd] \in Slots
           /\ th' = [th EXCEPT ![t].pc = "unlink", ![t].fd = -1, ![t].fail = FALSE,
                               ![t].res = Merge(req(t), @, usb[th[t].slot])]
  <2> DEFINE m == usb[th[t].slot]
             res == Merge(req(t), th[t].res, m)
             r == [th[t] EXCEPT !.pc = "unlink", !.fd = -1, !.fail = FALSE, !.res = res]
  <2>1. th' = [th EXCEPT ![t] = r]
    BY <1>2
  <2>2. m \in Modems
    BY <1>2
  <2>3. res \in Info /\ \A f \in Fields : res[f] = th[t].res[f] \/ res[f] = m[f]
    BY <2>2, MergeIs, ThreadTypes
  <2> HIDE DEF res
  <2>4. /\ r \in Thread /\ r.pc = "unlink" /\ r.dev = th[t].dev /\ r.slot = th[t].slot
        /\ r.res = res /\ r.item = th[t].item /\ r.fd = -1
    BY <1>1, <2>3, ThreadTypes DEF Thread
  <2> HIDE DEF r
  <2>5. Moved(t) /\ th'[t] = r
    BY <2>1, <2>4, MovesTo
  <2>. QED BY <2>2, <2>3, <2>4, <2>5 DEF Continues, Itemed
<1>3. CASE th' = [th EXCEPT ![t].pc = "unlink", ![t].fd = -1, ![t].fail = TRUE]
  <2> DEFINE r == [th[t] EXCEPT !.pc = "unlink", !.fd = -1, !.fail = TRUE]
  <2>1. th' = [th EXCEPT ![t] = r]
    BY <1>3
  <2>2. /\ r \in Thread /\ r.pc = "unlink" /\ r.dev = th[t].dev /\ r.slot = th[t].slot
        /\ r.res = th[t].res /\ r.item = th[t].item /\ r.fd = -1
    BY <1>1, ThreadTypes DEF Thread
  <2> HIDE DEF r
  <2>. QED BY <2>1, <2>2, MovesTo DEF Continues, Known, Itemed
<1> QED BY <1>2, <1>3 DEF Command

LEMMA UpdateMoves ==
  ASSUME Typed, NEW t \in Threads, cache_update(t)
  PROVE  \/ th' = th /\ UseFreed(t)
         \/ Continues(t, "release") /\ Known(t) /\ Opened(t) /\ th'[t].item = 0
<1>1. CASE UseFreed(t)
  BY <1>1 DEF UseFreed
<1>2. CASE th' = [th EXCEPT ![t].pc = "release", ![t].item = 0]
  <2> DEFINE r == [th[t] EXCEPT !.pc = "release", !.item = 0]
  <2>1. th' = [th EXCEPT ![t] = r]
    BY <1>2
  <2>2. /\ r \in Thread /\ r.pc = "release" /\ r.dev = th[t].dev /\ r.slot = th[t].slot
        /\ r.res = th[t].res /\ r.item = 0 /\ r.fd = th[t].fd
    BY ThreadTypes DEF Thread, Places, AtPort, Holding
  <2> HIDE DEF r
  <2>. QED BY <2>1, <2>2, MovesTo DEF Continues, Known, Opened
<1> QED BY <1>1, <1>2 DEF cache_update

LEMMA ReleaseMoves ==
  ASSUME Typed, NEW t \in Threads, Placed(t), Release(t)
  PROVE  \/ Leaves(t)
         \/ /\ Continues(t, "opentty2") /\ Known(t) /\ Itemed(t) /\ Opened(t)
            /\ Matched(req(t), th[t].res)
<1>1. th[t].slot \in Slots
  BY DEF Release, At, Placed, AtPort, Holding
<1>2. "opentty2" \in Places
  BY DEF Places, AtPort, Starting
<1>3. (Goto(t, "opentty2") /\ Matched(req(t), th[t].res)) \/ NextSlot(t)
  BY DEF Release
<1> QED BY <1>1, <1>2, <1>3, GotoContinues, NextSlotLeaves

LEMMA MonitorMoves ==
  ASSUME Typed, NEW t \in Threads, Monitor(t)
  PROVE  \/ /\ Leaves(t) /\ th'[t].pc = "idle" /\ fds' = fds
            /\ conn' = [conn EXCEPT ![Devs[th[t].dev]] =
                          [slot |-> th[t].slot, fd |-> th[t].fd, pc |-> "on"]]
         \/ /\ Continues(t, "unlink2") /\ Known(t) /\ Itemed(t) /\ th'[t].fd = -1
            /\ close(th[t].fd) /\ UNCHANGED conn
<1>1. CASE /\ th' = [th EXCEPT ![t] = Again(t)] /\ UNCHANGED fds
           /\ conn' = [conn EXCEPT ![Devs[th[t].dev]] =
                         [slot |-> th[t].slot, fd |-> th[t].fd, pc |-> "on"]]
  <2>1. th'[t].pc = "idle"
    BY <1>1, AgainIs, MovesTo
  <2>. QED BY <1>1, <2>1, AgainLeaves
<1>2. CASE /\ th' = [th EXCEPT ![t].pc = "unlink2", ![t].fd = -1]
           /\ close(th[t].fd) /\ UNCHANGED conn
  <2> DEFINE r == [th[t] EXCEPT !.pc = "unlink2", !.fd = -1]
  <2>1. th' = [th EXCEPT ![t] = r]
    BY <1>2
  <2>2. /\ r \in Thread /\ r.pc = "unlink2" /\ r.dev = th[t].dev /\ r.slot = th[t].slot
        /\ r.res = th[t].res /\ r.item = th[t].item /\ r.fd = -1
    BY ThreadTypes DEF Thread, Places, AtPort, Holding
  <2> HIDE DEF r
  <2>. QED BY <1>2, <2>1, <2>2, MovesTo DEF Continues, Known, Itemed
<1> QED BY <1>1, <1>2 DEF Monitor

-----------------------------------------------------------------------------
(* Numbers of items.                                                       *)

Used == Numbers \cup {th[t].item : t \in Threads}

LEMMA UsedFinite == ASSUME Typed PROVE IsFiniteSet(Used) /\ Cardinality(Used) \in Nat
<1>1. IsFiniteSet(Numbers)
  <2> DEFINE g == [i \in DOMAIN cache |-> cache[i].n]
  <2>1. IsFiniteSet(DOMAIN cache)
    <3>1. DOMAIN cache = 1 .. Len(cache) /\ Len(cache) \in Nat
      BY LenProperties DEF Typed
    <3>. QED BY <3>1, FS_Interval
  <2>2. g \in Surjection(DOMAIN cache, Numbers)
    BY DEF Numbers, Surjection
  <2>. QED BY <2>1, <2>2, FS_Surjection
<1>2. IsFiniteSet({th[t].item : t \in Threads})
  <2> DEFINE g == [t \in Threads |-> th[t].item]
  <2>1. IsFiniteSet(Threads)
    BY ListersAssumption, FS_Singleton, FS_Union DEF Threads
  <2>2. g \in Surjection(Threads, {th[t].item : t \in Threads})
    BY DEF Surjection
  <2>. QED BY <2>1, <2>2, FS_Surjection
<1>3. IsFiniteSet(Used)
  BY <1>1, <1>2, FS_Union DEF Used
<1> QED BY <1>3, FS_CardinalityType

(* there is always a number left for a new item *)
LEMMA NewNumberIs ==
  ASSUME Typed
  PROVE  NewNumber \in Nat \ {0} /\ NewNumber \notin Used
<1> DEFINE c == Cardinality(Used)
           rest == (1 .. c + 1) \ Used
<1>1. IsFiniteSet(Used) /\ c \in Nat
  BY UsedFinite
<1>2. NewNumber = Min(rest)
  BY DEF NewNumber, Used
<1>3. rest # {}
  <2> SUFFICES ASSUME 1 .. c + 1 \in SUBSET Used PROVE FALSE
    OBVIOUS
  <2>1. Cardinality(1 .. c + 1) <= c
    BY <1>1, FS_Subset
  <2>2. Cardinality(1 .. c + 1) = c + 1
    BY <1>1, FS_Interval
  <2>. QED BY <1>1, <2>1, <2>2
<1>4. rest \subseteq Nat \ {0}
  BY <1>1
<1>5. \E n \in rest : \A m \in rest : n <= m
  BY <1>3, <1>4, LeastNumber
<1>6. NewNumber \in rest
  BY <1>2, <1>5 DEF Min
<1> QED BY <1>4, <1>6

-----------------------------------------------------------------------------
(* Types are kept.                                                         *)

LEMMA CacheIs ==
  ASSUME Typed
  PROVE  /\ Len(cache) \in Nat /\ DOMAIN cache = 1 .. Len(cache)
         /\ \A i \in DOMAIN cache : cache[i] \in CacheItem
<1>1. cache \in Seq(CacheItem)
  BY DEF Typed
<1> QED BY <1>1, ElementOfSeq, LenProperties

(* what cache_update makes of the cache *)
LEMMA UpdateKeeps ==
  ASSUME Typed, NEW t \in Threads, th[t].slot \in Slots, cache_update(t), ~UseFreed(t)
  PROVE  /\ cache' \in Seq(CacheItem) /\ Distinct(cache')
         /\ \A i \in DOMAIN cache' :
              \/ i \in DOMAIN cache /\ cache'[i] = cache[i]
              \/ /\ cache'[i].slot = th[t].slot
                 /\ \A f \in Fields : cache'[i][f] = th[t].res[f]
                 /\ \/ cache'[i].n \notin Used
                    \/ i \in DOMAIN cache /\ cache'[i].n = cache[i].n
                                          /\ cache[i].n = th[t].item
<1> DEFINE new(n) == [slot |-> th[t].slot, imei |-> th[t].res.imei,
                      imsi |-> th[t].res.imsi, status |-> th[t].fail,
                      valid |-> TRUE, n |-> n]
<1>1. ASSUME NEW n \in Nat \ {0}
      PROVE  /\ new(n) \in CacheItem /\ new(n).slot = th[t].slot /\ new(n).n = n
             /\ \A f \in Fields : new(n)[f] = th[t].res[f]
  <2>1. th[t].res.imei \in Answers /\ th[t].res.imsi \in Answers
    BY ThreadTypes DEF Info, Fields
  <2>. QED BY <2>1, ThreadTypes DEF CacheItem, Fields
<1>2. /\ th[t].item = 0 \/ Alive(th[t].item)
      /\ cache' = IF th[t].item = 0 THEN Append(cache, new(NewNumber))
                  ELSE [i \in DOMAIN cache |->
                          IF cache[i].n = th[t].item THEN new(th[t].item) ELSE cache[i]]
  BY DEF cache_update
<1> HIDE DEF new
<1>3. /\ cache \in Seq(CacheItem) /\ Distinct(cache)
      /\ Len(cache) \in Nat /\ DOMAIN cache = 1 .. Len(cache)
      /\ \A i \in DOMAIN cache : cache[i] \in CacheItem
  BY CacheIs DEF Typed
<1>4. CASE th[t].item = 0
  <2> DEFINE e == new(NewNumber)
             r == Append(cache, e)
  <2>1. /\ e \in CacheItem /\ e.slot = th[t].slot /\ e.n \notin Used
        /\ \A f \in Fields : e[f] = th[t].res[f]
    BY <1>1, NewNumberIs
  <2> HIDE DEF e
  <2>2. /\ r \in Seq(CacheItem) /\ DOMAIN r = 1 .. Len(cache) + 1
        /\ r[Len(cache) + 1] = e /\ \A i \in 1 .. Len(cache) : r[i] = cache[i]
    BY <1>3, <2>1, AppendProperties, LenProperties
  <2>3. cache' = r
    BY <1>2, <1>4 DEF e
  <2> HIDE DEF r
  <2>4. \A i \in 1 .. Len(cache) : cache[i].n \in Used
    BY <1>3 DEF Used, Numbers
  <2>5. Distinct(r)
    <3> SUFFICES ASSUME NEW i \in DOMAIN r, NEW j \in DOMAIN r, r[i].n = r[j].n PROVE i = j
      BY DEF Distinct
    <3>1. CASE i \in 1 .. Len(cache) /\ j \in 1 .. Len(cache)
      BY <1>3, <2>2, <3>1 DEF Distinct
    <3>2. CASE i = Len(cache) + 1 \/ j = Len(cache) + 1
      BY <2>1, <2>2, <2>4, <3>2
    <3>. QED BY <1>3, <2>2, <3>1, <3>2
  <2>6. \A i \in DOMAIN r : i \in 1 .. Len(cache) \/ i = Len(cache) + 1
    BY <1>3, <2>2
  <2>. QED BY <1>3, <2>1, <2>2, <2>3, <2>5, <2>6
<1>5. CASE th[t].item # 0
  <2> DEFINE e == new(th[t].item)
             r == [i \in DOMAIN cache |-> IF cache[i].n = th[t].item THEN e ELSE cache[i]]
  <2>1. /\ e \in CacheItem /\ e.slot = th[t].slot /\ e.n = th[t].item
        /\ \A f \in Fields : e[f] = th[t].res[f]
    BY <1>1, <1>5, ThreadTypes
  <2>2. cache' = r
    BY <1>2, <1>5
  <2> HIDE DEF e
  <2>3. /\ DOMAIN r = DOMAIN cache
        /\ \A i \in DOMAIN cache : r[i] = IF cache[i].n = th[t].item THEN e ELSE cache[i]
    OBVIOUS
  <2>4. r \in Seq(CacheItem)
    <3>1. r \in [1 .. Len(cache) -> CacheItem]
      BY <1>3, <2>1
    <3>. QED BY <1>3, <3>1, SeqDef
  <2> HIDE DEF r
  <2>5. \A i \in DOMAIN r : r[i].n = cache[i].n
    BY <2>1, <2>3
  <2>6. Distinct(r)
    BY <1>3, <2>3, <2>5 DEF Distinct
  <2>. QED BY <2>1, <2>2, <2>3, <2>4, <2>5, <2>6
<1> QED BY <1>4, <1>5

LEMMA FdsAre == -1 \notin Fds /\ Slots \cap {Closed, Hung} = {} /\ Closed # Hung
                /\ 0 \notin Slots /\ "discovery" \in Threads /\ NoLock \notin Fds /\ Foreign \notin Fds
BY FdsAssumption, PortNamesAssumption, SlotsBounds DEF Threads

LEMMA MovesTyped ==
  ASSUME Typed, NEW t \in Threads, Placed(t), Step(t),
         \A f \in Fds : fds[f] \in Slots => usb[fds[f]] # None,
         th[t].fd \in Fds => fds[th[t].fd] \in {th[t].slot, Hung}
  PROVE  th' = th \/ Moved(t)
<1>1. Claim(t) => Moved(t)
  BY ClaimMoves DEF Continues
<1>2. Begin(t) => Moved(t)
  BY BeginMoves DEF Leaves
<1>3. Device(t) => Moved(t)
  BY DeviceMoves DEF Leaves, Continues
<1>4. Lookup(t) \/ Update(t) => Moved(t)
  <2>1. "copy" \in Places /\ "store" \in Places
    BY DEF Places, AtPort, Holding
  <2>. QED BY <2>1, SearchMoves DEF Continues, Lookup, Update
<1>5. cache_lookup(t) => th' = th \/ Moved(t)
  BY LookupMoves DEF Continues
<1>6. Opentty(t) => Moved(t)
  BY OpenttyMoves DEF Leaves, Continues
<1>7. Lock(t) => Moved(t)
  BY LockMoves DEF Continues
<1>8. Open(t) => Moved(t)
  BY OpenMoves DEF Continues
<1>9. OpenFails(t) => Moved(t)
  BY OpenFailsMoves DEF Leaves, Continues
<1>10. Command(t) => Moved(t)
  <2> SUFFICES ASSUME Command(t) PROVE Moved(t)
    OBVIOUS
  <2>1. th[t].fd \in Fds
    BY ThreadTypes, FdsAre DEF Command, At, Placed
  <2>2. fds[th[t].fd] \in Slots => usb[th[t].slot] \in Modems
    BY <2>1, FdsAre DEF Typed
  <2>. QED BY <2>1, <2>2, CommandMoves DEF Continues
<1>11. Unlink(t) => Moved(t)
  BY UnlinkMoves DEF Leaves, Continues
<1>12. cache_update(t) => th' = th \/ Moved(t)
  BY UpdateMoves DEF Continues
<1>13. Release(t) => Moved(t)
  BY ReleaseMoves DEF Leaves, Continues
<1>14. Monitor(t) => Moved(t)
  BY MonitorMoves DEF Leaves, Continues
<1>15. pdiscovery_list_end(t) => Moved(t)
  BY ListEndMoves DEF Leaves
<1> QED
  BY <1>1, <1>2, <1>3, <1>4, <1>5, <1>6, <1>7, <1>8, <1>9, <1>10, <1>11, <1>12, <1>13, <1>14,
     <1>15 DEF Step

(* only Monitor connects a device, and it is the thread do_discovery *)
LEMMA StepConn ==
  ASSUME NEW t \in Threads, Step(t)
  PROVE  Monitor(t) \/ conn' = conn
BY DEF Step, Begin, Device, Claim, Lookup, cache_lookup, Opentty, Lock, Open, OpenFails, Command,
       Unlink, Update, cache_update, Release, pdiscovery_list_end, cache_search, UseFreed

LEMMA StepWorld ==
  ASSUME NEW t \in Threads, Step(t)
  PROVE  usb' = usb /\ seen' = seen
BY DEF Step, Begin, Device, Claim, Lookup, cache_lookup, Opentty, Lock, Open, OpenFails, Command,
       Unlink, Update, cache_update, Release, Monitor, pdiscovery_list_end, cache_search, UseFreed,
       world

LEMMA StepFds ==
  ASSUME NEW t \in Threads, Step(t)
  PROVE  Open(t) \/ Command(t) \/ Monitor(t) \/ fds' = fds
BY DEF Step, Begin, Device, Claim, Lookup, cache_lookup, Opentty, Lock, OpenFails,
       Unlink, Update, cache_update, Release, pdiscovery_list_end, cache_search, UseFreed, disk

LEMMA StepLock ==
  ASSUME NEW t \in Threads, Step(t)
  PROVE  Claim(t) \/ Lock(t) \/ OpenFails(t) \/ Unlink(t) \/ Release(t) \/ lock' = lock
BY DEF Step, Begin, Device, Lookup, cache_lookup, Opentty, Open, Command,
       Update, cache_update, Monitor, pdiscovery_list_end, cache_search, UseFreed, disk

LEMMA StepCache ==
  ASSUME NEW t \in Threads, Step(t)
  PROVE  Lookup(t) \/ Update(t) \/ cache_update(t) \/ cache' = cache
BY DEF Step, Begin, Device, Claim, cache_lookup, Opentty, Lock, Open, OpenFails, Command,
       Unlink, Release, Monitor, pdiscovery_list_end, UseFreed

LEMMA StepFault ==
  ASSUME NEW t \in Threads, Step(t), fault \in BOOLEAN
  PROVE  fault' \in BOOLEAN
BY DEF Step, Begin, Device, Claim, Lookup, cache_lookup, Opentty, Lock, Open, OpenFails, Command,
       Unlink, Update, cache_update, Release, Monitor, pdiscovery_list_end, cache_search, UseFreed

(* Searching and storing keep the cache what it is. *)
LEMMA SearchKeeps ==
  ASSUME Typed, NEW t \in Threads, NEW pc, cache_search(t, pc)
  PROVE  /\ cache' \in Seq(CacheItem) /\ Distinct(cache')
         /\ \A i \in DOMAIN cache' : \E k \in DOMAIN cache : cache'[i] = cache[k]
BY KeptSome DEF cache_search, Typed

LEMMA StepTyped ==
  ASSUME IInv, NEW t \in Threads, Step(t)
  PROVE  Typed'
<1> USE DEF IInv
<1>1. Typed /\ Placed(t)
  OBVIOUS
<1>2. th' \in [Threads -> Thread]
  <2>1. th[t].fd \in Fds => fds[th[t].fd] \in {th[t].slot, Hung}
    BY FdsAre DEF FdsHeld
  <2>2. \A f \in Fds : fds[f] \in Slots => usb[fds[f]] # None
    BY DEF FdsHeld
  <2>3. th' = th \/ Moved(t)
    BY <1>1, <2>1, <2>2, MovesTyped
  <2>. QED BY <2>3 DEF Moved, Typed
<1>3. fds' \in [Fds -> Slots \cup {Closed, Hung}]
  <2>1. CASE Open(t)
    <3>1. th[t].slot \in Slots
      BY <1>1, <2>1 DEF Open, At, Placed, AtPort, Holding
    <3>. QED BY <1>1, <2>1, <3>1 DEF Open, open, Typed
  <2>2. CASE Command(t)
    BY <1>1, <2>2 DEF Command, close, Typed
  <2>3. CASE Monitor(t)
    BY <1>1, <2>3 DEF Monitor, close, Typed
  <2>. QED BY <1>1, <2>1, <2>2, <2>3, StepFds DEF Typed
<1>4. lock' \in [Slots -> Fds \cup {NoLock, Foreign}]
  <2>1. ASSUME NEW s, lock_create(s) \/ unlink(s)
        PROVE  lock' \in [Slots -> Fds \cup {NoLock, Foreign}]
    <3>1. Free = {} \/ NewFd \in Fds
      BY NewFdFree DEF Free
    <3>. QED BY <1>1, <2>1, <3>1 DEF lock_create, unlink, Typed
  <2>2. (\E s : lock_create(s) \/ unlink(s)) \/ lock' = lock
    BY StepLock DEF Claim, Lock, OpenFails, Unlink, Release
  <2>. QED BY <1>1, <2>1, <2>2 DEF Typed
<1>5. cache' \in Seq(CacheItem) /\ Distinct(cache')
  <2>1. CASE Lookup(t) \/ Update(t)
    BY <1>1, <2>1, SearchKeeps DEF Lookup, Update
  <2>2. CASE cache_update(t)
    <3>1. th[t].slot \in Slots
      BY <1>1, <2>2 DEF cache_update, At, Placed, AtPort, Holding
    <3>2. UseFreed(t) => cache' = cache
      BY DEF UseFreed
    <3>. QED BY <1>1, <2>2, <3>1, <3>2, UpdateKeeps DEF Typed
  <2>. QED BY <1>1, <2>1, <2>2, StepCache DEF Typed
<1>6. conn' \in [Range(Devs) -> Connection]
  <2>1. CASE Monitor(t)
    <3> DEFINE r == [slot |-> th[t].slot, fd |-> th[t].fd, pc |-> "on"]
    <3>1. th[t].slot \in Slots /\ th[t].fd \in Fds \cup {-1}
      BY <1>1, <2>1, ThreadTypes DEF Monitor, At, Placed, AtPort, Holding
    <3>2. r \in Connection
      BY <3>1 DEF Connection
    <3>3. conn' = [conn EXCEPT ![Devs[th[t].dev]] = r] \/ conn' = conn
      BY <2>1 DEF Monitor
    <3> HIDE DEF r
    <3>. QED BY <1>1, <3>2, <3>3 DEF Typed
  <2>. QED BY <1>1, <2>1, StepConn DEF Typed
<1>7. fault' \in BOOLEAN
  BY <1>1, StepFault DEF Typed
<1>8. usb' = usb /\ seen' = seen
  BY StepWorld
<1> QED BY <1>1, <1>2, <1>3, <1>4, <1>5, <1>6, <1>7, <1>8 DEF Typed

LEMMA LeavesPlaced ==
  ASSUME NEW t \in Threads, Leaves(t), conn' = conn \/ th'[t].pc = "idle",
         t = "discovery" /\ th'[t].pc # "idle" => conn[Devs[th[t].dev]] = Off
  PROVE  Placed(t)'
<1>1. /\ th'[t].pc \in {"idle", "list", "device"}
      /\ th'[t].pc \notin AtPort /\ th'[t].pc \notin Starting
      /\ th'[t].pc \notin {"command", "monitor"}
  BY DEF Leaves, Resting, AtPort, Holding, Starting
<1>2. Fresh(t)'
  BY DEF Leaves, Fresh
<1>3. t = "discovery" /\ th'[t].pc # "idle" => conn'[Devs[th'[t].dev]] = Off
  BY <1>1 DEF Leaves
<1> QED BY <1>1, <1>2, <1>3 DEF Leaves, Placed

LEMMA ContinuesPlaced ==
  ASSUME NEW t \in Threads, Placed(t), NEW pc \in AtPort, Continues(t, pc),
         th[t].slot \in Slots, conn' = conn, th[t].pc # "idle",
         th'[t].fd # -1 <=> pc \in {"command", "monitor"},
         pc \in Starting => t = "discovery" /\ Known(t) /\ Matched(req(t), th[t].res)
  PROVE  Placed(t)'
<1>1. th'[t].pc = pc /\ th'[t].dev = th[t].dev /\ th'[t].slot = th[t].slot
  BY DEF Continues
<1>2. pc # "device" /\ pc # "idle"
  BY DEF AtPort, Holding, Starting
<1>3. pc \in Starting => Matched(req(t), th[t].res)'
  BY <1>1 DEF Matched, req, Known
<1>4. t = "discovery" => conn'[Devs[th'[t].dev]] = Off
  BY <1>1 DEF Placed
<1> QED BY <1>1, <1>2, <1>3, <1>4 DEF Placed

(* a thread that another one does not change stays what it is *)
LEMMA OthersPlaced ==
  ASSUME NEW u \in Threads, Placed(u), th'[u] = th[u], conn' = conn \/ u # "discovery"
  PROVE  Placed(u)'
<1>1. u = "discovery" => conn' = conn
  OBVIOUS
<1>2. Fresh(u)' <=> Fresh(u)
  BY DEF Fresh
<1>3. Matched(req(u), th[u].res)' <=> Matched(req(u), th[u].res)
  BY DEF Matched, req
<1> QED BY <1>1, <1>2, <1>3 DEF Placed

LEMMA CliAsksForAny ==
  ASSUME Typed, NEW t \in Threads, Matched(req(t), th[t].res)
  PROVE  t = "discovery"
<1> SUFFICES ASSUME t # "discovery" PROVE FALSE
  OBVIOUS
<1>1. req(t)["imei"] = "ANY" /\ "ANY" # None
  BY ModemsAssumption, InfoTypes DEF req
<1>2. th[t].res["imei"] = "ANY"
  BY <1>1 DEF Matched
<1>3. th[t].res["imei"] \in Answers
  BY ThreadTypes DEF Info, Fields
<1> QED BY <1>2, <1>3, ModemsAssumption DEF Answers

LEMMA StepPlaced ==
  ASSUME IInv, NEW t \in Threads, Step(t)
  PROVE  \A u \in Threads : Placed(u)'
<1>1. Typed /\ Placed(t) /\ \A d \in Range(Devs) : Connected(d)
  BY DEF IInv
<1>2. -1 \notin Fds
  BY FdsAre
<1>3. ASSUME t = "discovery", th[t].pc # "idle" PROVE conn[Devs[th[t].dev]] = Off
  BY <1>1, <1>3 DEF Placed
<1>4. CASE th' = th /\ conn' = conn
  BY <1>4, OthersPlaced DEF IInv
<1>5. ASSUME Placed(t)', Moved(t) PROVE \A u \in Threads : Placed(u)'
  <2> SUFFICES ASSUME NEW u \in Threads, u # t PROVE Placed(u)'
    BY <1>5
  <2>1. th'[u] = th[u]
    BY <1>5 DEF Moved
  <2>2. conn' = conn \/ t = "discovery"
    BY <1>1, StepConn DEF Monitor, At, Placed, Starting
  <2>. QED BY <2>1, <2>2, OthersPlaced DEF IInv
<1>6. ASSUME Leaves(t), conn' = conn \/ th'[t].pc = "idle", th[t].pc # "idle"
      PROVE  \A u \in Threads : Placed(u)'
  BY <1>3, <1>5, <1>6, LeavesPlaced DEF Leaves
<1>7. ASSUME NEW pc \in AtPort, Continues(t, pc), th[t].slot \in Slots, conn' = conn,
             th[t].pc # "idle", th'[t].fd # -1 <=> pc \in {"command", "monitor"},
             pc \in Starting => t = "discovery" /\ Known(t) /\ Matched(req(t), th[t].res)
      PROVE  \A u \in Threads : Placed(u)'
  BY <1>1, <1>5, <1>7, ContinuesPlaced DEF Continues
<1>8. CASE Begin(t)
  <2>1. Leaves(t) /\ (t = "discovery" /\ th'[t].pc # "idle" => conn[Devs[th[t].dev]].pc = "off")
    BY <1>1, <1>8, BeginMoves
  <2>2. Devs[th[t].dev] \in Range(Devs)
    BY <1>1, ThreadTypes, DevsBounds
  <2>3. conn' = conn
    BY <1>8 DEF Begin
  <2>. QED BY <1>1, <1>5, <2>1, <2>2, <2>3, LeavesPlaced DEF Connected, Leaves
<1>9. CASE Device(t)
  <2>1. th[t].pc = "device" /\ conn' = conn
    BY <1>9 DEF Device, At
  <2>2. th[t].fd = -1
    BY <1>1, <2>1 DEF Placed
  <2>3. "claim" \in AtPort /\ "claim" \notin Starting
    BY DEF AtPort, Starting
  <2>. QED BY <1>1, <1>6, <1>7, <1>9, <2>1, <2>2, <2>3, DeviceMoves DEF Opened
<1>10. ASSUME NEW pc \in AtPort, th[t].pc = pc
       PROVE  th[t].slot \in Slots /\ pc # "idle" /\ (th[t].fd # -1 <=> pc \in {"command", "monitor"})
  BY <1>1, <1>10 DEF Placed, AtPort, Holding, Starting
<1>11. CASE Claim(t)
  <2>1. th[t].pc = "claim" /\ conn' = conn /\ "claim" \in AtPort
    BY <1>11 DEF Claim, At, AtPort
  <2>2. "lookup" \in AtPort /\ "lookup" \notin Starting
    BY DEF AtPort, Holding, Starting
  <2>. QED BY <1>1, <1>7, <1>10, <1>11, <2>1, <2>2, ClaimMoves DEF Opened
<1>12. CASE Lookup(t)
  <2>1. th[t].pc = "lookup" /\ conn' = conn /\ "lookup" \in AtPort /\ cache_search(t, "copy")
    BY <1>12 DEF Lookup, At, AtPort, Holding, cache_search
  <2>2. "copy" \in AtPort /\ "copy" \notin Starting /\ "copy" \in Places
    BY DEF AtPort, Holding, Starting, Places
  <2>. QED BY <1>1, <1>7, <1>10, <2>1, <2>2, SearchMoves DEF Opened
<1>13. CASE Update(t)
  <2>1. th[t].pc = "update" /\ conn' = conn /\ "update" \in AtPort /\ cache_search(t, "store")
    BY <1>13 DEF Update, At, AtPort, Holding, cache_search
  <2>2. "store" \in AtPort /\ "store" \notin Starting /\ "store" \in Places
    BY DEF AtPort, Holding, Starting, Places
  <2>. QED BY <1>1, <1>7, <1>10, <2>1, <2>2, SearchMoves DEF Opened
<1>14. CASE cache_lookup(t)
  <2>1. th[t].pc = "copy" /\ conn' = conn /\ "copy" \in AtPort
    BY <1>14 DEF cache_lookup, At, AtPort, Holding, UseFreed
  <2>2. \A pc \in {"opentty", "release"} : pc \in AtPort /\ pc \notin Starting
                                           /\ pc \notin {"command", "monitor"}
    BY DEF AtPort, Holding, Starting
  <2>3. th' = th \/ \E pc \in {"opentty", "release"} : Continues(t, pc) /\ Opened(t)
    BY <1>1, <1>14, LookupMoves
  <2>. QED BY <1>4, <1>7, <1>10, <2>1, <2>2, <2>3 DEF Opened
<1>15. CASE Opentty(t)
  <2>1. /\ th[t].pc \in {"opentty", "opentty2"} /\ conn' = conn
        /\ \A pc \in {"opentty", "opentty2", "lock", "update", "lock2"} : pc \in AtPort
        /\ \A pc \in {"lock", "update"} : pc \notin Starting
        /\ \A pc \in {"opentty2", "lock2"} : pc \in Starting
    BY <1>15 DEF Opentty, At, AtPort, Holding, Starting
  <2>2. CASE Leaves(t)
    BY <1>6, <1>10, <2>1, <2>2
  <2>3. CASE th[t].pc = "opentty" /\ Opened(t) /\ \E pc \in {"lock", "update"} : Continues(t, pc)
    BY <1>7, <1>10, <2>1, <2>3 DEF Opened
  <2>4. CASE th[t].pc = "opentty2" /\ Known(t) /\ Opened(t) /\ Continues(t, "lock2")
    <3>1. t = "discovery" /\ Matched(req(t), th[t].res)
      BY <1>1, <2>1, <2>4 DEF Placed
    <3>. QED BY <1>7, <1>10, <2>1, <2>4, <3>1 DEF Opened
  <2>. QED BY <1>1, <1>15, <2>2, <2>3, <2>4, OpenttyMoves
<1>16. CASE Lock(t)
  <2>1. /\ th[t].pc \in {"lock", "lock2"} /\ conn' = conn
        /\ \A pc \in {"lock", "lock2", "open", "open2"} : pc \in AtPort
        /\ "open" \notin Starting /\ "lock2" \in Starting
    BY <1>16 DEF Lock, At, AtPort, Holding, Starting
  <2>2. /\ Continues(t, IF th[t].pc = "lock" THEN "open" ELSE "open2")
        /\ Known(t) /\ Itemed(t) /\ Opened(t)
    BY <1>1, <1>16, LockMoves
  <2>3. CASE th[t].pc = "lock"
    BY <1>7, <1>10, <2>1, <2>2, <2>3 DEF Opened
  <2>4. CASE th[t].pc = "lock2"
    <3>1. t = "discovery" /\ Matched(req(t), th[t].res)
      BY <1>1, <2>1, <2>4 DEF Placed
    <3>. QED BY <1>7, <1>10, <2>1, <2>2, <2>4, <3>1 DEF Opened
  <2>. QED BY <2>1, <2>3, <2>4
<1>17. CASE Open(t)
  <2>1. /\ th[t].pc \in {"open", "open2"} /\ conn' = conn
        /\ \A pc \in {"open", "open2", "command", "monitor"} : pc \in AtPort
        /\ "command" \notin Starting /\ "open2" \in Starting
    BY <1>17 DEF Open, At, AtPort, Holding, Starting
  <2>2. th'[t].fd # -1 /\ Known(t)
    BY <1>1, <1>2, <1>17, OpenMoves
  <2>3. CASE Continues(t, "command")
    BY <1>7, <1>10, <2>1, <2>2, <2>3
  <2>4. CASE th[t].pc = "open2" /\ Continues(t, "monitor")
    <3>1. t = "discovery" /\ Matched(req(t), th[t].res)
      BY <1>1, <2>1, <2>4 DEF Placed
    <3>. QED BY <1>7, <1>10, <2>1, <2>2, <2>4, <3>1
  <2>. QED BY <1>1, <1>17, <2>3, <2>4, OpenMoves
<1>18. CASE OpenFails(t)
  <2>1. /\ th[t].pc \in {"open", "open2"} /\ conn' = conn
        /\ \A pc \in {"open", "open2", "update"} : pc \in AtPort
        /\ "update" \notin Starting
    BY <1>18 DEF OpenFails, At, AtPort, Holding, Starting
  <2>2. CASE Leaves(t)
    BY <1>6, <1>10, <2>1, <2>2
  <2>3. CASE th[t].pc = "open" /\ Continues(t, "update") /\ Opened(t)
    BY <1>7, <1>10, <2>1, <2>3 DEF Opened
  <2>. QED BY <1>1, <1>18, <2>2, <2>3, OpenFailsMoves
<1>19. CASE Command(t)
  <2>1. /\ th[t].pc = "command" /\ conn' = conn /\ "command" \in AtPort
        /\ "unlink" \in AtPort /\ "unlink" \notin Starting
    BY <1>19 DEF Command, At, AtPort, Holding, Starting
  <2>2. th[t].fd \in Fds
    BY <1>1, <1>10, <2>1, ThreadTypes
  <2>3. fds[th[t].fd] \in Slots => usb[th[t].slot] \in Modems
    BY <1>1, <1>2, <2>2, FdsAre DEF IInv, FdsHeld, Typed
  <2>4. Continues(t, "unlink") /\ th'[t].fd = -1
    BY <1>1, <1>19, <2>2, <2>3, CommandMoves
  <2>. QED BY <1>7, <1>10, <2>1, <2>4
<1>20. CASE Unlink(t)
  <2>1. /\ th[t].pc \in {"unlink", "unlink2"} /\ conn' = conn
        /\ \A pc \in {"unlink", "unlink2", "update"} : pc \in AtPort
        /\ "update" \notin Starting
    BY <1>20 DEF Unlink, At, AtPort, Holding, Starting
  <2>2. CASE Leaves(t)
    BY <1>6, <1>10, <2>1, <2>2
  <2>3. CASE th[t].pc = "unlink" /\ Continues(t, "update") /\ Opened(t)
    BY <1>7, <1>10, <2>1, <2>3 DEF Opened
  <2>. QED BY <1>1, <1>20, <2>2, <2>3, UnlinkMoves
<1>21. CASE cache_update(t)
  <2>1. /\ th[t].pc = "store" /\ conn' = conn /\ "store" \in AtPort
        /\ "release" \in AtPort /\ "release" \notin Starting
    BY <1>21 DEF cache_update, At, AtPort, Holding, Starting, UseFreed
  <2>2. th' = th \/ (Continues(t, "release") /\ Opened(t))
    BY <1>1, <1>21, UpdateMoves
  <2>. QED BY <1>4, <1>7, <1>10, <2>1, <2>2 DEF Opened
<1>22. CASE Release(t)
  <2>1. /\ th[t].pc = "release" /\ conn' = conn /\ "release" \in AtPort
        /\ "opentty2" \in AtPort
    BY <1>22 DEF Release, At, AtPort, Holding, Starting
  <2>2. CASE Leaves(t)
    BY <1>6, <1>10, <2>1, <2>2
  <2>3. CASE /\ Continues(t, "opentty2") /\ Known(t) /\ Opened(t)
             /\ Matched(req(t), th[t].res)
    <3>1. t = "discovery"
      BY <1>1, <2>3, CliAsksForAny
    <3>. QED BY <1>7, <1>10, <2>1, <2>3, <3>1 DEF Opened
  <2>. QED BY <1>1, <1>22, <2>2, <2>3, ReleaseMoves
<1>23. CASE Monitor(t)
  <2>1. /\ th[t].pc = "monitor" /\ "monitor" \in AtPort /\ "monitor" \in Starting
        /\ "unlink2" \in AtPort
    BY <1>23 DEF Monitor, At, AtPort, Holding, Starting
  <2>2. CASE Leaves(t) /\ th'[t].pc = "idle"
    BY <1>6, <1>10, <2>1, <2>2
  <2>3. CASE Continues(t, "unlink2") /\ Known(t) /\ th'[t].fd = -1 /\ conn' = conn
    <3>1. t = "discovery" /\ Matched(req(t), th[t].res)
      BY <1>1, <2>1 DEF Placed
    <3>. QED BY <1>7, <1>10, <2>1, <2>3, <3>1
  <2>. QED BY <1>1, <1>23, <2>2, <2>3, MonitorMoves
<1>24. CASE pdiscovery_list_end(t)
  <2>1. th[t].pc = "list" /\ conn' = conn
    BY <1>24 DEF pdiscovery_list_end, At
  <2>. QED BY <1>1, <1>6, <1>24, <2>1, ListEndMoves
<1> QED
  BY <1>8, <1>9, <1>11, <1>12, <1>13, <1>14, <1>15, <1>16, <1>17, <1>18, <1>19, <1>20, <1>21,
     <1>22, <1>23, <1>24 DEF Step

-----------------------------------------------------------------------------
(* A lock file of this process is that of a thread at the port, or of a    *)
(* device connected on it.                                                 *)

LEMMA StepConnected ==
  ASSUME IInv, NEW t \in Threads, Step(t)
  PROVE  /\ \A d \in Range(Devs) : Connected(d)'
         /\ \A d \in Range(Devs) : conn[d].slot \in Slots => conn'[d] = conn[d]
<1>1. /\ Typed /\ Placed(t) /\ \A d \in Range(Devs) : Connected(d)
      /\ conn \in [Range(Devs) -> Connection]
  BY DEF IInv, Typed
<1>2. CASE conn' = conn
  BY <1>1, <1>2 DEF Connected
<1>3. CASE Monitor(t) /\ conn' # conn
  <2> DEFINE e == Devs[th[t].dev]
             r == [slot |-> th[t].slot, fd |-> th[t].fd, pc |-> "on"]
  <2>1. conn' = [conn EXCEPT ![e] = r] /\ th[t].pc = "monitor"
    BY <1>3 DEF Monitor, At
  <2>2. th[t].slot \in Slots /\ th[t].fd \in Fds /\ t = "discovery"
    BY <1>1, <2>1, ThreadTypes DEF Placed, AtPort, Holding, Starting
  <2>3. conn[e] = Off
    BY <1>1, <2>1, <2>2 DEF Placed
  <2>4. conn[e].slot \notin Slots
    BY <2>3, FdsAre DEF Off
  <2>5. r.slot \in Slots /\ r.fd \in Fds /\ r.pc = "on"
    BY <2>2
  <2> HIDE DEF r, e
  <2>6. \A d \in Range(Devs) : conn'[d] = IF d = e THEN r ELSE conn[d]
    BY <1>1, <2>1
  <2>. QED BY <1>1, <2>4, <2>5, <2>6 DEF Connected
<1> QED BY <1>2, <1>3, StepConn

LEMMA LocksKept ==
  ASSUME LocksHeld, NEW t \in Threads, Moved(t),
         \A s \in Slots : lock'[s] \in Fds =>
           /\ lock[s] \in Fds \/ Holds(t, s)'
           /\ Holds(t, s) => Holds(t, s)' \/ \E d \in Range(Devs) : conn'[d].slot = s,
         \A d \in Range(Devs) : conn[d].slot \in Slots => conn'[d] = conn[d]
  PROVE  LocksHeld'
<1> SUFFICES ASSUME NEW s \in Slots, lock'[s] \in Fds,
                    ~Holds(t, s)', ~\E d \in Range(Devs) : conn'[d].slot = s
             PROVE  \E u \in Threads : Holds(u, s)'
  BY DEF LocksHeld
<1>1. lock[s] \in Fds /\ ~Holds(t, s)
  OBVIOUS
<1>2. ~\E d \in Range(Devs) : conn[d].slot = s
  OBVIOUS
<1>3. PICK u \in Threads : Holds(u, s)
  BY <1>1, <1>2 DEF LocksHeld
<1>4. u # t /\ th'[u] = th[u]
  BY <1>1, <1>3 DEF Moved
<1> QED BY <1>3, <1>4 DEF Holds

LEMMA UnlinkKeeps ==
  ASSUME Typed, LocksHeld, NEW t \in Threads, Moved(t), unlink(th[t].slot), conn' = conn
  PROVE  LocksHeld'
<1>1. \A s \in Slots : lock'[s] \in Fds => lock[s] \in Fds /\ ~Holds(t, s)
  <2> SUFFICES ASSUME NEW s \in Slots, lock'[s] \in Fds PROVE lock[s] \in Fds /\ s # th[t].slot
    BY DEF Holds
  <2>1. lock'[s] = IF s = th[t].slot THEN NoLock ELSE lock[s]
    BY DEF unlink, Typed
  <2>. QED BY <2>1, FdsAre
<1> QED BY <1>1, LocksKept

LEMMA HoldsStill ==
  ASSUME Typed, LocksHeld, NEW t \in Threads, NEW pc \in Holding, Continues(t, pc),
         lock' = lock \/ lock_create(th[t].slot), conn' = conn
  PROVE  LocksHeld'
<1>1. Moved(t) /\ th'[t].pc = pc /\ th'[t].slot = th[t].slot
  BY DEF Continues
<1>2. \A s \in Slots : Holds(t, s) => Holds(t, s)'
  BY <1>1 DEF Holds
<1>3. \A s \in Slots : lock[s] \in Fds \/ Holds(t, s)' \/ lock'[s] \notin Fds
  BY <1>1 DEF Holds, lock_create, Typed
<1> QED BY <1>1, <1>2, <1>3, LocksKept

LEMMA NoHolderMoves ==
  ASSUME LocksHeld, NEW t \in Threads, Moved(t), th[t].pc \notin Holding,
         lock' = lock, conn' = conn
  PROVE  LocksHeld'
BY LocksKept DEF Holds

LEMMA StepLocks ==
  ASSUME IInv, NEW t \in Threads, Step(t)
  PROVE  LocksHeld'
<1>1. Typed /\ LocksHeld /\ Placed(t)
  BY DEF IInv
<1>2. th' = th \/ Moved(t)
  <2>1. th[t].fd \in Fds => fds[th[t].fd] \in {th[t].slot, Hung}
    BY FdsAre DEF IInv, FdsHeld
  <2>2. \A f \in Fds : fds[f] \in Slots => usb[fds[f]] # None
    BY DEF IInv, FdsHeld
  <2>. QED BY <1>1, <2>1, <2>2, MovesTyped
<1>3. th' = th => Moved(t)
  BY <1>1 DEF Typed, Moved
<1>4. CASE th' = th /\ lock' = lock /\ conn' = conn
  BY <1>1, <1>4 DEF LocksHeld, Holds
<1>5. CASE OpenFails(t) \/ Unlink(t) \/ Release(t)
  <2>1. unlink(th[t].slot) /\ conn' = conn
    BY <1>5 DEF OpenFails, Unlink, Release
  <2>. QED BY <1>1, <1>2, <1>3, <2>1, UnlinkKeeps
<1>6. CASE Claim(t) \/ Lock(t)
  <2>1. lock_create(th[t].slot) /\ conn' = conn
    BY <1>6 DEF Claim, Lock
  <2>2. \E pc \in Holding : Continues(t, pc)
    BY <1>1, <1>6, ClaimMoves, LockMoves DEF Holding
  <2>. QED BY <1>1, <2>1, <2>2, HoldsStill
<1>7. CASE Begin(t) \/ Device(t) \/ pdiscovery_list_end(t)
  <2>1. /\ th[t].pc \in {"idle", "device", "list"} /\ lock' = lock /\ conn' = conn
    BY <1>7 DEF Begin, Device, pdiscovery_list_end, At, disk
  <2>2. th[t].pc \notin Holding
    BY <2>1 DEF Holding
  <2>. QED BY <1>1, <1>2, <1>3, <2>1, <2>2, NoHolderMoves
<1>8. CASE Opentty(t)
  <2>1. lock' = lock /\ conn' = conn
    BY <1>8 DEF Opentty, disk
  <2>2. CASE th[t].pc = "opentty2"
    <3>1. th[t].pc \notin Holding
      BY <2>2 DEF Holding
    <3>. QED BY <1>1, <1>2, <1>3, <2>1, <3>1, NoHolderMoves
  <2>3. CASE \E pc \in {"lock", "update"} : Continues(t, pc)
    <3>1. \E pc \in Holding : Continues(t, pc)
      BY <2>3 DEF Holding
    <3>. QED BY <1>1, <2>1, <3>1, HoldsStill
  <2>. QED BY <1>1, <1>8, <2>2, <2>3, OpenttyMoves
<1>9. CASE Lookup(t) \/ Update(t)
  <2>1. lock' = lock /\ conn' = conn
    BY <1>9 DEF Lookup, Update, cache_search, disk
  <2>2. "copy" \in Places /\ "store" \in Places /\ "copy" \in Holding /\ "store" \in Holding
    BY DEF Places, AtPort, Holding
  <2>3. \E pc \in Holding : Continues(t, pc)
    BY <1>1, <1>9, <2>2, SearchMoves DEF Lookup, Update
  <2>. QED BY <1>1, <2>1, <2>3, HoldsStill
<1>10. CASE cache_lookup(t) \/ cache_update(t)
  <2>1. lock' = lock /\ conn' = conn
    BY <1>10 DEF cache_lookup, cache_update, UseFreed, disk
  <2>2. th' = th \/ \E pc \in Holding : Continues(t, pc)
    BY <1>1, <1>10, LookupMoves, UpdateMoves DEF Holding
  <2>. QED BY <1>1, <1>4, <2>1, <2>2, HoldsStill
<1>11. CASE Open(t) \/ Command(t)
  <2>1. lock' = lock /\ conn' = conn
    BY <1>11 DEF Open, Command
  <2>2. \E pc \in Holding : Continues(t, pc)
    <3>1. CASE Open(t)
      BY <1>1, <3>1, OpenMoves DEF Holding
    <3>2. CASE Command(t)
      <4>1. th[t].fd \in Fds
        BY <1>1, <3>2, ThreadTypes, FdsAre DEF Command, At, Placed
      <4>2. fds[th[t].fd] \in Slots => usb[th[t].slot] \in Modems
        BY <1>1, <4>1, FdsAre DEF IInv, FdsHeld, Typed
      <4>. QED BY <1>1, <3>2, <4>1, <4>2, CommandMoves DEF Holding
    <3>. QED BY <1>11, <3>1, <3>2
  <2>. QED BY <1>1, <2>1, <2>2, HoldsStill
<1>12. CASE Monitor(t)
  <2>1. lock' = lock
    BY <1>12 DEF Monitor
  <2>2. CASE Continues(t, "unlink2") /\ conn' = conn
    <3>1. "unlink2" \in Holding
      BY DEF Holding
    <3>. QED BY <1>1, <2>1, <2>2, <3>1, HoldsStill
  <2>3. CASE conn' = [conn EXCEPT ![Devs[th[t].dev]] =
                        [slot |-> th[t].slot, fd |-> th[t].fd, pc |-> "on"]]
    <3>1. Devs[th[t].dev] \in Range(Devs)
      BY <1>1, ThreadTypes, DevsBounds
    <3>2. conn'[Devs[th[t].dev]].slot = th[t].slot
      BY <1>1, <2>3, <3>1 DEF Typed
    <3>3. \A s \in Slots : Holds(t, s) => \E d \in Range(Devs) : conn'[d].slot = s
      BY <3>1, <3>2 DEF Holds
    <3>. QED BY <1>1, <1>2, <1>3, <2>1, <3>3, StepConnected, LocksKept
  <2>. QED BY <1>1, <1>12, <2>2, <2>3, MonitorMoves
<1> QED
  BY <1>5, <1>6, <1>7, <1>8, <1>9, <1>10, <1>11, <1>12 DEF Step

-----------------------------------------------------------------------------
(* Every open descriptor has one owner, and is open on the port its owner  *)
(* works on.                                                               *)

(* nothing is opened, closed or handed on *)
LEMMA FdsSame ==
  ASSUME FdsHeld, NEW t \in Threads, Moved(t), Opened(t),
         th[t].fd # -1 => th'[t].slot = th[t].slot,
         fds' = fds, conn' = conn, usb' = usb
  PROVE  FdsHeld'
<1>1. \A u \in Threads : th'[u].fd = th[u].fd
  BY DEF Moved, Opened
<1>2. \A u \in Threads : th[u].fd # -1 => th'[u].slot = th[u].slot
  BY DEF Moved
<1>3. \A d \in Range(Devs) : On(d)' <=> On(d)
  BY DEF On
<1>4. \A f \in Fds : Has(f) => Has(f)'
  BY <1>1, <1>3 DEF Has
<1>5. Shared' => Shared
  BY <1>1, <1>3 DEF Shared
<1> QED BY <1>1, <1>2, <1>3, <1>4, <1>5 DEF FdsHeld

LEMMA OpenKeeps ==
  ASSUME Typed, FdsHeld, NEW t \in Threads, Open(t), th[t].fd = -1, th[t].slot \in Slots,
         \A u \in Threads : th[u].fd # -1 => th[u].slot \in Slots, \A d \in Range(Devs) : Connected(d)
  PROVE  FdsHeld'
<1>1. /\ Moved(t) /\ NewFd \in Fds /\ fds[NewFd] = Closed
      /\ th'[t].fd = NewFd /\ th'[t].slot = th[t].slot
  BY OpenMoves DEF Continues
<1>2. conn' = conn /\ usb' = usb /\ usb[th[t].slot] # None
  BY DEF Open, world
<1>3. \A f \in Fds : fds'[f] = IF f = NewFd THEN th[t].slot ELSE fds[f]
  BY <1>1 DEF Open, open, Typed
<1>4. \A u \in Threads : th[u].fd # NewFd
  BY <1>1, FdsAre DEF FdsHeld
<1>5. \A d \in Range(Devs) : (On(d)' <=> On(d)) /\ (On(d) => conn[d].fd \in Fds /\ conn[d].fd # NewFd)
  BY <1>1, <1>2, FdsAre DEF FdsHeld, On, Connected
<1>6. \A u \in Threads : u # t => th'[u] = th[u]
  BY <1>1 DEF Moved
<1>7. \A f \in Fds : fds'[f] # Closed => Has(f)'
  <2> SUFFICES ASSUME NEW f \in Fds, fds'[f] # Closed, f # NewFd PROVE Has(f)'
    BY <1>1 DEF Has
  <2>1. Has(f)
    BY <1>3 DEF FdsHeld
  <2>2. \A u \in Threads : th[u].fd = f => u # t
    BY FdsAre
  <2>. QED BY <1>2, <1>5, <1>6, <2>1, <2>2 DEF Has
<1>8. \A u \in Threads : th'[u].fd # -1 => fds'[th'[u].fd] \in {th'[u].slot, Hung}
  <2> SUFFICES ASSUME NEW u \in Threads, th'[u].fd # -1, u # t
               PROVE  fds'[th'[u].fd] \in {th'[u].slot, Hung}
    BY <1>1, <1>3
  <2>1. th'[u] = th[u] /\ th[u].fd \in Fds /\ th[u].fd # NewFd
    BY <1>4, <1>6, ThreadTypes
  <2>. QED BY <1>3, <2>1 DEF FdsHeld
<1>9. \A d \in Range(Devs) : On(d)' => fds'[conn'[d].fd] \in {conn'[d].slot, Hung}
  BY <1>2, <1>3, <1>5 DEF FdsHeld
<1>10. ~Shared'
  <2>1. \A u, v \in Threads : th'[u].fd # -1 /\ th'[u].fd = th'[v].fd => u = v
    BY <1>1, <1>4, <1>6 DEF FdsHeld, Shared
  <2>2. \A u \in Threads, d \in Range(Devs) : On(d)' => th'[u].fd # conn'[d].fd
    BY <1>1, <1>2, <1>5, <1>6 DEF FdsHeld, Shared
  <2>3. \A d, e \in Range(Devs) : On(d)' /\ On(e)' /\ conn'[d].fd = conn'[e].fd => d = e
    BY <1>2, <1>5 DEF FdsHeld, Shared
  <2>. QED BY <2>1, <2>2, <2>3 DEF Shared
<1>11. \A f \in Fds : fds'[f] \in Slots => usb'[fds'[f]] # None
  BY <1>2, <1>3 DEF FdsHeld
<1> QED BY <1>7, <1>8, <1>9, <1>10, <1>11 DEF FdsHeld

(* a thread closes its descriptor *)
LEMMA ThreadCloses ==
  ASSUME Typed, FdsHeld, NEW t \in Threads, Moved(t), th[t].fd # -1, th'[t].fd = -1,
         close(th[t].fd), conn' = conn, usb' = usb, \A d \in Range(Devs) : Connected(d)
  PROVE  FdsHeld'
<1>1. th[t].fd \in Fds
  BY ThreadTypes
<1>2. \A f \in Fds : fds'[f] = IF f = th[t].fd THEN Closed ELSE fds[f]
  BY DEF close, Typed
<1>3. \A d \in Range(Devs) : (On(d)' <=> On(d)) /\ (On(d) => conn[d].fd \in Fds /\ conn[d].fd # th[t].fd)
  BY DEF FdsHeld, On, Connected, Shared
<1>4. \A u \in Threads : u # t => th'[u] = th[u] /\ th[u].fd # th[t].fd
  BY DEF Moved, FdsHeld, Shared
<1>5. \A f \in Fds : fds'[f] # Closed => Has(f)'
  <2> SUFFICES ASSUME NEW f \in Fds, fds'[f] # Closed PROVE Has(f)'
    OBVIOUS
  <2>1. Has(f) /\ f # th[t].fd
    BY <1>2 DEF FdsHeld
  <2>. QED BY <1>3, <1>4, <2>1 DEF Has
<1>6. \A u \in Threads : th'[u].fd # -1 => fds'[th'[u].fd] \in {th'[u].slot, Hung}
  <2> SUFFICES ASSUME NEW u \in Threads, th'[u].fd # -1
               PROVE  fds'[th'[u].fd] \in {th'[u].slot, Hung}
    OBVIOUS
  <2>1. th'[u] = th[u] /\ th[u].fd \in Fds /\ th[u].fd # th[t].fd
    BY <1>4, ThreadTypes
  <2>. QED BY <1>2, <2>1 DEF FdsHeld
<1>7. \A d \in Range(Devs) : On(d)' => fds'[conn'[d].fd] \in {conn'[d].slot, Hung}
  BY <1>2, <1>3 DEF FdsHeld
<1>8. ~Shared'
  <2>1. \A u, v \in Threads : th'[u].fd # -1 /\ th'[u].fd = th'[v].fd => u = v
    BY <1>4 DEF FdsHeld, Shared
  <2>2. \A u \in Threads, d \in Range(Devs) : On(d)' => th'[u].fd # conn'[d].fd
    <3>1. \A d \in Range(Devs) : On(d) => conn[d].fd # -1
      BY <1>3, FdsAre
    <3>. QED BY <1>3, <1>4, <3>1 DEF FdsHeld, Shared
  <2>3. \A d, e \in Range(Devs) : On(d)' /\ On(e)' /\ conn'[d].fd = conn'[e].fd => d = e
    BY <1>3 DEF FdsHeld, Shared
  <2>. QED BY <2>1, <2>2, <2>3 DEF Shared
<1>9. \A f \in Fds : fds'[f] \in Slots => usb'[fds'[f]] # None
  BY <1>2, FdsAre DEF FdsHeld
<1> QED BY <1>5, <1>6, <1>7, <1>8, <1>9 DEF FdsHeld

(* the descriptor goes to the device that is started *)
LEMMA DeviceTakes ==
  ASSUME Typed, FdsHeld, NEW t \in Threads, Moved(t), th[t].fd # -1, th'[t].fd = -1,
         NEW e \in Range(Devs), ~On(e),
         conn' = [conn EXCEPT ![e] = [slot |-> th[t].slot, fd |-> th[t].fd, pc |-> "on"]],
         fds' = fds, usb' = usb, \A d \in Range(Devs) : Connected(d)
  PROVE  FdsHeld'
<1> DEFINE r == [slot |-> th[t].slot, fd |-> th[t].fd, pc |-> "on"]
<1>1. r.slot = th[t].slot /\ r.fd = th[t].fd /\ r.pc = "on"
  OBVIOUS
<1> HIDE DEF r
<1>2. \A d \in Range(Devs) : conn'[d] = IF d = e THEN r ELSE conn[d]
  BY DEF Typed, r
<1>3. th[t].fd \in Fds
  BY ThreadTypes
<1>4. \A d \in Range(Devs) : On(d)' <=> (d = e \/ On(d))
  BY <1>1, <1>2 DEF On
<1>5. \A d \in Range(Devs) : On(d) => conn[d].fd \in Fds /\ conn[d].fd # th[t].fd /\ d # e
  BY DEF FdsHeld, On, Connected, Shared
<1>6. \A u \in Threads : u # t => th'[u] = th[u] /\ th[u].fd # th[t].fd
  BY DEF Moved, FdsHeld, Shared
<1>7. \A f \in Fds : fds'[f] # Closed => Has(f)'
  <2> SUFFICES ASSUME NEW f \in Fds, fds'[f] # Closed PROVE Has(f)'
    OBVIOUS
  <2>1. CASE f = th[t].fd
    BY <1>1, <1>2, <1>4, <2>1 DEF Has
  <2>2. CASE f # th[t].fd
    <3>1. Has(f)
      BY DEF FdsHeld
    <3>. QED BY <1>2, <1>4, <1>5, <1>6, <2>2, <3>1 DEF Has
  <2>. QED BY <2>1, <2>2
<1>8. \A u \in Threads : th'[u].fd # -1 => fds'[th'[u].fd] \in {th'[u].slot, Hung}
  BY <1>6 DEF FdsHeld
<1>9. \A d \in Range(Devs) : On(d)' => fds'[conn'[d].fd] \in {conn'[d].slot, Hung}
  BY <1>1, <1>2, <1>4 DEF FdsHeld
<1>10. ~Shared'
  <2>1. \A u, v \in Threads : th'[u].fd # -1 /\ th'[u].fd = th'[v].fd => u = v
    BY <1>6 DEF FdsHeld, Shared
  <2>2. \A u \in Threads, d \in Range(Devs) : On(d)' => th'[u].fd # conn'[d].fd
    <3>1. \A d \in Range(Devs) : On(d) => conn[d].fd # -1
      BY <1>5, FdsAre
    <3>. QED BY <1>1, <1>2, <1>4, <1>6, <3>1 DEF FdsHeld, Shared
  <2>3. \A d, f \in Range(Devs) : On(d)' /\ On(f)' /\ conn'[d].fd = conn'[f].fd => d = f
    BY <1>1, <1>2, <1>4, <1>5 DEF FdsHeld, Shared
  <2>. QED BY <2>1, <2>2, <2>3 DEF Shared
<1>11. \A f \in Fds : fds'[f] \in Slots => usb'[fds'[f]] # None
  BY DEF FdsHeld
<1> QED BY <1>7, <1>8, <1>9, <1>10, <1>11 DEF FdsHeld

(* no other action gives a thread a descriptor *)
LEMMA StepFd ==
  ASSUME Typed, NEW t \in Threads, Placed(t), Step(t), ~Open(t), ~Command(t), ~Monitor(t)
  PROVE  th[t].fd = -1 /\ th'[t].fd = -1
<1>1. th[t].pc \notin {"command", "monitor"}
  BY DEF Step, Begin, Device, Claim, Lookup, cache_lookup, Opentty, Lock, OpenFails,
         Unlink, Update, cache_update, Release, pdiscovery_list_end, At
<1>2. th[t].fd = -1
  BY <1>1 DEF Placed
<1>3. th' = th \/ Leaves(t) \/ Opened(t)
  <2>1. Begin(t) \/ Device(t) \/ Claim(t) \/ pdiscovery_list_end(t) => Leaves(t) \/ Opened(t)
    BY BeginMoves, DeviceMoves, ClaimMoves, ListEndMoves
  <2>2. Lookup(t) \/ Update(t) => Opened(t)
    <3>1. "copy" \in Places /\ "store" \in Places
      BY DEF Places, AtPort, Holding
    <3>. QED BY <3>1, SearchMoves DEF Lookup, Update
  <2>3. cache_lookup(t) \/ cache_update(t) => th' = th \/ Opened(t)
    BY LookupMoves, UpdateMoves
  <2>4. Opentty(t) \/ Lock(t) => Leaves(t) \/ Opened(t)
    BY OpenttyMoves, LockMoves
  <2>5. OpenFails(t) \/ Unlink(t) \/ Release(t) => Leaves(t) \/ Opened(t)
    BY OpenFailsMoves, UnlinkMoves, ReleaseMoves
  <2>. QED BY <2>1, <2>2, <2>3, <2>4, <2>5 DEF Step
<1> QED BY <1>2, <1>3 DEF Leaves, Opened

LEMMA StepFdsHeld ==
  ASSUME IInv, NEW t \in Threads, Step(t)
  PROVE  FdsHeld'
<1>1. /\ Typed /\ FdsHeld /\ Placed(t) /\ \A d \in Range(Devs) : Connected(d)
      /\ usb' = usb /\ -1 \notin Fds
  BY StepWorld, FdsAre DEF IInv
<1>2. th[t].pc \notin {"command", "monitor"} => th[t].fd = -1
  BY <1>1 DEF Placed
<1>3. Placed(t)'
  BY StepPlaced
<1>4. th' = th \/ Moved(t)
  <2>1. th[t].fd \in Fds => fds[th[t].fd] \in {th[t].slot, Hung}
    BY <1>1 DEF FdsHeld
  <2>2. \A f \in Fds : fds[f] \in Slots => usb[fds[f]] # None
    BY <1>1 DEF FdsHeld
  <2>. QED BY <1>1, <2>1, <2>2, MovesTyped
<1>5. th' = th => Moved(t)
  BY <1>1 DEF Typed, Moved
<1>6. CASE fds' = fds /\ conn' = conn /\ th[t].fd = -1 /\ th'[t].fd = -1
  BY <1>1, <1>4, <1>5, <1>6, FdsSame DEF Opened
<1>7. CASE Open(t)
  <2>1. th[t].slot \in Slots /\ th[t].fd = -1
    BY <1>1, <1>7 DEF Open, At, Placed, AtPort, Holding
  <2>2. \A u \in Threads : th[u].fd # -1 => th[u].slot \in Slots
    BY DEF IInv, Placed, AtPort, Holding
  <2>. QED BY <1>1, <1>7, <2>1, <2>2, OpenKeeps
<1>8. CASE Command(t)
  <2>1. /\ th[t].fd # -1 /\ close(th[t].fd) /\ conn' = conn /\ th[t].fd \in Fds
    BY <1>1, <1>8, ThreadTypes DEF Command, At, Placed
  <2>2. fds[th[t].fd] \in Slots => usb[th[t].slot] \in Modems
    BY <1>1, <2>1, FdsAre DEF FdsHeld, Typed
  <2>3. th'[t].fd = -1
    BY <1>1, <1>8, <2>1, <2>2, CommandMoves
  <2>. QED BY <1>1, <1>4, <1>5, <2>1, <2>3, ThreadCloses
<1>9. CASE Monitor(t)
  <2>1. th[t].fd # -1 /\ th[t].pc = "monitor" /\ t = "discovery"
    BY <1>1, <1>9 DEF Monitor, At, Placed, Starting
  <2>2. CASE th'[t].fd = -1 /\ close(th[t].fd) /\ conn' = conn
    BY <1>1, <1>4, <1>5, <2>1, <2>2, ThreadCloses
  <2>3. CASE /\ Leaves(t) /\ fds' = fds
             /\ conn' = [conn EXCEPT ![Devs[th[t].dev]] =
                           [slot |-> th[t].slot, fd |-> th[t].fd, pc |-> "on"]]
    <3>1. Devs[th[t].dev] \in Range(Devs)
      BY <1>1, ThreadTypes, DevsBounds
    <3>2. ~On(Devs[th[t].dev])
      BY <1>1, <2>1 DEF Placed, On, Off
    <3>3. Moved(t) /\ th'[t].fd = -1
      BY <2>3 DEF Leaves
    <3>. QED BY <1>1, <2>1, <2>3, <3>1, <3>2, <3>3, DeviceTakes
  <2>. QED BY <1>1, <1>9, <2>2, <2>3, MonitorMoves
<1>10. CASE ~Open(t) /\ ~Command(t) /\ ~Monitor(t)
  <2>1. fds' = fds /\ conn' = conn
    BY <1>10, StepFds, StepConn
  <2>. QED BY <1>1, <1>2, <1>6, <1>10, <2>1, StepFd
<1> QED BY <1>7, <1>8, <1>9, <1>10

-----------------------------------------------------------------------------
(* What is believed of a port was said by a modem in it.                   *)

ThreadsTold == \A f \in Fields : \A t \in Threads : Says(th[t].slot, f, th[t].res[f])
CacheTold == \A f \in Fields : \A i \in DOMAIN cache : Says(cache[i].slot, f, cache[i][f])
DevicesTold ==
  \A f \in Fields : \A d \in Range(Devs) : On(d) =>
    Want[d][f] = None \/ \E m \in seen[conn[d].slot] : m[f] = Want[d][f]
ItemsOfPort ==
  \A t \in Threads : \A i \in DOMAIN cache :
    cache[i].n = th[t].item => cache[i].slot = th[t].slot
SeenAll == \A s \in Slots : usb[s] # None => usb[s] \in seen[s]

LEMMA ToldParts ==
  Told <=> ThreadsTold /\ CacheTold /\ DevicesTold /\ ItemsOfPort /\ SeenAll
BY DEF Told, ThreadsTold, CacheTold, DevicesTold, ItemsOfPort, SeenAll

LEMMA SayStill ==
  ASSUME seen' = seen, ThreadsTold, NEW t \in Threads, Moved(t),
         \A f \in Fields : Says(th'[t].slot, f, th'[t].res[f])
  PROVE  ThreadsTold'
<1> SUFFICES ASSUME NEW f \in Fields, NEW u \in Threads
             PROVE  Says(th[u].slot, f, th[u].res[f])'
  BY DEF ThreadsTold
<1>1. Says(th'[u].slot, f, th'[u].res[f])
  <2>1. u # t => th'[u] = th[u]
    BY DEF Moved
  <2>. QED BY <2>1 DEF ThreadsTold
<1> QED BY <1>1 DEF Says

LEMMA NothingSaid ==
  ASSUME NEW t \in Threads, Leaves(t)
  PROVE  \A f \in Fields : Says(th'[t].slot, f, th'[t].res[f])
BY InfoTypes DEF Leaves, Says, Fields

LEMMA StepThreadsTold ==
  ASSUME IInv, NEW t \in Threads, Step(t)
  PROVE  ThreadsTold'
<1>1. /\ Typed /\ Placed(t) /\ ThreadsTold /\ CacheTold /\ ItemsOfPort /\ SeenAll
      /\ usb' = usb /\ seen' = seen
  BY ToldParts, StepWorld DEF IInv
<1>2. CASE th' = th
  BY <1>1, <1>2 DEF ThreadsTold, Says
<1>3. CASE Leaves(t)
  BY <1>1, <1>3, NothingSaid, SayStill DEF Leaves
<1>4. CASE Known(t) /\ \E pc : Continues(t, pc)
  <2>1. \A f \in Fields : Says(th'[t].slot, f, th'[t].res[f])
    BY <1>1, <1>4 DEF ThreadsTold, Known, Continues
  <2>. QED BY <1>1, <1>4, <2>1, SayStill DEF Continues
<1>5. CASE cache_lookup(t)
  <2>1. CASE /\ \E pc \in {"opentty", "release"} : Continues(t, pc)
             /\ Alive(th[t].item) /\ \A f \in Fields : th'[t].res[f] = Item(t)[f]
    <3>1. Moved(t) /\ th'[t].slot = th[t].slot
      BY <2>1 DEF Continues
    <3>2. PICK i \in DOMAIN cache : Item(t) = cache[i] /\ cache[i].n = th[t].item
      BY <1>1, <2>1, ItemIs
    <3>3. cache[i].slot = th[t].slot
      BY <1>1, <3>2 DEF ItemsOfPort
    <3>4. \A f \in Fields : Says(th'[t].slot, f, th'[t].res[f])
      BY <1>1, <2>1, <3>1, <3>2, <3>3 DEF CacheTold
    <3>. QED BY <1>1, <3>1, <3>4, SayStill
  <2>. QED BY <1>1, <1>2, <1>4, <1>5, <2>1, LookupMoves
<1>6. CASE Command(t)
  <2>1. th[t].fd \in Fds /\ th[t].slot \in Slots
    BY <1>1, <1>6, ThreadTypes, FdsAre DEF Command, At, Placed, AtPort, Holding
  <2>2. fds[th[t].fd] \in Slots => usb[th[t].slot] \in Modems
    BY <1>1, <2>1, FdsAre DEF IInv, FdsHeld, Typed
  <2>3. CASE /\ Continues(t, "unlink") /\ usb[th[t].slot] \in Modems
             /\ \A f \in Fields : \/ th'[t].res[f] = th[t].res[f]
                                  \/ th'[t].res[f] = usb[th[t].slot][f]
    <3>1. usb[th[t].slot] \in seen[th[t].slot]
      BY <1>1, <2>1, <2>3, ModemsAssumption DEF SeenAll
    <3>2. Moved(t) /\ th'[t].slot = th[t].slot
      BY <2>3 DEF Continues
    <3>3. \A f \in Fields : Says(th'[t].slot, f, th'[t].res[f])
      BY <1>1, <2>3, <3>1, <3>2 DEF ThreadsTold, Says
    <3>. QED BY <1>1, <3>2, <3>3, SayStill
  <2>. QED BY <1>1, <1>4, <1>6, <2>1, <2>2, <2>3, CommandMoves
<1>7. CASE Begin(t) \/ Device(t) \/ Claim(t) \/ pdiscovery_list_end(t)
  BY <1>1, <1>3, <1>4, <1>7, BeginMoves, DeviceMoves, ClaimMoves, ListEndMoves
<1>8. CASE Lookup(t) \/ Update(t)
  <2>1. "copy" \in Places /\ "store" \in Places
    BY DEF Places, AtPort, Holding
  <2>. QED BY <1>1, <1>4, <1>8, <2>1, SearchMoves DEF Lookup, Update
<1>9. CASE Opentty(t) \/ Lock(t) \/ Open(t)
  BY <1>1, <1>3, <1>4, <1>9, OpenttyMoves, LockMoves, OpenMoves
<1>10. CASE OpenFails(t) \/ Unlink(t) \/ cache_update(t)
  BY <1>1, <1>2, <1>3, <1>4, <1>10, OpenFailsMoves, UnlinkMoves, UpdateMoves
<1>11. CASE Release(t) \/ Monitor(t)
  BY <1>1, <1>3, <1>4, <1>11, ReleaseMoves, MonitorMoves
<1> QED BY <1>5, <1>6, <1>7, <1>8, <1>9, <1>10, <1>11 DEF Step

LEMMA StepCacheTold ==
  ASSUME IInv, NEW t \in Threads, Step(t)
  PROVE  CacheTold'
<1>1. Typed /\ Placed(t) /\ ThreadsTold /\ CacheTold /\ seen' = seen
  BY ToldParts, StepWorld DEF IInv
<1>2. CASE cache' = cache
  BY <1>1, <1>2 DEF CacheTold, Says
<1>3. CASE Lookup(t) \/ Update(t)
  <2>1. \A i \in DOMAIN cache' : \E k \in DOMAIN cache : cache'[i] = cache[k]
    BY <1>1, <1>3, SearchKeeps DEF Lookup, Update
  <2>. QED BY <1>1, <2>1 DEF CacheTold, Says
<1>4. CASE cache_update(t) /\ ~UseFreed(t)
  <2>1. th[t].slot \in Slots
    BY <1>1, <1>4 DEF cache_update, At, Placed, AtPort, Holding
  <2>2. \A i \in DOMAIN cache' :
          \/ i \in DOMAIN cache /\ cache'[i] = cache[i]
          \/ /\ cache'[i].slot = th[t].slot
             /\ \A f \in Fields : cache'[i][f] = th[t].res[f]
    BY <1>1, <1>4, <2>1, UpdateKeeps
  <2>. QED BY <1>1, <2>2 DEF CacheTold, ThreadsTold, Says
<1>5. UseFreed(t) => cache' = cache
  BY DEF UseFreed
<1> QED BY <1>2, <1>3, <1>4, <1>5, StepCache

LEMMA StepDevicesTold ==
  ASSUME IInv, NEW t \in Threads, Step(t)
  PROVE  DevicesTold'
<1>1. /\ Typed /\ Placed(t) /\ ThreadsTold /\ DevicesTold /\ seen' = seen
      /\ conn \in [Range(Devs) -> Connection]
  BY ToldParts, StepWorld DEF IInv, Typed
<1>2. CASE conn' = conn
  BY <1>1, <1>2 DEF DevicesTold, On
<1>3. CASE Monitor(t) /\ conn' # conn
  <2> DEFINE e == Devs[th[t].dev]
             r == [slot |-> th[t].slot, fd |-> th[t].fd, pc |-> "on"]
  <2>1. conn' = [conn EXCEPT ![e] = r] /\ th[t].pc = "monitor"
    BY <1>3 DEF Monitor, At
  <2>2. t = "discovery" /\ Matched(req(t), th[t].res)
    BY <1>1, <2>1 DEF Placed, Starting
  <2>3. \A f \in Fields : Want[e][f] = None \/ \E m \in seen[th[t].slot] : m[f] = Want[e][f]
    BY <1>1, <2>2 DEF ThreadsTold, Says, Matched, req, Fields
  <2>4. r.slot = th[t].slot
    OBVIOUS
  <2> HIDE DEF r, e
  <2>5. \A d \in Range(Devs) : conn'[d] = IF d = e THEN r ELSE conn[d]
    BY <1>1, <2>1
  <2>. QED BY <1>1, <2>3, <2>4, <2>5 DEF DevicesTold, On
<1> QED BY <1>2, <1>3, StepConn

(* a thread that does not search keeps its item, or has none *)
LEMMA StepItem ==
  ASSUME IInv, NEW t \in Threads, Step(t), ~Lookup(t), ~Update(t)
  PROVE  \/ th' = th
         \/ Moved(t) /\ th'[t].item = 0
         \/ Moved(t) /\ th'[t].item = th[t].item /\ th'[t].slot = th[t].slot
<1>1. Typed /\ Placed(t)
  BY DEF IInv
<1>2. Leaves(t) => Moved(t) /\ th'[t].item = 0
  BY DEF Leaves
<1>3. ASSUME NEW pc, Continues(t, pc) PROVE Moved(t) /\ th'[t].slot = th[t].slot
  BY <1>3 DEF Continues
<1>4. CASE Begin(t) \/ Device(t) \/ Claim(t) \/ pdiscovery_list_end(t)
  BY <1>1, <1>2, <1>3, <1>4, BeginMoves, DeviceMoves, ClaimMoves, ListEndMoves DEF Itemed
<1>5. CASE cache_lookup(t) \/ cache_update(t)
  BY <1>1, <1>3, <1>5, LookupMoves, UpdateMoves DEF Itemed
<1>6. CASE Opentty(t) \/ Lock(t) \/ Open(t)
  BY <1>1, <1>2, <1>3, <1>6, OpenttyMoves, LockMoves, OpenMoves DEF Itemed
<1>7. CASE OpenFails(t) \/ Unlink(t)
  BY <1>1, <1>2, <1>3, <1>7, OpenFailsMoves, UnlinkMoves DEF Itemed
<1>8. CASE Release(t) \/ Monitor(t)
  BY <1>1, <1>2, <1>3, <1>8, ReleaseMoves, MonitorMoves DEF Itemed
<1>9. CASE Command(t)
  <2>1. th[t].fd \in Fds
    BY <1>1, <1>9, ThreadTypes, FdsAre DEF Command, At, Placed
  <2>2. fds[th[t].fd] \in Slots => usb[th[t].slot] \in Modems
    BY <1>1, <2>1, FdsAre DEF IInv, FdsHeld, Typed
  <2>. QED BY <1>1, <1>3, <1>9, <2>1, <2>2, CommandMoves DEF Itemed
<1> QED BY <1>4, <1>5, <1>6, <1>7, <1>8, <1>9 DEF Step

LEMMA StepItemsOfPort ==
  ASSUME IInv, NEW t \in Threads, Step(t)
  PROVE  ItemsOfPort'
<1>1. /\ Typed /\ Placed(t) /\ ItemsOfPort
      /\ \A i \in DOMAIN cache : cache[i].n \in Nat \ {0}
  BY ToldParts, CacheIs DEF IInv, CacheItem
<1>2. \A u \in Threads : th[u].item \in Used
  BY DEF Used
<1>3. CASE Lookup(t) \/ Update(t)
  <2>1. "copy" \in Places /\ "store" \in Places
    BY DEF Places, AtPort, Holding
  <2>2. \A i \in DOMAIN cache' : \E k \in DOMAIN cache : cache'[i] = cache[k]
    BY <1>1, <1>3, SearchKeeps DEF Lookup, Update
  <2>3. /\ Moved(t) /\ th'[t].slot = th[t].slot
        /\ \/ th'[t].item = 0
           \/ \E k \in DOMAIN cache : th'[t].item = cache[k].n /\ cache[k].slot = th[t].slot
    BY <1>1, <1>3, <2>1, SearchMoves DEF Lookup, Update, Continues
  <2>4. \A k \in DOMAIN cache : cache[k].n = th'[t].item => cache[k].slot = th'[t].slot
    BY <1>1, <2>3 DEF Typed, Distinct
  <2>5. \A u \in Threads : u # t => th'[u] = th[u]
    BY <2>3 DEF Moved
  <2>. QED BY <1>1, <2>2, <2>4, <2>5 DEF ItemsOfPort
<1>4. CASE ~Lookup(t) /\ ~Update(t)
  <2>1. \/ th' = th
        \/ Moved(t) /\ th'[t].item = 0
        \/ Moved(t) /\ th'[t].item = th[t].item /\ th'[t].slot = th[t].slot
    BY <1>4, StepItem
  <2>2. \A u \in Threads : \/ th'[u].item = 0
                           \/ th'[u].item = th[u].item /\ th'[u].slot = th[u].slot
    BY <2>1 DEF Moved
  <2>3. CASE cache' = cache
    BY <1>1, <2>2, <2>3 DEF ItemsOfPort
  <2>4. CASE cache_update(t) /\ ~UseFreed(t)
    <3>1. th[t].slot \in Slots
      BY <1>1, <2>4 DEF cache_update, At, Placed, AtPort, Holding
    <3>2. \A i \in DOMAIN cache' :
            \/ i \in DOMAIN cache /\ cache'[i] = cache[i]
            \/ /\ cache'[i].slot = th[t].slot
               /\ \/ cache'[i].n \notin Used
                  \/ i \in DOMAIN cache /\ cache'[i].n = cache[i].n
                                        /\ cache[i].n = th[t].item
      BY <1>1, <2>4, <3>1, UpdateKeeps
    <3>3. \A i \in DOMAIN cache' : cache'[i].n \in Nat \ {0}
      <4>1. cache' \in Seq(CacheItem)
        BY <1>1, <2>4, <3>1, UpdateKeeps
      <4>2. \A i \in DOMAIN cache' : cache'[i] \in CacheItem
        BY <4>1, ElementOfSeq, LenProperties
      <4>. QED BY <4>2 DEF CacheItem
    <3>4. ASSUME NEW u \in Threads, NEW i \in DOMAIN cache', cache'[i].n = th'[u].item
          PROVE  cache'[i].slot = th'[u].slot
      <4>1. th'[u].item = th[u].item /\ th'[u].slot = th[u].slot
        BY <2>2, <3>3, <3>4
      <4>2. CASE i \in DOMAIN cache /\ cache'[i] = cache[i]
        BY <1>1, <3>4, <4>1, <4>2 DEF ItemsOfPort
      <4>3. CASE /\ cache'[i].slot = th[t].slot /\ i \in DOMAIN cache
                 /\ cache'[i].n = cache[i].n /\ cache[i].n = th[t].item
        <5>1. cache[i].slot = th[t].slot /\ cache[i].slot = th[u].slot
          BY <1>1, <3>4, <4>1, <4>3 DEF ItemsOfPort
        <5>. QED BY <4>1, <4>3, <5>1
      <4>. QED BY <1>2, <3>2, <3>4, <4>1, <4>2, <4>3
    <3>. QED BY <3>4 DEF ItemsOfPort
  <2>5. UseFreed(t) => cache' = cache
    BY DEF UseFreed
  <2>. QED BY <1>4, <2>3, <2>4, <2>5, StepCache
<1> QED BY <1>3, <1>4

-----------------------------------------------------------------------------
(* What happens to the ports from outside, and the monitor threads.        *)

LEMMA AllPlaced ==
  ASSUME IInv, th' = th, \A d \in Range(Devs) : conn[d] = Off => conn'[d] = Off
  PROVE  \A t \in Threads : Placed(t)'
<1> SUFFICES ASSUME NEW t \in Threads PROVE Placed(t)'
  OBVIOUS
<1>1. Typed /\ Placed(t)
  BY DEF IInv
<1>2. Devs[th[t].dev] \in Range(Devs)
  BY <1>1, ThreadTypes, DevsBounds
<1>3. (Fresh(t)' <=> Fresh(t)) /\ (Matched(req(t), th[t].res)' <=> Matched(req(t), th[t].res))
  BY DEF Fresh, Matched, req
<1>4. t = "discovery" /\ th[t].pc # "idle" => conn'[Devs[th[t].dev]] = Off
  BY <1>1, <1>2 DEF Placed
<1> QED BY <1>1, <1>3, <1>4 DEF Placed

LEMMA DisconnectKeeps ==
  ASSUME IInv, NEW d \in Range(Devs), Disconnect(d)
  PROVE  IInv'
<1>1. /\ Typed /\ LocksHeld /\ FdsHeld /\ Told /\ Connected(d) /\ conn[d].pc = "on"
      /\ \A t \in Threads : Placed(t)
      /\ \A e \in Range(Devs) : Connected(e)
  BY DEF IInv, Disconnect
<1>2. conn[d].slot \in Slots /\ conn[d].fd \in Fds /\ On(d)
  BY <1>1 DEF Connected, On
<1>3. /\ lock' = lock /\ usb' = usb /\ seen' = seen /\ cache' = cache /\ th' = th /\ fault' = fault
      /\ close(conn[d].fd) /\ conn' = [conn EXCEPT ![d].pc = "unlink"]
  BY DEF Disconnect, world
<1> DEFINE r == [conn[d] EXCEPT !.pc = "unlink"]
<1>4. r \in Connection /\ r.slot = conn[d].slot /\ r.fd = conn[d].fd /\ r.pc = "unlink"
  BY <1>1 DEF Typed, Connection
<1>5. conn' = [conn EXCEPT ![d] = r]
  BY <1>3
<1> HIDE DEF r
<1>6. \A e \in Range(Devs) : conn'[e] = IF e = d THEN r ELSE conn[e]
  BY <1>1, <1>5 DEF Typed
<1>7. \A f \in Fds : fds'[f] = IF f = conn[d].fd THEN Closed ELSE fds[f]
  BY <1>1, <1>3 DEF close, Typed
<1>8. Typed'
  <2>1. conn' \in [Range(Devs) -> Connection]
    BY <1>1, <1>4, <1>5 DEF Typed
  <2>2. fds' \in [Fds -> Slots \cup {Closed, Hung}]
    BY <1>1, <1>3 DEF close, Typed
  <2>. QED BY <1>1, <1>3, <2>1, <2>2 DEF Typed
<1>9. LocksHeld'
  BY <1>1, <1>3, <1>4, <1>6 DEF LocksHeld, Holds
<1>10. \A e \in Range(Devs) : On(e)' => On(e) /\ e # d /\ conn'[e] = conn[e]
  BY <1>4, <1>6 DEF On
<1>11. FdsHeld'
  <2>1. \A t \in Threads : th[t].fd # conn[d].fd
    BY <1>1, <1>2 DEF FdsHeld, Shared
  <2>2. \A e \in Range(Devs) : On(e) /\ e # d =>
          conn'[e] = conn[e] /\ On(e)' /\ conn[e].fd \in Fds /\ conn[e].fd # conn[d].fd
    BY <1>1, <1>2, <1>6 DEF FdsHeld, Shared, On, Connected
  <2>3. \A f \in Fds : fds'[f] # Closed => Has(f)'
    BY <1>1, <1>3, <1>7, <2>2 DEF FdsHeld, Has
  <2>4. \A t \in Threads : th'[t].fd # -1 => fds'[th'[t].fd] \in {th'[t].slot, Hung}
    BY <1>1, <1>3, <1>7, <2>1, ThreadTypes DEF FdsHeld
  <2>5. \A e \in Range(Devs) : On(e)' => fds'[conn'[e].fd] \in {conn'[e].slot, Hung}
    BY <1>1, <1>7, <1>10, <2>2 DEF FdsHeld
  <2>6. ~Shared'
    BY <1>1, <1>3, <1>10 DEF FdsHeld, Shared
  <2>7. \A f \in Fds : fds'[f] \in Slots => usb'[fds'[f]] # None
    BY <1>1, <1>3, <1>7, FdsAre DEF FdsHeld
  <2>. QED BY <2>3, <2>4, <2>5, <2>6, <2>7 DEF FdsHeld
<1>12. Told'
  BY <1>1, <1>3, <1>10 DEF Told, Says
<1>13. \A t \in Threads : Placed(t)'
  BY <1>1, <1>3, <1>6, AllPlaced DEF Off
<1>14. \A e \in Range(Devs) : Connected(e)'
  BY <1>1, <1>4, <1>6 DEF Connected
<1> QED BY <1>8, <1>9, <1>11, <1>12, <1>13, <1>14 DEF IInv

LEMMA DisconnectedKeeps ==
  ASSUME IInv, NEW d \in Range(Devs), Disconnected(d)
  PROVE  IInv'
<1>1. /\ Typed /\ LocksHeld /\ FdsHeld /\ Told /\ conn[d].pc = "unlink"
      /\ \A t \in Threads : Placed(t)
      /\ \A e \in Range(Devs) : Connected(e)
  BY DEF IInv, Disconnected
<1>2. /\ fds' = fds /\ usb' = usb /\ seen' = seen /\ cache' = cache /\ th' = th /\ fault' = fault
      /\ unlink(conn[d].slot) /\ conn' = [conn EXCEPT ![d] = Off]
  BY DEF Disconnected, world
<1>3. Off \in Connection /\ Off.pc = "off"
  BY DEF Off, Connection
<1>4. \A e \in Range(Devs) : conn'[e] = IF e = d THEN Off ELSE conn[e]
  BY <1>1, <1>2 DEF Typed
<1>5. Typed'
  <2>1. conn' \in [Range(Devs) -> Connection]
    BY <1>1, <1>2, <1>3 DEF Typed
  <2>2. lock' \in [Slots -> Fds \cup {NoLock, Foreign}]
    BY <1>1, <1>2 DEF unlink, Typed
  <2>. QED BY <1>1, <1>2, <2>1, <2>2 DEF Typed
<1>6. LocksHeld'
  <2> SUFFICES ASSUME NEW s \in Slots, lock'[s] \in Fds
               PROVE  \/ \E t \in Threads : Holds(t, s)'
                      \/ \E e \in Range(Devs) : conn'[e].slot = s
    BY DEF LocksHeld
  <2>1. s # conn[d].slot /\ lock[s] \in Fds
    BY <1>1, <1>2, FdsAre DEF unlink, Typed
  <2>. QED BY <1>1, <1>2, <1>4, <2>1 DEF LocksHeld, Holds
<1>7. \A e \in Range(Devs) : (On(e)' <=> On(e)) /\ (On(e) => conn'[e] = conn[e])
  BY <1>1, <1>3, <1>4 DEF On
<1>8. FdsHeld'
  <2>1. \A f \in Fds : Has(f) => Has(f)'
    BY <1>2, <1>7 DEF Has
  <2>2. Shared' => Shared
    BY <1>2, <1>7 DEF Shared
  <2>. QED BY <1>1, <1>2, <1>7, <2>1, <2>2 DEF FdsHeld
<1>9. Told'
  BY <1>1, <1>2, <1>7 DEF Told, Says
<1>10. \A t \in Threads : Placed(t)'
  BY <1>1, <1>2, <1>4, AllPlaced DEF Off
<1>11. \A e \in Range(Devs) : Connected(e)'
  BY <1>1, <1>3, <1>4 DEF Connected
<1> QED BY <1>5, <1>6, <1>8, <1>9, <1>10, <1>11 DEF IInv

(* what only other programs, modems and time do leaves the rest alone *)
LEMMA OutsideKeeps ==
  ASSUME IInv, th' = th, conn' = conn, fault' = fault, Typed', FdsHeld', Told',
         \A s \in Slots : lock'[s] \in Fds => lock[s] \in Fds
  PROVE  IInv'
<1>1. LocksHeld /\ \A d \in Range(Devs) : Connected(d)
  BY DEF IInv
<1>2. LocksHeld'
  BY <1>1 DEF LocksHeld, Holds
<1>3. \A t \in Threads : Placed(t)'
  BY AllPlaced
<1>4. \A d \in Range(Devs) : Connected(d)'
  BY <1>1 DEF Connected
<1> QED BY <1>2, <1>3, <1>4 DEF IInv

LEMMA FdsUntouched ==
  ASSUME FdsHeld, fds' = fds, th' = th, conn' = conn,
         \A s \in Slots : usb[s] # None => usb'[s] # None
  PROVE  FdsHeld'
<1>1. \A f \in Fds : Has(f)' <=> Has(f)
  BY DEF Has, On
<1>2. Shared' <=> Shared
  BY DEF Shared, On
<1> QED BY <1>1, <1>2 DEF FdsHeld, On

LEMMA ExpireKeeps == ASSUME IInv, Expire PROVE IInv'
<1>1. Typed /\ FdsHeld /\ Told
  BY DEF IInv
<1>2. /\ fds' = fds /\ lock' = lock /\ usb' = usb /\ seen' = seen /\ th' = th /\ conn' = conn
      /\ fault' = fault
  BY DEF Expire, disk, world
<1>3. PICK i \in DOMAIN cache : cache' = [cache EXCEPT ![i].valid = FALSE]
  BY DEF Expire
<1> DEFINE e == [cache[i] EXCEPT !.valid = FALSE]
<1>4. cache[i] \in CacheItem /\ DOMAIN cache = 1 .. Len(cache) /\ cache \in Seq(CacheItem)
  BY <1>1, CacheIs DEF Typed
<1>5. /\ e \in CacheItem /\ e.slot = cache[i].slot /\ e.n = cache[i].n
      /\ \A f \in Fields : e[f] = cache[i][f]
  BY <1>4 DEF CacheItem, Fields
<1>6. cache' = [cache EXCEPT ![i] = e]
  BY <1>3
<1> HIDE DEF e
<1>7. /\ cache' \in Seq(CacheItem) /\ DOMAIN cache' = DOMAIN cache
      /\ \A j \in DOMAIN cache : cache'[j] = IF j = i THEN e ELSE cache[j]
  BY <1>4, <1>5, <1>6, ExceptSeq, LenProperties
<1>8. \A j \in DOMAIN cache : /\ cache'[j].slot = cache[j].slot /\ cache'[j].n = cache[j].n
                              /\ \A f \in Fields : cache'[j][f] = cache[j][f]
  BY <1>5, <1>7
<1>9. Distinct(cache')
  BY <1>1, <1>7, <1>8 DEF Typed, Distinct
<1>10. Typed'
  BY <1>1, <1>2, <1>7, <1>9 DEF Typed
<1>11. Told'
  <2>1. ThreadsTold /\ CacheTold /\ DevicesTold /\ ItemsOfPort /\ SeenAll
    BY <1>1, ToldParts
  <2>2. CacheTold'
    BY <1>2, <1>7, <1>8, <2>1 DEF CacheTold, Says
  <2>3. ItemsOfPort'
    BY <1>2, <1>7, <1>8, <2>1 DEF ItemsOfPort
  <2>4. ThreadsTold' /\ DevicesTold' /\ SeenAll'
    BY <1>2, <2>1 DEF ThreadsTold, DevicesTold, SeenAll, Says, On
  <2>. QED BY <2>2, <2>3, <2>4 DEF Told, ThreadsTold, CacheTold, DevicesTold, ItemsOfPort, SeenAll
<1> QED BY <1>1, <1>2, <1>10, <1>11, FdsUntouched, OutsideKeeps

LEMMA UnplugKeeps ==
  ASSUME IInv, NEW s \in Slots, Unplug(s)
  PROVE  IInv'
<1>1. /\ Typed /\ FdsHeld /\ Told
      /\ \A d \in Range(Devs) : Connected(d)
  BY DEF IInv
<1>2. /\ lock' = lock /\ seen' = seen /\ cache' = cache /\ th' = th /\ conn' = conn
      /\ fault' = fault /\ hangup(s) /\ usb' = [usb EXCEPT ![s] = None]
  BY DEF Unplug
<1>3. \A f \in Fds : fds'[f] = IF fds[f] = s THEN Hung ELSE fds[f]
  BY <1>2 DEF hangup
<1>4. \A u \in Slots : usb'[u] = IF u = s THEN None ELSE usb[u]
  BY <1>1, <1>2 DEF Typed
<1>5. Typed'
  <2>1. fds' \in [Fds -> Slots \cup {Closed, Hung}]
    BY <1>1, <1>2 DEF hangup, Typed
  <2>2. usb' \in [Slots -> Modems \cup {None}]
    BY <1>1, <1>2 DEF Typed
  <2>. QED BY <1>1, <1>2, <2>1, <2>2 DEF Typed
<1>6. FdsHeld'
  <2>1. \A f \in Fds : (Has(f)' <=> Has(f)) /\ (fds'[f] # Closed => fds[f] # Closed)
    BY <1>2, <1>3, FdsAre DEF Has, On
  <2>2. Shared' <=> Shared
    BY <1>2 DEF Shared, On
  <2>3. \A t \in Threads : th[t].fd # -1 => fds'[th[t].fd] \in {th[t].slot, Hung}
    BY <1>1, <1>3, ThreadTypes DEF FdsHeld
  <2>4. \A d \in Range(Devs) : On(d) => fds'[conn[d].fd] \in {conn[d].slot, Hung}
    <3> SUFFICES ASSUME NEW d \in Range(Devs), On(d)
                 PROVE  fds'[conn[d].fd] \in {conn[d].slot, Hung}
      OBVIOUS
    <3>1. conn[d].fd \in Fds
      BY <1>1 DEF On, Connected
    <3>2. fds[conn[d].fd] \in {conn[d].slot, Hung}
      BY <1>1 DEF FdsHeld
    <3>. QED BY <1>3, <3>1, <3>2
  <2>5. \A f \in Fds : fds'[f] \in Slots => usb'[fds'[f]] # None
    BY <1>1, <1>3, <1>4, FdsAre DEF FdsHeld
  <2>6. \A d \in Range(Devs) : On(d)' <=> On(d)
    BY <1>2 DEF On
  <2>. QED BY <1>1, <1>2, <2>1, <2>2, <2>3, <2>4, <2>5, <2>6 DEF FdsHeld
<1>7. Told'
  <2>1. SeenAll'
    BY <1>1, <1>2, <1>4 DEF Told, SeenAll
  <2>. QED BY <1>1, <1>2, <2>1 DEF Told, SeenAll, Says, On
<1> QED BY <1>2, <1>5, <1>6, <1>7, OutsideKeeps

LEMMA PlugKeeps ==
  ASSUME IInv, NEW s \in Slots, NEW m \in Modems, Plug(s, m)
  PROVE  IInv'
<1>1. Typed /\ FdsHeld /\ Told /\ \A d \in Range(Devs) : Connected(d)
  BY DEF IInv
<1>2. /\ fds' = fds /\ lock' = lock /\ cache' = cache /\ th' = th /\ conn' = conn
      /\ fault' = fault /\ usb' = [usb EXCEPT ![s] = m]
      /\ seen' = [seen EXCEPT ![s] = @ \cup {m}]
  BY DEF Plug, disk
<1>3. \A u \in Slots : usb'[u] = IF u = s THEN m ELSE usb[u]
  BY <1>1, <1>2 DEF Typed
<1>4. \A u \in Slots : seen'[u] = IF u = s THEN seen[s] \cup {m} ELSE seen[u]
  BY <1>1, <1>2 DEF Typed
<1>5. Typed'
  <2>1. usb' \in [Slots -> Modems \cup {None}]
    BY <1>1, <1>2 DEF Typed
  <2>2. seen' \in [Slots -> SUBSET Modems]
    BY <1>1, <1>2 DEF Typed
  <2>. QED BY <1>1, <1>2, <2>1, <2>2 DEF Typed
<1>6. FdsHeld'
  BY <1>1, <1>2, <1>3, FdsUntouched, ModemsAssumption
<1>7. Told'
  <2>1. ThreadsTold /\ CacheTold /\ DevicesTold /\ ItemsOfPort /\ SeenAll
    BY <1>1, ToldParts
  <2>2. \A u \in Slots : seen[u] \subseteq seen'[u]
    BY <1>4
  <2>3. \A u \in Slots : \A f, v : Says(u, f, v) => Says(u, f, v)'
    BY <2>2 DEF Says
  <2>4. ThreadsTold'
    <3>1. \A t \in Threads : th[t].slot \in Slots \/ th[t].res = NoInfo
      BY DEF IInv, Placed, Fresh
    <3>2. \A u, f : f \in Fields => Says(u, f, NoInfo[f])'
      BY InfoTypes DEF Says, Fields
    <3>. QED BY <1>2, <2>1, <2>3, <3>1, <3>2 DEF ThreadsTold
  <2>5. CacheTold'
    <3>1. \A i \in DOMAIN cache : cache[i].slot \in Slots
      BY <1>1, CacheIs DEF CacheItem
    <3>. QED BY <1>2, <2>1, <2>3, <3>1 DEF CacheTold
  <2>6. DevicesTold'
    BY <1>1, <1>2, <2>1, <2>2 DEF DevicesTold, On, Connected
  <2>7. ItemsOfPort'
    BY <1>2, <2>1 DEF ItemsOfPort
  <2>8. SeenAll'
    BY <1>3, <1>4, <2>1 DEF SeenAll
  <2>. QED BY <2>4, <2>5, <2>6, <2>7, <2>8
          DEF Told, ThreadsTold, CacheTold, DevicesTold, ItemsOfPort, SeenAll
<1> QED BY <1>2, <1>5, <1>6, <1>7, OutsideKeeps

LEMMA ForeignKeeps ==
  ASSUME IInv, NEW s \in Slots, ForeignLock(s) \/ ForeignUnlock(s)
  PROVE  IInv'
<1>1. Typed /\ FdsHeld /\ Told
  BY DEF IInv
<1>2. /\ fds' = fds /\ usb' = usb /\ seen' = seen /\ cache' = cache /\ th' = th /\ conn' = conn
      /\ fault' = fault
  BY DEF ForeignLock, ForeignUnlock, world
<1>3. \E v \in {NoLock, Foreign} : lock' = [lock EXCEPT ![s] = v]
  BY DEF ForeignLock, ForeignUnlock, unlink
<1>4. lock' \in [Slots -> Fds \cup {NoLock, Foreign}]
  BY <1>1, <1>3 DEF Typed
<1>5. \A u \in Slots : lock'[u] \in Fds => lock[u] \in Fds
  BY <1>1, <1>3, FdsAre DEF Typed
<1>6. Typed' /\ Told'
  BY <1>1, <1>2, <1>4 DEF Typed, Told, Says, On
<1> QED BY <1>1, <1>2, <1>5, <1>6, FdsUntouched, OutsideKeeps

-----------------------------------------------------------------------------
(* The theorems.                                                           *)

LEMMA Initially == Init => IInv
<1> SUFFICES ASSUME Init PROVE IInv
  OBVIOUS
<1>1. /\ Idle \in Thread /\ Idle.pc = "idle" /\ Idle.fd = -1 /\ Idle.res = NoInfo
      /\ Idle.item = 0 /\ Idle.slot = 0
  <2>1. 1 \in 1 .. N /\ 0 \in 0 .. Cardinality(Slots) + 1
    BY DevsBounds, SlotsBounds
  <2>. QED BY <2>1, InfoTypes DEF Idle, Thread, Places, Resting
<1>2. Off \in Connection /\ Off.pc = "off" /\ Off.slot = 0
  BY DEF Off, Connection
<1>3. /\ cache = <<>> /\ DOMAIN cache = {}
      /\ \A t \in Threads : th[t] = Idle
      /\ \A d \in Range(Devs) : conn[d] = Off
      /\ \A f \in Fds : fds[f] = Closed
      /\ \A s \in Slots : lock[s] = NoLock /\ seen[s] = {usb[s]} \ {None}
  BY DEF Init
<1>4. Typed
  <2>1. cache \in Seq(CacheItem) /\ Distinct(cache)
    BY <1>3 DEF Distinct
  <2>2. seen \in [Slots -> SUBSET Modems]
    BY DEF Init
  <2>. QED BY <1>1, <1>2, <2>1, <2>2 DEF Init, Typed
<1>5. LocksHeld
  BY <1>3, FdsAre DEF LocksHeld
<1>6. FdsHeld
  <2>1. \A t \in Threads : th[t].fd = -1
    BY <1>1, <1>3
  <2>2. \A d \in Range(Devs) : ~On(d)
    BY <1>2, <1>3 DEF On
  <2>3. ~Shared
    BY <2>1, <2>2 DEF Shared
  <2>. QED BY <1>3, <2>1, <2>2, <2>3, FdsAre DEF FdsHeld
<1>7. Told
  <2>1. SeenAll
    BY <1>3 DEF SeenAll
  <2>2. ThreadsTold
    BY <1>1, <1>3, InfoTypes DEF ThreadsTold, Says, Fields
  <2>3. CacheTold /\ ItemsOfPort
    BY <1>3 DEF CacheTold, ItemsOfPort
  <2>4. DevicesTold
    BY <1>2, <1>3 DEF DevicesTold, On
  <2>. QED BY <2>1, <2>2, <2>3, <2>4, ToldParts
<1>8. \A t \in Threads : Placed(t)
  <2>1. "idle" \notin AtPort /\ "idle" \notin Starting
    BY DEF AtPort, Holding, Starting
  <2>. QED BY <1>1, <1>3, <2>1 DEF Placed, Fresh
<1>9. \A d \in Range(Devs) : Connected(d)
  BY <1>2, <1>3 DEF Connected
<1> QED BY <1>4, <1>5, <1>6, <1>7, <1>8, <1>9 DEF IInv

LEMMA Inductive == IInv /\ [Next]_vars => IInv'
<1> SUFFICES ASSUME IInv, [Next]_vars PROVE IInv'
  OBVIOUS
<1>1. ASSUME NEW t \in Threads, Step(t) PROVE IInv'
  <2>1. Told'
    <3>1. ThreadsTold' /\ CacheTold' /\ DevicesTold' /\ ItemsOfPort'
      BY <1>1, StepThreadsTold, StepCacheTold, StepDevicesTold, StepItemsOfPort
    <3>2. SeenAll'
      BY <1>1, ToldParts, StepWorld DEF IInv, SeenAll
    <3>. QED BY <3>1, <3>2 DEF Told, ThreadsTold, CacheTold, DevicesTold, ItemsOfPort, SeenAll
  <2>2. Typed' /\ LocksHeld' /\ FdsHeld'
    BY <1>1, StepTyped, StepLocks, StepFdsHeld
  <2>3. \A u \in Threads : Placed(u)'
    BY <1>1, StepPlaced
  <2>4. \A d \in Range(Devs) : Connected(d)'
    BY <1>1, StepConnected
  <2>. QED BY <2>1, <2>2, <2>3, <2>4 DEF IInv
<1>2. ASSUME NEW d \in Range(Devs), Disconnect(d) \/ Disconnected(d) PROVE IInv'
  BY <1>2, DisconnectKeeps, DisconnectedKeeps
<1>3. CASE Expire
  BY <1>3, ExpireKeeps
<1>4. ASSUME NEW s \in Slots, Unplug(s) \/ ForeignLock(s) \/ ForeignUnlock(s) PROVE IInv'
  BY <1>4, UnplugKeeps, ForeignKeeps
<1>5. ASSUME NEW s \in Slots, NEW m \in Modems, Plug(s, m) PROVE IInv'
  BY <1>5, PlugKeeps
<1>6. CASE UNCHANGED vars
  <2>1. /\ fds' = fds /\ lock' = lock /\ usb' = usb /\ seen' = seen /\ cache' = cache
        /\ th' = th /\ conn' = conn /\ fault' = fault
    BY <1>6 DEF vars
  <2>2. Typed' /\ Told'
    BY <2>1 DEF IInv, Typed, Told, Says, On
  <2>. QED BY <2>1, <2>2, FdsUntouched, OutsideKeeps DEF IInv
<1> QED BY <1>1, <1>2, <1>3, <1>4, <1>5, <1>6 DEF Next

(* Every reachable state has all of the above: the threads, the lock       *)
(* files, the descriptors and the answers together are inductive.          *)
THEOREM Reached == Spec => []IInv
BY Initially, Inductive, PTL DEF Spec

(* Every variable keeps its type, whatever the threads do. *)
THEOREM TypeCorrect == Spec => []TypeOK
<1>1. IInv => TypeOK
  <2> SUFFICES ASSUME IInv PROVE TypeOK
    OBVIOUS
  <2>1. Typed
    BY DEF IInv
  <2>2. \A i \in DOMAIN cache : cache[i].slot \in Slots
    BY <2>1, CacheIs DEF CacheItem
  <2>. QED BY <2>1, <2>2, ThreadTypes DEF Typed, TypeOK
<1> QED BY <1>1, Reached, PTL

(* pdiscovery_read_info, pdiscovery_get_info, pvt_start and                *)
(* disconnect_dongle: whatever fails, and whoever acts between two steps,  *)
(* every lock file of this process has a thread or a device that will      *)
(* remove it, and every open descriptor one that will close it.            *)
THEOREM AllGivenBack == Spec => []GivenBack
<1>1. IInv => NoLockLeft
  <2> SUFFICES ASSUME IInv, NEW s \in Slots, lock[s] \in Fds PROVE Owners(s) # {}
    BY DEF NoLockLeft
  <2>1. (\E t \in Threads : Holds(t, s)) \/ (\E d \in Range(Devs) : conn[d].slot = s)
    BY DEF IInv, LocksHeld
  <2>2. \A pc \in Holding : pc \notin {"device", "idle"}
    BY DEF Holding
  <2>. QED BY <2>1, <2>2 DEF Holds, Owners
<1>2. IInv => NoFdLeft
  BY DEF IInv, FdsHeld, Has, NoFdLeft
<1> QED BY <1>1, <1>2, Reached, PTL DEF GivenBack

(* info_copy and cache_update, and pvt_discovery on what they give: an     *)
(* imei or imsi that the cache holds for a port, or a device was started   *)
(* for, was answered by a modem that was in that very port.                *)
THEOREM AnswersTrue == Spec => []Answered
<1>1. IInv => Answered
  BY DEF IInv, Told, Answered, On, Fields
<1> QED BY <1>1, Reached, PTL

(* the numbers of the items, in their order *)
Order == [i \in DOMAIN cache |-> cache[i].n]

LEMMA OrderGrows ==
  ASSUME Typed, cache' \in Seq(CacheItem), Len(cache) <= Len(cache'),
         \A i \in 1 .. Len(cache) : cache'[i].n = cache[i].n
  PROVE  IsPrefix(Order, Order')
<1>1. /\ Len(cache) \in Nat /\ DOMAIN cache = 1 .. Len(cache)
      /\ Len(cache') \in Nat /\ DOMAIN cache' = 1 .. Len(cache')
      /\ \A i \in DOMAIN cache : cache[i].n \in Nat
      /\ \A i \in DOMAIN cache' : cache'[i].n \in Nat
  <2>1. \A i \in DOMAIN cache' : cache'[i] \in CacheItem
    BY ElementOfSeq, LenProperties
  <2>. QED BY <2>1, CacheIs, LenProperties DEF CacheItem
<1>2. /\ Order \in Seq(Nat) /\ Len(Order) = Len(cache)
      /\ Order' \in Seq(Nat) /\ Len(Order') = Len(cache')
  <2>1. Order \in [1 .. Len(cache) -> Nat] /\ Order' \in [1 .. Len(cache') -> Nat]
    BY <1>1 DEF Order
  <2>2. \A n \in Nat : \A q \in [1 .. n -> Nat] : q \in Seq(Nat)
    BY SeqDef
  <2>3. DOMAIN Order = 1 .. Len(cache) /\ DOMAIN Order' = 1 .. Len(cache')
    BY <2>1
  <2>4. Order \in Seq(Nat) /\ Order' \in Seq(Nat)
    BY <1>1, <2>1, <2>2
  <2>. QED BY <1>1, <2>3, <2>4, LenProperties
<1>3. \A i \in 1 .. Len(cache) : Order[i] = Order'[i]
  BY <1>1 DEF Order
<1>4. SubSeq(Order, 1, Len(Order)) = SubSeq(Order', 1, Len(Order))
  <2> DEFINE a == SubSeq(Order, 1, Len(Order))
             b == SubSeq(Order', 1, Len(Order))
  <2>1. /\ a \in Seq(Nat) /\ b \in Seq(Nat) /\ Len(a) = Len(cache) /\ Len(b) = Len(cache)
        /\ \A i \in 1 .. Len(cache) : a[i] = Order[i] /\ b[i] = Order'[i]
    BY <1>1, <1>2, SubSeqProperties
  <2> HIDE DEF a, b
  <2>2. a = b
    BY <1>3, <2>1, SeqEqual
  <2>. QED BY <2>2 DEF a, b
<1> QED BY <1>1, <1>2, <1>4 DEF IsPrefix

LEMMA StepListStable == IInv /\ [Next]_vars => [Walking => IsPrefix(Order, Order')]_vars
<1> SUFFICES ASSUME IInv, Next, Walking PROVE IsPrefix(Order, Order')
  OBVIOUS
<1>1. Typed
  BY DEF IInv
<1>2. cache' \in Seq(CacheItem) /\ DOMAIN cache = 1 .. Len(cache) /\ Len(cache) \in Nat
  BY <1>1, Inductive, CacheIs DEF IInv, Typed
<1>3. CASE cache' = cache
  BY <1>1, <1>2, <1>3, OrderGrows
<1>4. ASSUME NEW t \in Threads, Step(t), cache' # cache
      PROVE  IsPrefix(Order, Order')
  <2>1. ~Lookup(t) /\ ~Update(t)
    BY DEF Lookup, Update, cache_search
  <2>2. cache_update(t) /\ ~UseFreed(t)
    BY <1>4, <2>1, StepCache DEF UseFreed
  <2>3. CASE th[t].item = 0
    <3>1. PICK e : cache' = Append(cache, e)
      BY <2>2, <2>3 DEF cache_update
    <3>2. cache \in Seq(CacheItem \cup {e}) /\ e \in CacheItem \cup {e}
      BY <1>1 DEF Typed
    <3>3. Len(cache') = Len(cache) + 1 /\ \A i \in 1 .. Len(cache) : cache'[i] = cache[i]
      BY <3>1, <3>2, AppendProperties
    <3>4. Len(cache) <= Len(cache')
      BY <1>2, <3>3
    <3>. QED BY <1>1, <1>2, <3>3, <3>4, OrderGrows
  <2>4. CASE th[t].item # 0
    <3>1. \E e : /\ e.n = th[t].item
                 /\ cache' = [i \in DOMAIN cache |->
                               IF cache[i].n = th[t].item THEN e ELSE cache[i]]
      BY <2>2, <2>4 DEF cache_update
    <3>2. \A i \in DOMAIN cache : cache'[i].n = cache[i].n
      BY <3>1
    <3>3. DOMAIN cache' = DOMAIN cache
      BY <3>1
    <3>. QED BY <1>1, <1>2, <3>2, <3>3, OrderGrows, LenProperties
  <2>. QED BY <2>3, <2>4
<1>5. CASE Expire
  <2>1. PICK i \in DOMAIN cache : cache' = [cache EXCEPT ![i].valid = FALSE]
    BY <1>5 DEF Expire
  <2> DEFINE e == [cache[i] EXCEPT !.valid = FALSE]
  <2>2. e.n = cache[i].n
    BY <1>1, CacheIs DEF CacheItem
  <2>3. cache' = [cache EXCEPT ![i] = e]
    BY <2>1
  <2> HIDE DEF e
  <2>4. DOMAIN cache' = DOMAIN cache /\ \A j \in DOMAIN cache : cache'[j].n = cache[j].n
    BY <2>2, <2>3
  <2>. QED BY <1>1, <1>2, <2>4, OrderGrows, LenProperties
<1>6. ASSUME NEW d \in Range(Devs), Disconnect(d) \/ Disconnected(d) PROVE cache' = cache
  BY <1>6 DEF Disconnect, Disconnected
<1>7. ASSUME NEW s \in Slots, Unplug(s) \/ ForeignLock(s) \/ ForeignUnlock(s)
      PROVE  cache' = cache
  BY <1>7 DEF Unplug, ForeignLock, ForeignUnlock
<1>8. ASSUME NEW s \in Slots, NEW m \in Modems, Plug(s, m) PROVE cache' = cache
  BY <1>8 DEF Plug
<1> QED BY <1>3, <1>4, <1>5, <1>6, <1>7, <1>8 DEF Next

(* cache_search against pdiscovery_list_begin and _end: while the CLI      *)
(* walks the items none of them is freed or moved.                         *)
THEOREM ListWalked == Spec => ListStable
<1>1. IInv /\ [Next]_vars => [Walking => IsPrefix([i \in DOMAIN cache |-> cache[i].n],
                                          [i \in DOMAIN cache' |-> cache'[i].n])]_vars
  BY StepListStable DEF Order
<1> QED BY <1>1, Reached, PTL DEF Spec, ListStable
=============================================================================
