-------------------------------- MODULE Calls --------------------------------
(***************************************************************************)
(* Voice calls on one started dongle: the call structures (cpvt.c), the    *)
(* channel callbacks Asterisk makes (channel.c), the call commands         *)
(* (at_command.c), the results and unsolicited codes about calls           *)
(* (at_response.c) and the modem with the network behind it.               *)
(*                                                                         *)
(* Everything but the modem runs under pvt->lock, so each callback and     *)
(* each handled result is one step on the driver's record d.  The command  *)
(* queue is used as AtQueue promises: one command on the wire, its result  *)
(* handled while it is the head.  CLIR, DDSETEX and volume commands, which *)
(* change no call, are left out of the tasks.                              *)
(***************************************************************************)
EXTENDS Integers, FiniteSets, Sequences, SequencesExt

CONSTANTS
  Ids,        (* call structures that may exist at one time                 *)
  MaxIdx,     (* calls the modem can hold; it numbers them 1 .. MaxIdx      *)
  Opts,       (* dial string options: "none", "hold" or "conf"              *)
  MaxTasks,   (* bound: tasks queued when Asterisk or the network acts      *)
  MaxInbox,   (* bound: messages unread when the modem acts                 *)
  None,       (* no call                                                    *)
  sys         (* pvt->sys_chan                                              *)

ASSUME NamesAssumption == None \notin Ids /\ sys \notin Ids /\ None # sys
ASSUME BoundsAssumption == MaxIdx \in 1 .. 31 /\ {MaxTasks, MaxInbox} \subseteq Nat \ {0}

Idx == 1 .. MaxIdx

(* call_state_t *)
States == {"active", "onhold", "dialing", "alerting", "incoming", "waiting", "released", "init"}

VARIABLES
  d,          (* the driver: see Init                                       *)
  executed,   (* the modem has executed the command on the wire             *)
  inbox,      (* what the modem sent and the monitor has not handled        *)
  net         (* the calls as the modem has them                            *)

vars == <<d, executed, inbox, net>>

(* a struct cpvt: call_idx, dir, state, whether channel is set, and flags *)
NoCpvt == [idx |-> 0, dir |-> "out", state |-> "released", ch |-> FALSE,
           need |-> FALSE, act |-> FALSE, master |-> FALSE, opts |-> "none"]
(* an ast_channel: it exists, its tech_pvt is set, it was told to hang up, *)
(* Asterisk has had it dialled or answered, which it does once, and what   *)
(* its fd[0] is: nothing, the audio port or the read pipe                  *)
NoChan == [up |-> FALSE, link |-> FALSE, hup |-> FALSE, used |-> FALSE, fd0 |-> "none"]

(* at_queue_cmd_t; a task is the commands it still has and its cpvt *)
Cmd(cmd, idx) == [cmd |-> cmd, idx |-> idx]
Ignorable(c) == c.cmd = "D"
Hangups == {"CHUP", "CHLD_1x"}

-----------------------------------------------------------------------------
(* The functions the callbacks and handlers are made of, on the record s.  *)

(* at_queue_insert with athead 1 *)
Enque(s, id, cmds) ==
  LET t == [cpvt |-> id, cmds |-> cmds]
  IN  [s EXCEPT !.queue = IF @ = <<>> THEN <<t>> ELSE <<Head(@), t>> \o Tail(@)]

request_clcc(s) == Enque(s, sys, <<Cmd("CLCC", 0)>>)

Linked(s) == ToSet(s.chans)

cpvt_alloc(s, id, idx, dir, state) ==
  [s EXCEPT !.chans = Append(@, id),
            !.call[id] = [NoCpvt EXCEPT !.idx = idx, !.dir = dir, !.state = state],
            !.chansno = @ + 1,
            !.chan_count[state] = @ + 1]

(* Mutant: last_dialed_cpvt and the queued tasks keep the freed call. *)
FreeKeepsPointers(s, id) ==
  [s EXCEPT !.chans = RemoveFirst(@, id),
            !.call[id] = NoCpvt,
            !.chansno = @ - 1,
            !.chan_count[s.call[id].state] = @ - 1]

(* Mutant: the count of the call's state is not taken down. *)
FreeKeepsCount(s, id) ==
  [s EXCEPT !.chans = RemoveFirst(@, id),
            !.call[id] = NoCpvt,
            !.chansno = @ - 1,
            !.queue = [i \in DOMAIN s.queue |->
                        IF s.queue[i].cpvt = id
                        THEN [s.queue[i] EXCEPT !.cpvt = sys] ELSE s.queue[i]],
            !.last = IF @ = id THEN None ELSE @]

cpvt_free(s, id) ==
  [s EXCEPT !.chans = RemoveFirst(@, id),
            !.call[id] = NoCpvt,
            !.chansno = @ - 1,
            !.chan_count[s.call[id].state] = @ - 1,
            !.queue = [i \in DOMAIN s.queue |->
                        IF s.queue[i].cpvt = id
                        THEN [s.queue[i] EXCEPT !.cpvt = sys] ELSE s.queue[i]],
            !.last = IF @ = id THEN None ELSE @]

new_channel(s, id, idx, dir, state) ==
  [cpvt_alloc(s, id, idx, dir, state) EXCEPT
     !.call[id].ch = TRUE,
     !.chan[id] = [NoChan EXCEPT !.up = TRUE, !.link = TRUE]]

Unused(s) == {id \in Ids : id \notin Linked(s) /\ ~s.chan[id].up}

(* the first cpvt of the list that has this index *)
pvt_find_cpvt(s, idx) ==
  LET hits == {i \in DOMAIN s.chans : s.call[s.chans[i]].idx = idx}
  IN  IF hits = {} THEN None ELSE s.chans[CHOOSE i \in hits : \A j \in hits : i <= j]

(* the lowest index no cpvt has, 0 if all are taken *)
pvt_get_pseudo_call_idx(s) ==
  LET free == (1 .. 31) \ {s.call[id].idx : id \in Linked(s)}
  IN  IF free = {} THEN 0 ELSE CHOOSE n \in free : \A m \in free : n <= m

(* Mutant: MASTER is not taken back with ACTIVATED. *)
DisactivateKeepsMaster(s, id) ==
  IF s.call[id].ch /\ s.call[id].act
  THEN [s EXCEPT !.chan[id].fd0 = "none", !.call[id].act = FALSE] ELSE s

disactivate_call(s, id) ==
  IF s.call[id].ch /\ s.call[id].act
  THEN [s EXCEPT !.chan[id].fd0 = "none",
                 !.call[id].act = FALSE, !.call[id].master = FALSE]
  ELSE s

(* The call becomes the one whose channel reads the audio port.  The loop  *)
(* over the others tests ACTIVATED of the call itself, not of the other.   *)
activate_call(s, id) ==
  IF s.call[id].master THEN s
  ELSE LET others == {o \in Linked(s) \ {id} : s.call[o].ch /\ s.call[id].act}
       IN  [s EXCEPT
              !.call = [o \in Ids |->
                          IF o = id THEN [s.call[o] EXCEPT !.act = TRUE, !.master = TRUE]
                          ELSE [s.call[o] EXCEPT !.master = FALSE]],
              !.chan = [o \in Ids |->
                          CASE o \in others -> [s.chan[o] EXCEPT !.fd0 = "pipe"]
                            [] o = id /\ s.call[o].ch -> [s.chan[o] EXCEPT !.fd0 = "audio"]
                            [] OTHER -> s.chan[o]]]

(* Mutant: the hangup frame is lost. *)
LoseHangup(s, id) == s

(* the channel, if there is one, is told to hang up *)
queue_hangup(s, id) == IF s.chan[id].up THEN [s EXCEPT !.chan[id].hup = TRUE] ELSE s

change_channel_state(s, id, newstate) ==
  LET old   == s.call[id].state
      ends  == newstate \in {"active", "released"}
      s1    == [s EXCEPT !.call[id].state = newstate,
                         !.chan_count[old] = @ - 1,
                         !.dialing = @ /\ ~(ends /\ old \in {"init", "dialing", "alerting"}),
                         !.ring = @ /\ ~(ends /\ old = "incoming"),
                         !.cwaiting = @ /\ ~(ends /\ old = "waiting")]
      s2    == [s1 EXCEPT !.chan_count[newstate] = @ + 1]
      freed == cpvt_free(disactivate_call(s2, id), id)
  IN  CASE newstate = old -> s
        [] newstate # old /\ newstate = "released" /\ ~s.call[id].ch -> cpvt_free(s2, id)
        [] newstate # old /\ newstate = "released" /\ s.call[id].ch ->
             queue_hangup([freed EXCEPT !.chan[id].link = FALSE], id)
        [] newstate # old /\ newstate \in {"dialing", "alerting", "active"} /\ s.call[id].ch ->
             activate_call(s2, id)
        [] newstate # old /\ newstate = "onhold" /\ s.call[id].ch -> disactivate_call(s2, id)
        [] OTHER -> s2

(* the states a new call may be started in; opts says whether others may   *)
(* be put on hold for it                                                   *)
is_dial_possible2(s, opts, ignored) ==
  /\ ~s.ring /\ ~s.cwaiting /\ ~s.dialing
  /\ \A id \in Linked(s) :
       s.call[id].state \in {"active", "onhold", "released"} \/ (s.call[id].state = "init" /\ id = ignored)
  /\ LET busy == {id \in Linked(s) : s.call[id].state \in {"active", "onhold"}}
     IN  /\ opts = "none" => busy = {}
         /\ \A a, b \in busy : s.call[a].state = s.call[b].state

(* CHLD=1x names a call and is used when there may be another one; the     *)
(* index of CHUP, which names none, only records which call was meant      *)
at_enque_hangup(s, id, idx) ==
  LET early   == id # sys /\ s.call[id].state = "init"
      named   == /\ \/ id = sys \/ s.call[id].dir = "in"
                    \/ s.call[id].state \notin {"init", "dialing"}
                 /\ s.chansno > 1
      command == Cmd(IF named THEN "CHLD_1x" ELSE "CHUP", idx)
  IN  Enque([s EXCEPT !.last = IF early THEN None ELSE @], id, <<command, Cmd("CLCC", 0)>>)

at_enque_dial(s, id) ==
  LET hold == IF s.chan_count["active"] > 0 /\ s.call[id].opts # "none"
              THEN <<Cmd("CHLD_2", 0)>> ELSE <<>>
  IN  [Enque(s, id, hold \o <<Cmd("D", 0), Cmd("CLCC", 0)>>) EXCEPT !.call[id].need = TRUE]

at_enque_answer(s, id) ==
  CASE s.call[id].state = "incoming" -> Enque(s, id, <<Cmd("A", 0)>>)
    [] s.call[id].state = "waiting" -> Enque(s, id, <<Cmd("CHLD_2x", s.call[id].idx)>>)
    [] OTHER -> s

at_enque_conference(s, id) == Enque(s, id, <<Cmd("CHLD_3", 0), Cmd("CLCC", 0)>>)

-----------------------------------------------------------------------------
Init == /\ d = [chans |-> <<>>,                       (* pvt->chans *)
                call |-> [id \in Ids |-> NoCpvt],
                chan |-> [id \in Ids |-> NoChan],
                chansno |-> 0,
                chan_count |-> [st \in States |-> 0],
                ring |-> FALSE, cwaiting |-> FALSE, dialing |-> FALSE,
                last |-> None,                        (* last_dialed_cpvt *)
                queue |-> <<>>]
        /\ executed = FALSE
        /\ inbox = <<>>
        /\ net = [i \in Idx |-> [dir |-> "out", st |-> "none"]]

-----------------------------------------------------------------------------
(* Callbacks from Asterisk.  Each may find the queue out of memory: then   *)
(* stored is FALSE and nothing is inserted.                                *)

Roomy == Len(d.queue) < MaxTasks
Quiet == UNCHANGED <<executed, inbox, net>>

(* the live channel of a call that is linked both ways *)
Attached(id) == d.chan[id].up /\ d.chan[id].link /\ d.call[id].ch

channel_request(id, opts) ==
  /\ Roomy
  /\ id \in Unused(d)
  /\ is_dial_possible2(d, opts, None)
  /\ d' = new_channel(d, id, pvt_get_pseudo_call_idx(d), "out", "init")
  /\ Quiet

channel_call(id, opts, stored) ==
  /\ Roomy
  /\ Attached(id)
  /\ d.call[id].dir = "out" /\ ~d.chan[id].used
  /\ is_dial_possible2(d, opts, id)
  /\ LET s == [d EXCEPT !.call[id].opts = opts, !.chan[id].used = TRUE]
     IN  d' = IF stored THEN at_enque_dial(s, id) ELSE s
  /\ Quiet

channel_answer(id) ==
  /\ Roomy
  /\ Attached(id)
  /\ d.call[id].dir = "in" /\ ~d.chan[id].used
  /\ d' = at_enque_answer([d EXCEPT !.chan[id].used = TRUE], id)
  /\ Quiet

(* CHANNEL(callstate)=active *)
channel_func_write(id) ==
  /\ Roomy
  /\ Attached(id)
  /\ d.call[id].state = "onhold"
  /\ d' = Enque(d, id, <<Cmd("CHLD_2x", d.call[id].idx), Cmd("CLCC", 0)>>)
  /\ Quiet

(* Mutant: the duty is dropped and no hangup queued. *)
HangupForgets(id, stored) ==
  /\ Roomy
  /\ d.chan[id].up
  /\ d' = [disactivate_call(d, id) EXCEPT !.call[id].ch = FALSE,
                                          !.call[id].need = FALSE,
                                          !.chan[id] = NoChan]
  /\ Quiet

(* local hangup, or the clean-up of a channel whose call is gone *)
channel_hangup(id, stored) ==
  LET need == d.call[id].need
      s1 == IF need /\ stored
            THEN [at_enque_hangup(d, id, d.call[id].idx) EXCEPT !.call[id].need = FALSE]
            ELSE d
      s2 == [disactivate_call(s1, id) EXCEPT !.call[id].ch = FALSE]
  IN  /\ Roomy
      /\ d.chan[id].up
      /\ stored \/ (Attached(id) /\ need)
      /\ d' = [(IF Attached(id) THEN s2 ELSE d) EXCEPT !.chan[id] = NoChan]
      /\ Quiet

-----------------------------------------------------------------------------
(* Handlers of the monitor thread.                                         *)

HeadTask == d.queue[1]
HeadCmd == Head(HeadTask.cmds)
Reading(type) == inbox # <<>> /\ Head(inbox).type = type

(* at_queue_handle_result on the head's current command *)
Advance(s, res) ==
  LET t == Head(s.queue)
  IN  [s EXCEPT !.queue = IF Len(t.cmds) = 1 \/ (res = "ERROR" /\ ~Ignorable(Head(t.cmds)))
                          THEN Tail(@)
                          ELSE <<[t EXCEPT !.cmds = Tail(@)]>> \o Tail(@)]

SetNeed(s, id, value) == IF id = sys THEN s ELSE [s EXCEPT !.call[id].need = value]

at_response_ok ==
  LET id == HeadTask.cpvt
      s  == CASE HeadCmd.cmd = "D" ->
                   SetNeed([d EXCEPT !.dialing = TRUE,
                                     !.last = IF id = sys THEN @ ELSE id], id, TRUE)
              [] HeadCmd.cmd \in {"A", "CHLD_2x"} -> SetNeed(d, id, TRUE)
              [] HeadCmd.cmd \in Hangups -> SetNeed(d, id, FALSE)
              [] OTHER -> d
  IN  /\ Reading("OK")
      /\ d' = Advance(s, "OK")
      /\ executed' = FALSE
      /\ inbox' = Tail(inbox)
      /\ UNCHANGED net

(* disconnect_dongle: every call is released and the queue flushed; the    *)
(* modem drops its calls                                                   *)
Released(s) ==
  LET after[n \in 0 .. Len(s.chans)] ==
        IF n = 0 THEN s
        ELSE change_channel_state([after[n - 1] EXCEPT !.call[s.chans[n]].need = FALSE],
                                  s.chans[n], "released")
  IN  after[Len(s.chans)]
Disconnect ==
  /\ d' = [Released(d) EXCEPT !.queue = <<>>, !.last = None,
                              !.ring = FALSE, !.cwaiting = FALSE, !.dialing = FALSE]
  /\ executed' = FALSE
  /\ inbox' = <<>>
  /\ net' = [i \in Idx |-> [dir |-> "out", st |-> "none"]]

at_response_error ==
  LET id == HeadTask.cpvt
      told == HeadCmd.cmd \in {"A", "CHLD_2x", "CHLD_3"} /\ id # sys /\ d.call[id].ch
      s == IF told THEN queue_hangup(d, id) ELSE d
  IN  /\ Reading("ERROR")
      /\ IF HeadCmd.cmd = "CLCC" THEN Disconnect
         ELSE /\ d' = Advance(s, "ERROR")
              /\ executed' = FALSE
              /\ inbox' = Tail(inbox)
              /\ UNCHANGED net

Handled(type, s) == /\ Reading(type)
                    /\ d' = s
                    /\ inbox' = Tail(inbox)
                    /\ UNCHANGED <<executed, net>>

at_response_orig ==
  LET id == d.last
      s1 == [d EXCEPT !.last = None]
      s2 == change_channel_state([s1 EXCEPT !.call[id].idx = Head(inbox).idx], id, "dialing")
  IN  Handled("ORIG", IF id = None THEN s1 ELSE request_clcc(s2))

(* Mutant: ^CEND of a call that never became active releases nothing. *)
CendOfActiveOnly ==
  LET s  == request_clcc(d)
      id == pvt_find_cpvt(d, Head(inbox).idx)
  IN  Handled("CEND", IF id = None \/ (id # None /\ d.call[id].state # "active") THEN s
                      ELSE change_channel_state([s EXCEPT !.call[id].need = FALSE], id, "released"))

at_response_cend ==
  LET s  == request_clcc(d)
      id == pvt_find_cpvt(d, Head(inbox).idx)
  IN  Handled("CEND", IF id = None THEN s
                      ELSE change_channel_state([s EXCEPT !.call[id].need = FALSE], id, "released"))

at_response_conn ==
  LET idx == Head(inbox).idx
      s1 == request_clcc([d EXCEPT !.ring = FALSE, !.dialing = FALSE, !.cwaiting = FALSE])
      id == pvt_find_cpvt(d, idx)
      s2 == change_channel_state(s1, id, "active")
  IN  Handled("CONN", CASE id = None -> at_enque_hangup(s1, sys, idx)
                        [] id # None /\ s1.call[id].opts = "conf" -> at_enque_conference(s2, id)
                        [] OTHER -> s2)

at_response_ring ==
  Handled("RING", request_clcc([d EXCEPT !.ring = TRUE, !.dialing = FALSE, !.cwaiting = FALSE]))

at_response_ccwa == Handled("CCWA", request_clcc([d EXCEPT !.cwaiting = TRUE]))

(* BUSY, NO CARRIER, NO DIALTONE are put down to the head task's call, or  *)
(* to the last one dialled.  With an empty queue the code follows a NULL   *)
(* pointer and the process ends: no step is modelled then.                 *)
at_response_busy ==
  LET id == IF HeadTask.cpvt = sys THEN d.last ELSE HeadTask.cpvt
  IN  /\ d.queue # <<>>
      /\ Handled("BUSY", IF id = None THEN d ELSE [d EXCEPT !.call[id].need = TRUE])

(* start_pbx: the channel is created and its PBX started ("ok"), or not    *)
(* created ("nochan"), or created and thrown away again ("nopbx")          *)
start_pbx(s, idx, state, how) ==
  CASE how = "nopbx" -> s
    [] how = "nochan" \/ Unused(s) = {} -> at_enque_hangup(s, sys, idx)
    [] OTHER -> LET id == CHOOSE c \in Unused(s) : TRUE
                IN  [new_channel(s, id, idx, "in", state) EXCEPT !.call[id].need = TRUE]

(* one line of +CLCC *)
ClccLine(s, l, how) ==
  LET id == pvt_find_cpvt(s, l.idx)
      new == l.dir = "in" /\ l.st \in {"incoming", "waiting"}
      s1 == CASE id # None /\ s.call[id].dir = l.dir -> change_channel_state(s, id, l.st)
              [] id = None /\ new -> start_pbx(s, l.idx, l.st, how)
              [] OTHER -> s
  IN  CASE l.st = "waiting" -> [s1 EXCEPT !.cwaiting = TRUE, !.ring = FALSE, !.dialing = FALSE]
        [] l.st \in {"dialing", "alerting"} ->
             [s1 EXCEPT !.dialing = TRUE, !.ring = FALSE, !.cwaiting = FALSE]
        [] l.st = "incoming" -> [s1 EXCEPT !.ring = TRUE, !.dialing = FALSE, !.cwaiting = FALSE]
        [] OTHER -> s1

(* The loop over the lines returns after the last one: the code that would *)
(* release the calls not listed is never reached.                          *)
AllLines(s, lines, how) ==
  LET after[n \in 0 .. Len(lines)] == IF n = 0 THEN s ELSE ClccLine(after[n - 1], lines[n], how)
  IN  after[Len(lines)]
at_response_clcc(how) == Handled("CLCC", AllLines(d, Head(inbox).lines, how))

-----------------------------------------------------------------------------
(* The modem and the network.                                              *)

Msg(type, idx) == [type |-> type, idx |-> idx, lines |-> <<>>]
OK == Msg("OK", 0)
In(states) == {i \in Idx : net[i].st \in states}
Became(from, to) ==
  [i \in Idx |-> IF i \in from THEN [net[i] EXCEPT !.st = to] ELSE net[i]]
(* what f says of the calls of the set, in the order of their indices *)
InOrder(set, f) ==
  LET upto[n \in 0 .. MaxIdx] ==
        CASE n = 0 -> <<>>
          [] n # 0 /\ n \in set -> Append(upto[n - 1], f[n])
          [] OTHER -> upto[n - 1]
  IN  upto[MaxIdx]
MsgsFor(type, set) == InOrder(set, [i \in Idx |-> Msg(type, i)])
Outcome(calls, msgs) == [net |-> calls, msgs |-> msgs]

(* a call that has no ^ORIG yet is listed as dialing *)
Listed(i) == [idx |-> i, dir |-> net[i].dir,
              st |-> IF net[i].st = "placed" THEN "dialing" ELSE net[i].st]
Lines == InOrder(Idx \ In({"none"}), [i \in Idx |-> Listed(i)])

(* hold the active calls, and take the waiting call or else the held ones *)
Swap(taken) ==
  Outcome([i \in Idx |-> CASE i \in taken -> [net[i] EXCEPT !.st = "active"]
                           [] i \in In({"active"}) \ taken -> [net[i] EXCEPT !.st = "onhold"]
                           [] OTHER -> net[i]],
          MsgsFor("CONN", taken \cap In({"waiting"})) \o <<OK>>)

(* What executing a command may do, besides failing.  A call hung up       *)
(* before its ^ORIG may end without ^CEND.                                 *)
Outcomes(c) ==
  CASE c.cmd = "D" ->
         IF In({"active", "placed", "dialing", "alerting", "incoming"}) # {} THEN {}
         ELSE {Outcome([net EXCEPT ![i] = [dir |-> "out", st |-> "placed"]], <<OK>>) :
                 i \in {j \in In({"none"}) : \A k \in In({"none"}) : j <= k}}
    [] c.cmd = "A" -> {Outcome(Became(In({"incoming"}), "active"),
                               MsgsFor("CONN", In({"incoming"})) \o <<OK>>)}
    [] c.cmd = "CHLD_2" -> {Swap(IF In({"waiting"}) # {} THEN In({"waiting"}) ELSE In({"onhold"}))}
    [] c.cmd = "CHLD_2x" -> {Swap({c.idx} \cap In({"waiting", "onhold", "active"}))}
    [] c.cmd = "CHLD_3" -> {Outcome(Became(In({"onhold"}), "active"), <<OK>>)}
    [] c.cmd \in Hangups ->
         LET gone == IF c.cmd = "CHLD_1x" THEN {c.idx} \cap (Idx \ In({"none"}))
                     ELSE In({"active", "placed", "dialing", "alerting", "incoming"})
         IN  {Outcome(Became(gone, "none"), <<OK>> \o MsgsFor("CEND", told)) :
                told \in {gone, gone \ In({"placed"})}}
    [] c.cmd = "CLCC" ->
         {Outcome(net, (IF Lines = <<>> THEN <<>>
                        ELSE <<[type |-> "CLCC", idx |-> 0, lines |-> Lines]>>) \o <<OK>>)}

ModemExecutes ==
  /\ d.queue # <<>> /\ ~executed
  /\ Len(inbox) < MaxInbox
  /\ \E o \in Outcomes(HeadCmd) \cup {Outcome(net, <<Msg("ERROR", 0)>>)} :
       /\ net' = o.net
       /\ inbox' = inbox \o o.msgs
  /\ executed' = TRUE
  /\ UNCHANGED d

Network(calls, msgs) ==
  /\ Len(inbox) < MaxInbox /\ Roomy
  /\ net' = calls
  /\ inbox' = inbox \o msgs
  /\ UNCHANGED <<d, executed>>

Originates(i) == net[i].st = "placed" /\ Network(Became({i}, "dialing"), <<Msg("ORIG", i)>>)
RemoteAlerts(i) == net[i].st = "dialing" /\ Network(Became({i}, "alerting"), <<>>)
RemoteAnswers(i) ==
  net[i].st = "alerting" /\ Network(Became({i}, "active"), <<Msg("CONN", i)>>)
RemoteEnds(i) == net[i].st # "none" /\ Network(Became({i}, "none"), <<Msg("CEND", i)>>)
RemoteBusy(i) ==
  /\ net[i].st \in {"placed", "dialing", "alerting"}
  /\ Network(Became({i}, "none"), <<Msg("BUSY", 0), Msg("CEND", i)>>)
RemoteCalls(i) ==
  /\ net[i].st = "none" /\ \A j \in 1 .. i - 1 : net[j].st # "none"
  /\ In({"incoming", "waiting"}) = {}
  /\ IF In({"none"}) = Idx
     THEN Network([net EXCEPT ![i] = [dir |-> "in", st |-> "incoming"]], <<Msg("RING", 0)>>)
     ELSE Network([net EXCEPT ![i] = [dir |-> "in", st |-> "waiting"]], <<Msg("CCWA", 0)>>)
RingsAgain(i) == net[i].st = "incoming" /\ Network(net, <<Msg("RING", 0)>>)

-----------------------------------------------------------------------------
AsteriskStep ==
  \E id \in Ids :
    \/ \E opts \in Opts : channel_request(id, opts)
    \/ \E opts \in Opts, stored \in BOOLEAN : channel_call(id, opts, stored)
    \/ channel_answer(id)
    \/ channel_func_write(id)
    \/ \E stored \in BOOLEAN : channel_hangup(id, stored)

MonitorStep ==
  \/ at_response_ok \/ at_response_error
  \/ at_response_orig \/ at_response_cend \/ at_response_conn
  \/ at_response_ring \/ at_response_ccwa \/ at_response_busy
  \/ \E how \in {"ok", "nochan", "nopbx"} : at_response_clcc(how)

ModemStep ==
  \/ ModemExecutes
  \/ \E i \in Idx : \/ Originates(i) \/ RemoteAlerts(i) \/ RemoteAnswers(i)
                    \/ RemoteEnds(i) \/ RemoteBusy(i) \/ RemoteCalls(i) \/ RingsAgain(i)

Next == AsteriskStep \/ MonitorStep \/ ModemStep \/ Disconnect

Spec == Init /\ [][Next]_vars

-----------------------------------------------------------------------------
(* Properties.                                                             *)

Cpvt == [idx : 0 .. 31, dir : {"out", "in"}, state : States, ch : BOOLEAN,
         need : BOOLEAN, act : BOOLEAN, master : BOOLEAN, opts : Opts \cup {"none"}]
Chan == [up : BOOLEAN, link : BOOLEAN, hup : BOOLEAN, used : BOOLEAN, fd0 : {"none", "audio", "pipe"}]
TypeOK ==
  /\ d.chans \in Seq(Ids)
  /\ d.call \in [Ids -> Cpvt] /\ d.chan \in [Ids -> Chan]
  /\ d.chansno \in Nat /\ d.chan_count \in [States -> Nat]
  /\ {d.ring, d.cwaiting, d.dialing, executed} \subseteq BOOLEAN
  /\ d.last \in Ids \cup {None}
  /\ \A i \in DOMAIN d.queue : d.queue[i].cpvt \in Ids \cup {sys} /\ d.queue[i].cmds # <<>>

(* No pointer outlives the call it points to: not pvt->last_dialed_cpvt,   *)
(* not the cpvt of a queued task, not a channel's tech_pvt (whose call     *)
(* points back).  cpvt_free, change_channel_state, channel_hangup.         *)
NoDangling ==
  /\ d.last \in Linked(d) \cup {None}
  /\ \A i \in DOMAIN d.queue : d.queue[i].cpvt \in Linked(d) \cup {sys}
  /\ \A id \in Ids : d.chan[id].link <=> (id \in Linked(d) /\ d.call[id].ch)

(* chansno and chan_count, by which dialling and hanging up are decided    *)
(* and which the manager shows, count the calls of the list.               *)
CountsMatch ==
  /\ d.chansno = Len(d.chans)
  /\ \A i, j \in DOMAIN d.chans : d.chans[i] = d.chans[j] => i = j
  /\ \A st \in States :
       d.chan_count[st] = Cardinality({id \in Linked(d) : d.call[id].state = st})

(* At most one call is master and its channel reads the audio port; a      *)
(* channel that reads the audio port has a call with sound: not one held,  *)
(* ringing or still to be dialled.  A channel that Asterisk writes for has *)
(* its stream in the mixing buffer.  activate_call, disactivate_call.      *)
AudioOnlyInCall ==
  /\ \A a, b \in Linked(d) : d.call[a].master /\ d.call[b].master => a = b
  /\ \A id \in Ids : d.call[id].master => d.chan[id].fd0 = "audio"
  /\ \A id \in Ids : d.chan[id].fd0 = "audio" => d.call[id].act
  /\ \A id \in Ids : d.call[id].act =>
       d.call[id].ch /\ d.call[id].state \in {"active", "dialing", "alerting"}
  /\ \A id \in Linked(d) : d.call[id].ch /\ d.call[id].state = "active" => d.call[id].act

(* A channel whose call ended has been told to hang up. *)
OrphanTold == \A id \in Ids : d.chan[id].up /\ ~d.chan[id].link => d.chan[id].hup

(* Whatever ended an incoming call, and on whichever side, the driver will *)
(* hear of it: one the modem no longer has has its ^CEND on the way, so    *)
(* that its channel is told and its structure released.                    *)
EndAnnounced ==
  \A id \in Linked(d) :
    d.call[id].dir = "in" /\ net[d.call[id].idx].st = "none"
    => \E i \in DOMAIN inbox : inbox[i] = Msg("CEND", d.call[id].idx)

(* The duty to hang a call up is given up only for a hangup command, one   *)
(* queued or one the modem executed, or with the call.                     *)
HangupKept ==
  [][\A id \in Ids :
       d.call[id].need /\ ~d'.call[id].need /\ id \in Linked(d')
         => \/ \E i \in DOMAIN d'.queue :
                 d'.queue[i].cpvt = id /\ Head(d'.queue[i].cmds).cmd \in Hangups
            \/ executed /\ HeadTask.cpvt = id /\ HeadCmd.cmd \in Hangups]_vars

(* A call is reported answered only if it was dialled: its number is the   *)
(* device's own, and not one made up for the time before ^ORIG.            *)
AnsweredWasDialled ==
  \A id \in Linked(d) : d.call[id].ch /\ d.call[id].state = "active" => d.call[id].need

(* A call hung up before its ATD was executed is hung up after it: what is *)
(* dialled without a channel has a hangup waiting behind.                  *)
NoGhostDial ==
  LET id == HeadTask.cpvt
  IN  d.queue # <<>> /\ HeadCmd.cmd = "D" /\ ~executed
        /\ id # sys /\ ~d.call[id].ch /\ ~d.call[id].need
    => \E i \in 2 .. Len(d.queue) : Head(d.queue[i].cmds).cmd \in Hangups

(* Only the master's channel reads the audio port. *)
MasterOwnsAudio == \A id \in Ids : d.chan[id].fd0 = "audio" => d.call[id].master

(* With everything handled, ring, cwaiting and dialing tell what the modem *)
(* is doing.                                                               *)
FlagsHonest ==
  d.queue = <<>> /\ inbox = <<>> =>
    /\ d.ring => In({"incoming"}) # {}
    /\ d.cwaiting => In({"waiting"}) # {}
    /\ d.dialing => In({"placed", "dialing", "alerting"}) # {}

(* A call that has lost its channel and is not in the list the modem gives *)
(* is released when that list is handled.                                  *)
DeadReleased ==
  [][inbox # <<>> /\ Head(inbox).type = "CLCC" /\ inbox' = Tail(inbox)
       => \A id \in Linked(d') :
            \/ d'.call[id].ch
            \/ \E i \in DOMAIN Head(inbox).lines : Head(inbox).lines[i].idx = d'.call[id].idx]_vars

(* Rejecting a call ends that call and no other. *)
RejectsOnlyIt ==
  [][ModemExecutes /\ HeadCmd.cmd \in Hangups /\ HeadTask.cpvt = sys
       => \A i \in Idx : net'[i].st = net[i].st \/ i = HeadCmd.idx]_vars
=============================================================================
