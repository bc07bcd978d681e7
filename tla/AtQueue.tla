------------------------------- MODULE AtQueue -------------------------------
(***************************************************************************)
(* The AT command queue of the dongle driver (at_queue.c), the part of the *)
(* monitor thread that drives it (chan_dongle.c: do_monitor_phone) and the *)
(* modem at the other end of the data port.                                *)
(*                                                                         *)
(* A task is a list of AT commands that must be executed one after the     *)
(* other.  Tasks wait in pvt->at_queue; only the current command of the    *)
(* first task may be on the wire.  Channel threads, the CLI and the        *)
(* monitor all insert tasks, each under pvt->lock, so one insertion and    *)
(* one handled result are each one step.                                   *)
(***************************************************************************)
EXTENDS Integers, Sequences, FiniteSets

CONSTANTS
  Ids,         (* names of the task structures that may be allocated        *)
  Scripts,     (* command lists the clients of the queue insert             *)
  InitScript,  (* the list of at_enque_initialization                       *)
  PingScript,  (* the list of at_enque_ping                                 *)
  MaxInbox,    (* bound: results waiting to be read                         *)
  None         (* no task                                                   *)

(* The results that may end a command; RES_CMS_ERROR is handled as ERROR. *)
Results == {"OK", "CMGR", "PROMPT", "ERROR"}

(* at_queue_cmd_t: the expected response and ATQ_CMD_FLAG_IGNORE *)
Cmd == [res : {"OK", "CMGR", "PROMPT"}, ignore : BOOLEAN]

AllScripts == Scripts \cup {InitScript, PingScript}

ASSUME ScriptAssumption ==
  /\ AllScripts \subseteq Seq(Cmd)
  /\ \A c \in AllScripts : c # <<>>
ASSUME IdsAssumption == None \notin Ids
ASSUME InboxAssumption == MaxInbox \in Nat \ {0}

(* at_queue_task_t.  The commands after cindex were never written and the  *)
(* ones before it are done, so one flag says whether data of the current   *)
(* command was written out (its length is then 0).                         *)
Task == [id : Ids, cmds : AllScripts, cindex : Nat, sent : BOOLEAN]

(* A command on the wire is known by its task and its index; a result that *)
(* answers no command is Unsolicited.                                      *)
Key == Ids \X Nat
Unsolicited == <<"urc">>
Message == [to : Key \cup {Unsolicited}, res : Results]

VARIABLES
  at,        (* queue, at_tasks, at_cmds and the driver's side of the port  *)
  inbox,     (* results the modem sent and the monitor has not handled      *)
  monitor,   (* where the monitor thread is                                 *)
  fetched,   (* complete results the last at_read left in the ring buffer   *)
  refused    (* history: tasks whose insertion was reported as failed       *)

vars == <<at, inbox, monitor, fetched, refused>>

NewTask(id, cmds) == [id |-> id, cmds |-> cmds, cindex |-> 0, sent |-> FALSE]
CurrentKey(t) == <<t.id, t.cindex>>
CurrentCmd(t) == t.cmds[t.cindex + 1]

(* a port just opened: nothing queued, nothing written *)
EmptyQueue == [queue |-> <<>>, at_tasks |-> 0, at_cmds |-> 0,
               line |-> <<>>, expired |-> FALSE, werr |-> FALSE]

QueuedIds == {at.queue[i].id : i \in DOMAIN at.queue}
Waiting(s) == s.queue # <<>> /\ ~Head(s.queue).sent
InFlight(s) == s.queue # <<>> /\ Head(s.queue).sent

-----------------------------------------------------------------------------
(* The operations of at_queue.c on the driver's record s.                  *)

(* Mutants are used only to show that the properties notice.  This one: a  *)
(* priority task that takes the head's place.                              *)
AddInFront(s, t, prio) ==
  [s EXCEPT !.queue = IF prio THEN <<t>> \o @ ELSE Append(@, t),
            !.at_tasks = @ + 1,
            !.at_cmds = @ + Len(t.cmds)]

(* a priority task goes behind the head, whose command may be on the wire *)
at_queue_add(s, t, prio) ==
  [s EXCEPT !.queue = IF prio /\ @ # <<>>
                      THEN <<Head(@), t>> \o Tail(@)
                      ELSE Append(@, t),
            !.at_tasks = @ + 1,
            !.at_cmds = @ + Len(t.cmds)]

(* Mutant: all the task's commands are subtracted, the done ones too. *)
RemoveWhole(s) ==
  [s EXCEPT !.queue = Tail(@), !.at_tasks = @ - 1,
            !.at_cmds = @ - Len(Head(s.queue).cmds)]

(* the first task leaves; at_cmds loses the commands it still had *)
at_queue_remove(s) ==
  [s EXCEPT !.queue = Tail(@),
            !.at_tasks = @ - 1,
            !.at_cmds = @ - (Len(Head(s.queue).cmds) - Head(s.queue).cindex)]

(* Mutants: the result is not compared with the one expected; a task with  *)
(* commands left goes to the end of the queue.                             *)
RemoveCmdAnyResult(s, res) ==
  LET t == Head(s.queue)
      s1 == [s EXCEPT !.queue = <<[t EXCEPT !.cindex = @ + 1, !.sent = FALSE]>> \o Tail(@),
                      !.at_cmds = @ - 1, !.expired = FALSE]
  IN  IF t.cindex + 1 >= Len(t.cmds) THEN at_queue_remove(s1) ELSE s1
RemoveCmdRotate(s, res) ==
  LET t == Head(s.queue)
      next == [t EXCEPT !.cindex = @ + 1, !.sent = FALSE]
  IN  IF next.cindex >= Len(t.cmds)
      THEN [s EXCEPT !.queue = Tail(@), !.at_tasks = @ - 1, !.at_cmds = @ - 1]
      ELSE [s EXCEPT !.queue = Append(Tail(@), next), !.at_cmds = @ - 1]

(* the current command is done; the task goes on unless it was the last    *)
(* command, or a mandatory one that did not get the result it expects      *)
at_queue_remove_cmd(s, res) ==
  LET t    == Head(s.queue)
      next == [t EXCEPT !.cindex = @ + 1, !.sent = FALSE]
      s1   == [s EXCEPT !.queue = <<next>> \o Tail(@),
                        !.at_cmds = @ - 1,
                        !.expired = FALSE]
  IN  IF \/ next.cindex >= Len(t.cmds)
         \/ CurrentCmd(t).res # res /\ ~CurrentCmd(t).ignore
      THEN at_queue_remove(s1)
      ELSE s1

(* write the head command if it was not written yet; when write() fails    *)
(* the command is removed as if it had got a wrong result                  *)
at_queue_run(s, writeOk) ==
  IF ~Waiting(s) THEN s
  ELSE IF writeOk
  THEN [s EXCEPT !.queue = <<[Head(@) EXCEPT !.sent = TRUE]>> \o Tail(@),
                 !.line = Append(@, CurrentKey(Head(s.queue))),
                 !.expired = FALSE]
  ELSE [at_queue_remove_cmd(s, "WRITE_ERROR") EXCEPT !.werr = TRUE]

RunFails(s, writeOk) == Waiting(s) /\ ~writeOk

(* at_queue_timeout: the time left of the head command's timer if it is on *)
(* the wire.  The value is negative for no timer and for one that already  *)
(* ran out alike, and the monitor then waits pvt->timeout.                 *)
at_queue_timeout(s) == IF InFlight(s) /\ ~s.expired THEN "cmd" ELSE "idle"

-----------------------------------------------------------------------------
Init == /\ at = EmptyQueue
        /\ inbox = <<>>
        /\ monitor = "down"
        /\ fetched = 0
        /\ refused = {}

(* disconnect_dongle: the queue is flushed and the port closed *)
Disconnected == /\ at' = EmptyQueue
                /\ inbox' = <<>>
                /\ monitor' = "down"
                /\ fetched' = 0
                /\ refused' = {}

(* start_monitor and the head of do_monitor_phone: pending input is        *)
(* dropped and the initialization task queued; a write error ends it.      *)
Connect(id, writeOk) ==
  LET s == at_queue_add(EmptyQueue, NewTask(id, InitScript), FALSE)
  IN  /\ monitor = "down"
      /\ ~RunFails(s, writeOk)
      /\ at' = at_queue_run(s, writeOk)
      /\ inbox' = <<>>
      /\ monitor' = "top"
      /\ fetched' = 0
      /\ UNCHANGED refused

(* at_queue_insert_task called by a thread that holds pvt->lock.  A failed *)
(* allocation still runs the queue, and a failed write is reported to the  *)
(* caller whatever task it hit.                                            *)
Insert(id, cmds, prio, stored, writeOk) ==
  LET s == IF stored THEN at_queue_add(at, NewTask(id, cmds), prio) ELSE at
  IN  /\ monitor # "down"
      /\ id \notin QueuedIds
      /\ at' = at_queue_run(s, writeOk)
      /\ refused' = IF RunFails(s, writeOk)
                    THEN refused \cup {id} ELSE refused \ {id}
      /\ UNCHANGED <<inbox, monitor, fetched>>

-----------------------------------------------------------------------------
(* The monitor thread.                                                     *)

(* top of the loop: port_status fails or a stop was requested *)
MonitorQuits == monitor = "top" /\ Disconnected

(* top of the loop: choose how long at_wait may last, release the lock *)
MonitorWaits == /\ monitor = "top"
                /\ monitor' = at_queue_timeout(at)
                /\ UNCHANGED <<at, inbox, fetched, refused>>

(* at_wait reports input, at_read fetches it *)
MonitorReads == /\ monitor \in {"cmd", "idle"}
                /\ inbox # <<>>
                /\ monitor' = "read"
                /\ fetched' = Len(inbox)
                /\ UNCHANGED <<at, inbox, refused>>

(* at_wait may have run out *)
TimerFired == (monitor = "cmd" /\ at.expired) \/ monitor = "idle"

(* Mutants: a timeout drops the task and goes on, or is not acted on. *)
TimeoutDropsTask ==
  /\ TimerFired /\ inbox = <<>> /\ at.queue # <<>>
  /\ at' = at_queue_run([at_queue_remove(at) EXCEPT !.expired = FALSE], TRUE)
  /\ monitor' = "top"
  /\ UNCHANGED <<inbox, fetched, refused>>
TimeoutIgnored ==
  /\ TimerFired /\ inbox = <<>> /\ at.queue # <<>>
  /\ monitor' = "top"
  /\ UNCHANGED <<at, inbox, fetched, refused>>

(* at_wait runs out: anything in the queue means the modem is lost *)
MonitorTimesOut == /\ TimerFired
                   /\ inbox = <<>>
                   /\ at.queue # <<>>
                   /\ Disconnected

(* at_wait runs out with an empty queue: at_enque_ping, priority 1 *)
MonitorPings(id, writeOk) ==
  LET s == at_queue_add(at, NewTask(id, PingScript), TRUE)
  IN  /\ TimerFired
      /\ inbox = <<>>
      /\ at.queue = <<>>
      /\ at' = at_queue_run(s, writeOk)
      /\ monitor' = "top"
      /\ refused' = refused \ {id}
      /\ UNCHANGED <<inbox, fetched>>

(* readv fails *)
MonitorReadFails == monitor = "read" /\ Disconnected

(* no complete result left in the buffer *)
MonitorReadDone == /\ monitor = "read" /\ fetched = 0
                   /\ monitor' = "top"
                   /\ UNCHANGED <<at, inbox, fetched, refused>>

(* at_response_ok, _error, _sms_prompt and _cmgr move the queue only when  *)
(* the head command may have that result, and ignore it otherwise          *)
Accepts(t, res) ==
  \/ res = "ERROR"
  \/ res = "OK" /\ CurrentCmd(t).res \in {"OK", "CMGR"}
  \/ res \in {"PROMPT", "CMGR"} /\ CurrentCmd(t).res = res

HandleResult(s, m) ==
  IF m.to # Unsolicited /\ s.queue # <<>> /\ Accepts(Head(s.queue), m.res)
  THEN at_queue_remove_cmd(s, m.res) ELSE s

(* Mutant: the queue is not run after a result. *)
FinishNoRun(s, fresh, fatal, writeOk) ==
  IF fatal \/ RunFails(s, writeOk)
  THEN Disconnected
  ELSE /\ at' = s
       /\ inbox' = Tail(inbox)
       /\ fetched' = fetched - 1
       /\ refused' = refused \ fresh
       /\ UNCHANGED monitor

(* the rest of one turn of the loop over results: at_queue_run, and the    *)
(* way out when the handler or the write failed                            *)
FinishResult(s, fresh, fatal, writeOk) ==
  IF fatal \/ RunFails(s, writeOk)
  THEN Disconnected
  ELSE /\ at' = at_queue_run(s, writeOk)
       /\ inbox' = Tail(inbox)
       /\ fetched' = fetched - 1
       /\ refused' = refused \ fresh
       /\ UNCHANGED monitor

Handling == monitor = "read" /\ fetched > 0

(* a final result; handlers of critical commands ask for a disconnect *)
HandleFinal(fatal, writeOk) ==
  /\ Handling
  /\ Head(inbox).to # Unsolicited
  /\ fatal => Head(inbox).res = "ERROR"
  /\ FinishResult(HandleResult(at, Head(inbox)), {}, fatal, writeOk)

(* at_response_error continues the initialization in another task, queued  *)
(* before the failed command is removed                                    *)
HandleErrorRequeue(id, cmds, writeOk) ==
  /\ Handling
  /\ Head(inbox).to # Unsolicited /\ Head(inbox).res = "ERROR"
  /\ InFlight(at)
  /\ id \notin QueuedIds
  /\ FinishResult(HandleResult(at_queue_add(at, NewTask(id, cmds), FALSE),
                               Head(inbox)), {id}, FALSE, writeOk)

(* an unsolicited result; a handler may insert a task of its own (CLCC     *)
(* after RING, CMGR after CMTI ...), and may fail on a parse error         *)
HandleUnsolicited(fatal, writeOk) ==
  /\ Handling
  /\ Head(inbox).to = Unsolicited
  /\ FinishResult(at, {}, fatal, writeOk)

HandleUnsolicitedInsert(id, cmds, prio, w1, w2) ==
  LET s == at_queue_add(at, NewTask(id, cmds), prio)
  IN  /\ Handling
      /\ Head(inbox).to = Unsolicited
      /\ id \notin QueuedIds
      /\ FinishResult(at_queue_run(s, w1), IF RunFails(s, w1) THEN {} ELSE {id}, FALSE, w2)

-----------------------------------------------------------------------------
(* The modem and the clock.                                                *)

(* The modem executes the oldest command it was sent.  It gives the        *)
(* expected result, a bare OK (an empty SMS slot read with CMGR) or ERROR. *)
ModemAnswers(res) ==
  LET k == Head(at.line)
  IN  /\ at.line # <<>> /\ Len(inbox) < MaxInbox
      /\ \E i \in DOMAIN at.queue :
           /\ at.queue[i].id = k[1]
           /\ res \in {at.queue[i].cmds[k[2] + 1].res, "OK", "ERROR"}
      /\ inbox' = Append(inbox, [to |-> k, res |-> res])
      /\ at' = [at EXCEPT !.line = Tail(@)]
      /\ UNCHANGED <<monitor, fetched, refused>>

ModemReports == /\ monitor # "down" /\ Len(inbox) < MaxInbox
                /\ inbox' = Append(inbox, [to |-> Unsolicited, res |-> "OK"])
                /\ UNCHANGED <<at, monitor, fetched, refused>>

(* the time the head command was given is over *)
TimerExpires == /\ InFlight(at) /\ ~at.expired
                /\ at' = [at EXCEPT !.expired = TRUE]
                /\ UNCHANGED <<inbox, monitor, fetched, refused>>

-----------------------------------------------------------------------------
MonitorStep ==
  \/ MonitorQuits \/ MonitorWaits \/ MonitorReads \/ MonitorTimesOut
  \/ MonitorReadFails \/ MonitorReadDone
  \/ \E w \in BOOLEAN :
       \/ \E id \in Ids : MonitorPings(id, w)
       \/ \E fatal \in BOOLEAN : HandleFinal(fatal, w)
       \/ \E fatal \in BOOLEAN : HandleUnsolicited(fatal, w)
       \/ \E id \in Ids, cmds \in Scripts :
            \/ HandleErrorRequeue(id, cmds, w)
            \/ \E prio, w1 \in BOOLEAN :
                 HandleUnsolicitedInsert(id, cmds, prio, w1, w)

Next ==
  \/ \E id \in Ids, w \in BOOLEAN : Connect(id, w)
  \/ \E id \in Ids, cmds \in Scripts, prio, stored, w \in BOOLEAN :
       Insert(id, cmds, prio, stored, w)
  \/ MonitorStep
  \/ \E res \in Results : ModemAnswers(res)
  \/ ModemReports
  \/ TimerExpires

Spec == Init /\ [][Next]_vars

(* The monitor is a thread that never blocks for ever outside at_wait, and *)
(* time passes.  Nothing is assumed of the modem, the clients, or of the   *)
(* errors that end a connection.                                           *)
HandleStep == \E w, fatal \in BOOLEAN :
                HandleFinal(fatal, w) \/ HandleUnsolicited(fatal, w)
PingStep == \E id \in Ids, w \in BOOLEAN : MonitorPings(id, w)
Fairness == /\ WF_vars(MonitorWaits) /\ WF_vars(MonitorReads)
            /\ WF_vars(MonitorTimesOut) /\ WF_vars(PingStep)
            /\ WF_vars(HandleStep)
            /\ WF_vars(MonitorReadDone)
            /\ WF_vars(TimerExpires)
FairSpec == Spec /\ Fairness

-----------------------------------------------------------------------------
(* Properties.                                                             *)

AtState == [queue : Seq(Task), at_tasks : Nat, at_cmds : Int,
            line : Seq(Key), expired : BOOLEAN, werr : BOOLEAN]
TypeOK ==
  /\ at \in AtState
  /\ inbox \in Seq(Message)
  /\ monitor \in {"down", "top", "cmd", "idle", "read"}
  /\ fetched \in 0 .. Len(inbox)
  /\ refused \subseteq Ids

(* Only the first task may have a command on the wire: a priority task     *)
(* (hangup, DTMF, dial) inserted while a command is in flight never takes  *)
(* its place.  at_queue_add, at_queue_run.                                 *)
OnlyHeadSent == \A i \in 2 .. Len(at.queue) : ~at.queue[i].sent

(* What is on its way back answers the head's current command, and there   *)
(* is at most one such thing, on the line or in the read buffer: so a      *)
(* result is always given to the command that caused it.                   *)
Finals == {i \in DOMAIN inbox : inbox[i].to # Unsolicited}
ResultsMatchHead ==
  /\ \A i \in DOMAIN at.line : InFlight(at) /\ at.line[i] = CurrentKey(Head(at.queue))
  /\ \A i \in Finals : InFlight(at) /\ inbox[i].to = CurrentKey(Head(at.queue))
  /\ Len(at.line) <= 1
  /\ \A i, j \in Finals : i = j
  /\ at.line = <<>> \/ Finals = {}

(* the work a task still holds is never empty: cmds[cindex] exists *)
CurrentExists == \A i \in DOMAIN at.queue : at.queue[i].cindex < Len(at.queue[i].cmds)

SerialInv == OnlyHeadSent /\ ResultsMatchHead /\ CurrentExists

(* PVT_STATE at_tasks and at_cmds, which the manager and the CLI show, are *)
(* the number of tasks and of commands not yet done, through every way a   *)
(* task may end.                                                           *)
CmdsLeft[n \in 0 .. Len(at.queue)] ==
  IF n = 0 THEN 0
  ELSE CmdsLeft[n - 1] + Len(at.queue[n].cmds) - at.queue[n].cindex
TasksCounted == at.at_tasks = Len(at.queue)
CmdsCounted == at.at_cmds = CmdsLeft[Len(at.queue)]
CountersMatch == TasksCounted /\ CmdsCounted

(* Whenever the lock is free, a non-empty queue has a command in flight;   *)
(* the one exception is a queue on which a write failed.                   *)
NeverIdleWithWork == Waiting(at) => at.werr

(* Tasks are served in the order they stand: a step may drop the first     *)
(* ones and put new ones in, and never swaps two that were waiting.        *)
Before(q, a, b) == \E i, j \in DOMAIN q : i < j /\ q[i].id = a /\ q[j].id = b
OrderKept ==
  [][\A a, b \in Ids : Before(at.queue, a, b) => ~Before(at'.queue, b, a)]_vars

(* No command of a task is written after a mandatory one before it failed, *)
(* and none is skipped while the one before it waits for its answer: the   *)
(* step that advances a task consumes a result of its current command or   *)
(* follows a failed write.                                                 *)
AdvanceNeedsResult ==
  [][\A i \in DOMAIN at.queue, j \in DOMAIN at'.queue :
       LET t == at.queue[i]  u == at'.queue[j]
       IN  (t.id = u.id /\ u.cindex > t.cindex)
           => \/ ~t.sent /\ at'.werr
              \/ /\ inbox # <<>> /\ Head(inbox).to = CurrentKey(t)
                 /\ \/ CurrentCmd(t).res = Head(inbox).res
                    \/ CurrentCmd(t).ignore]_vars

(* The connection is given up for a timeout only when the command in       *)
(* flight has used the time it was given.                                  *)
TimeoutIsOwn ==
  [][(MonitorTimesOut /\ InFlight(at)) => at.expired]_vars

(* A task whose insertion was reported to the caller as failed is never    *)
(* written to the modem afterwards.                                        *)
RefusedNotWritten == \A i \in DOMAIN at.line : at.line[i][1] \notin refused

(* The queue keeps the promise of AtSerial: one command at a time, tasks   *)
(* uninterrupted, commands abandoned only for an answer, a failed write or *)
(* a lost connection.                                                      *)
AnswerPending == \E i \in DOMAIN inbox : inbox[i].to # Unsolicited
RunningTask == IF at.queue = <<>> THEN None ELSE Head(at.queue).id
CurrentStep == IF at.queue = <<>> THEN 0 ELSE Head(at.queue).cindex
Phase == CASE ~InFlight(at) -> "unsent"
           [] InFlight(at) /\ ~AnswerPending -> "busy"
           [] InFlight(at) /\ AnswerPending -> "answered"
Serial == INSTANCE AtSerial
            WITH waiting <- {at.queue[i].id : i \in 2 .. Len(at.queue)},
                 running <- RunningTask, step <- CurrentStep, phase <- Phase
SerialPromise == Serial!SerialSpec

(* A command in flight does not stay there: it is answered or the          *)
(* connection is given up, whatever the modem does ...                     *)
HeadInFlight(id, n) == InFlight(at) /\ CurrentKey(Head(at.queue)) = <<id, n>>
MaxCmds == 0 .. 2
HeadResolves == \A id \in Ids, n \in MaxCmds : HeadInFlight(id, n) ~> ~HeadInFlight(id, n)

(* ... as long as the modem is not chattering for ever. *)
HeadResolvesWhenQuiet == <>[][~ModemReports]_vars => HeadResolves
=============================================================================
