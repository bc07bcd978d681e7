------------------------------- MODULE AtSerial -------------------------------
(***************************************************************************)
(* What the command queue promises its clients, without saying how: the    *)
(* modem is given one command at a time, a task that has begun keeps the   *)
(* modem until it ends, and nothing but an answer, a failed write or the   *)
(* loss of the connection takes the modem away from a command.             *)
(***************************************************************************)
EXTENDS Naturals

CONSTANTS Ids,   (* tasks *)
          None   (* no task, not one of Ids *)

VARIABLES
  waiting,   (* tasks accepted and not begun                                *)
  running,   (* the task that owns the modem                                *)
  step,      (* its current command                                         *)
  phase      (* "unsent", "busy" on the modem, or "answered"                *)

svars == <<waiting, running, step, phase>>

SerialInit == waiting = {} /\ running = None /\ step = 0 /\ phase = "unsent"

(* a task is accepted while another one owns the modem *)
Submit(id) ==
  /\ running # None
  /\ id \notin waiting \cup {running}
  /\ waiting' = waiting \cup {id}
  /\ UNCHANGED <<running, step, phase>>

Answer == phase = "busy" /\ phase' = "answered" /\ UNCHANGED <<waiting, running, step>>

(* a result that cannot end the command is thrown away *)
Discard == phase = "answered" /\ phase' = "busy" /\ UNCHANGED <<waiting, running, step>>

(* The modem is free: the running task goes on to a later command or ends, *)
(* and then a task that waited, or was just accepted, takes over.          *)
Fresh == {{}} \cup {{id} : id \in Ids \ (waiting \cup {running})}
Continue(new) ==
  /\ running # None
  /\ running' = running
  /\ waiting' = waiting \cup new
  /\ \/ step' > step
     \/ phase = "unsent" /\ step' = step
(* with its first command, or its second when writing the first one failed *)
TakeOver(new) ==
  /\ running' \in waiting \cup new
  /\ waiting' = (waiting \cup new) \ {running'}
  /\ step' \in {0, 1}
GoIdle == running' = None /\ waiting = {} /\ waiting' = {} /\ step' = 0

Advance ==
  /\ phase \in {"unsent", "answered"}
  /\ \E new \in Fresh : \/ Continue(new) /\ phase' \in {"unsent", "busy"}
                        \/ TakeOver(new) /\ phase' \in {"unsent", "busy"}
                        \/ GoIdle /\ phase' = "unsent"

Lost == /\ waiting' = {} /\ running' = None /\ step' = 0 /\ phase' = "unsent"

SerialNext == (\E id \in Ids : Submit(id)) \/ Answer \/ Discard \/ Advance \/ Lost

SerialSpec == SerialInit /\ [][SerialNext]_svars
=============================================================================
