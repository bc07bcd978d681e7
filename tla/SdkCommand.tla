----------------------------- MODULE SdkCommand -----------------------------
(***************************************************************************)
(* simbox_at_command of simbox_modem.c: a call of the SDK that puts an AT  *)
(* command into the queue of the driver and waits for the lines of its     *)
(* answer.  The monitor thread captures every line that answers a user's   *)
(* command; the lines carry no mark of the command they belong to.         *)
(***************************************************************************)
EXTENDS Integers, Sequences, Functions

CONSTANTS
  Callers,   (* the threads that call simbox_at_command                     *)
  Listener,  (* the one of them that calls from an event callback, or NULL: *)
             (* a callback runs on the monitor thread                       *)
  Sizes,     (* the lengths of response_buf                                 *)
  LineLens,  (* the lengths of the lines of an answer                       *)
  MaxAsked,  (* bound: calls of simbox_at_command                           *)
  MaxLines,  (* bound: lines of an answer before its result                 *)
  NULL

ASSUME SizesAssumption == Sizes \subseteq Nat \ {0} /\ LineLens \subseteq Nat
ASSUME NullAssumption == NULL \notin Callers
ASSUME AskedAssumption == MaxAsked \in Nat /\ MaxLines \in Nat

VARIABLES
  resp,    (* at_response_...: pending, complete, result, buf, size, and    *)
           (* the commands whose lines, and the characters, are in buf      *)
  caller,  (* where every caller is, with its command and its last answer   *)
  queue,   (* the user's commands the driver has not got the answer to      *)
  line,    (* a line the monitor has logged but not captured yet, or NULL   *)
  asked,   (* commands so far                                               *)
  given_up (* history: the commands whose caller did not wait for the end   *)

commandVars == <<resp, caller, queue, line, asked, given_up>>

NoResp == [pending |-> FALSE, complete |-> FALSE, result |-> -1, buf |-> NULL,
           size |-> 0, lines |-> <<>>, used |-> 0]
Outside == [pc |-> "out", cmd |-> 0, answer |-> <<>>]

CommandInit(used) ==
  /\ resp = NoResp
  /\ caller = [c \in Callers |-> Outside]
  /\ queue = <<>>
  /\ line = NULL
  /\ asked = used
  /\ given_up = {}

-----------------------------------------------------------------------------
(* The caller.  One call at a time: the others are refused.                *)
Registered(c, n) ==
  /\ resp' = [NoResp EXCEPT !.pending = TRUE, !.buf = c, !.size = n]
  /\ caller' = [caller EXCEPT ![c] = [pc |-> "enqueue", cmd |-> asked', answer |-> <<>>]]

BadAtBegin(c) == (* does not refuse *)
  /\ caller[c].pc = "out" /\ asked < MaxAsked
  /\ asked' = asked + 1
  /\ \E n \in Sizes : Registered(c, n)
  /\ UNCHANGED <<queue, line, given_up>>

AtBegin(c) ==
  /\ caller[c].pc = "out" /\ asked < MaxAsked
  /\ asked' = asked + 1
  /\ IF resp.pending THEN UNCHANGED <<resp, caller>> ELSE \E n \in Sizes : Registered(c, n)
  /\ UNCHANGED <<queue, line, given_up>>

AtEnqueue(c) ==
  /\ caller[c].pc = "enqueue"
  /\ queue' = Append(queue, caller[c].cmd)
  /\ caller' = [caller EXCEPT ![c].pc = "wait"]
  /\ UNCHANGED <<resp, line, asked, given_up>>

(* the driver does not take it: the buffer is let go                       *)
AtRefused(c) ==
  /\ caller[c].pc = "enqueue"
  /\ resp' = [resp EXCEPT !.pending = FALSE, !.buf = NULL, !.size = 0]
  /\ caller' = [caller EXCEPT ![c] = Outside]
  /\ UNCHANGED <<queue, line, asked, given_up>>

AtReset == [resp EXCEPT !.pending = FALSE, !.complete = FALSE, !.buf = NULL, !.size = 0]

AtComplete(c) ==
  /\ caller[c].pc = "wait" /\ resp.complete
  /\ resp' = AtReset
  /\ caller' = [caller EXCEPT ![c].pc = "out", ![c].answer = resp.lines]
  /\ UNCHANGED <<queue, line, asked, given_up>>

GiveUp(c) ==
  /\ caller[c].pc = "wait" /\ ~resp.complete
  /\ caller' = [caller EXCEPT ![c] = Outside]
  /\ given_up' = given_up \cup {caller[c].cmd}
  /\ UNCHANGED <<queue, line, asked>>

BadAtTimeout(c) == (* waits on when the command is gone *)
  caller[c].cmd \in Range(queue) /\ GiveUp(c) /\ resp' = AtReset

LateAtTimeout(c) == (* leaves the buffer registered *)
  GiveUp(c) /\ UNCHANGED resp

(* three seconds have passed                                               *)
AtTimeout(c) == GiveUp(c) /\ resp' = AtReset

-----------------------------------------------------------------------------
(* simbox_device_capture_at_response: a line break between two lines and   *)
(* as much as fits, with room for the terminating zero                     *)

Break(used, size) ==
  IF used = 0 \/ size - used <= 1 THEN 0
  ELSE IF size - used > 2 THEN 2 ELSE 1

Filled(used, size, len) ==
  LET room == size - used - Break(used, size)
      copied == IF room <= 1 THEN 0 ELSE IF len < room - 1 THEN len ELSE room - 1
  IN  used + Break(used, size) + copied

Captures == resp.pending /\ resp.buf # NULL /\ resp.size # 0

simbox_device_capture_at_response ==
  resp' = IF ~Captures THEN resp
          ELSE [resp EXCEPT !.lines = Append(@, line.cmd),
                            !.used = Filled(@, resp.size, line.len),
                            !.complete = @ \/ line.terminal,
                            !.result = IF ~line.terminal THEN @ ELSE IF line.ok THEN 0 ELSE -1]

(* The monitor thread.  A callback that sends a command keeps it busy.     *)
MonitorFree == line = NULL /\ (Listener \in Callers => caller[Listener].pc = "out")

Logged(len, terminal, ok) ==
  line' = [cmd |-> Head(queue), len |-> len, terminal |-> terminal, ok |-> ok]

(* a line between the command and its result                               *)
Line ==
  /\ MonitorFree /\ queue # <<>>
  /\ Len(resp.lines) < MaxLines
  /\ \E len \in LineLens : Logged(len, FALSE, FALSE)
  /\ UNCHANGED <<resp, caller, queue, asked, given_up>>

(* OK or ERROR                                                             *)
Result ==
  /\ MonitorFree /\ queue # <<>>
  /\ \E ok \in BOOLEAN : Logged(IF ok THEN 2 ELSE 5, TRUE, ok)
  /\ queue' = Tail(queue)
  /\ UNCHANGED <<resp, caller, asked, given_up>>

Capture ==
  /\ line # NULL
  /\ simbox_device_capture_at_response
  /\ line' = NULL
  /\ UNCHANGED <<caller, queue, asked, given_up>>

(* the device disconnects, or the driver's own timeout: at_queue_flush     *)
Flush ==
  /\ MonitorFree /\ queue # <<>>
  /\ queue' = <<>>
  /\ UNCHANGED <<resp, caller, line, asked, given_up>>

CommandStep(c) == AtEnqueue(c) \/ AtRefused(c) \/ AtComplete(c) \/ AtTimeout(c)

-----------------------------------------------------------------------------
Inside(c) == caller[c].pc \in {"enqueue", "wait"}

CommandTypeOK ==
  /\ resp.pending \in BOOLEAN /\ resp.complete \in BOOLEAN /\ resp.result \in {0, -1}
  /\ resp.buf \in Callers \cup {NULL}
  /\ asked \in 0..MaxAsked
  /\ Range(queue) \cup given_up \subseteq 1..asked
  /\ \A c \in Callers : caller[c].pc \in {"out", "enqueue", "wait"}

(* The buffer that answers are written to is that of the one caller that   *)
(* is inside the call: at_response_buf points into its frame.              *)
BufferLive ==
  /\ resp.buf # NULL => Inside(resp.buf)
  /\ \A c \in Callers : Inside(c) => resp.buf = c

(* Lines, line breaks and the terminating zero stay inside the buffer,     *)
(* however long the lines are and however small the buffer is.             *)
BufferFits == resp.buf # NULL => resp.used < resp.size

(* The monitor thread writes to memory that is there, and inside it.       *)
BufferSafe == BufferLive /\ BufferFits

(* As long as no caller has given up, a caller gets the lines of its own   *)
(* command, and gets them when the driver is done with the command.        *)
OwnAnswer ==
  given_up = {} =>
    \A c \in Callers : caller[c].answer # <<>> =>
      Range(caller[c].answer) = {caller[c].cmd} /\ caller[c].cmd \notin Range(queue)

(* Not so once one has: the late answer of its command is taken for that   *)
(* of the next one, whose own answer is late for the one behind, and so    *)
(* on; no call fails, and every answer is the wrong one.                   *)
OnlyOwnAnswer == \A c \in Callers : Range(caller[c].answer) \subseteq {caller[c].cmd}

(* Every call returns: one whose command was flushed, and one from an      *)
(* event callback, which keeps the monitor from reading its own answer.    *)
CallReturns == \A c \in Callers : []<>(caller[c].pc = "out")
=============================================================================
