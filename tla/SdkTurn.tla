------------------------------- MODULE SdkTurn ------------------------------
(***************************************************************************)
(* One turn: runSdkTurn (runtime/sdk-turn.ts), the consumer of the SDK's    *)
(* stream and its Slack driver (runtime/sdk-stream.ts), and the tool calls *)
(* (model/sdk/mcp-tools.ts), whose commands are those of Exec.             *)
(*                                                                         *)
(* The SDK emits frames and calls tools side by side; the consumer works a *)
(* frame off call by call, each an await: todo holds the calls that are    *)
(* left.  Plan titles and note cards are left out.                         *)
(***************************************************************************)
EXTENDS Exec, FiniteSets

CONSTANTS
  Tool,        \* tool calls of the turn
  Run,         \* those that run a command, and a bootstrap's command before it
  None,
  Fault,       \* "slack", "disk", "prep", "break", "sdk", "quiet"
  MaxFaults    \* bound: faults

ASSUME SdkTurnAssumption ==
  Run \subseteq Tool /\ Cmd = {"boot", "own"} \X Run /\ None \notin Tool

VARIABLES
  frames,     \* emitted by the SDK and not yet consumed
  src,        \* the SDK's iterator: "live", "result" (sent), "ended", "threw"
  mode,       \* the consumer: "loop", "catch", "left", "ended"
  todo,       \* the calls it has still to make for this frame
  active,     \* activeRowId
  opened,     \* the driver knows its streamTs
  msg,        \* the message in Slack: "none", "open", "stopped"
  rows,       \* rows[t]: the row of t in it
  body,       \* what is written under the rows: "reply", "error", "stopped"
  log,        \* what the recorder has recorded
  finalized,  \* finalize was called
  tool,       \* tool[t]: its handler: "none", "prep", "boot", "ready", "exec",
              \* "ok", "error", "told"
  aborted,    \* the turn's signal
  sid, saved, \* a session id was seen; it is on record
  faults,
  marred      \* history: what excuses a loss, see the properties

consumer == <<mode, todo, active, opened, finalized>>
display == <<msg, rows, body>>
vars == <<exec, frames, src, consumer, display, log, tool, aborted, sid, saved, faults, marred>>

Init ==
  /\ ExecInit
  /\ frames = <<>> /\ src = "live" /\ mode = "loop" /\ todo = <<>>
  /\ active = None /\ opened = FALSE /\ finalized = FALSE /\ msg = "none"
  /\ rows = [t \in Tool |-> "none"] /\ body = {} /\ log = {}
  /\ tool = [t \in Tool |-> "none"] /\ aborted = FALSE
  /\ sid = FALSE /\ saved = FALSE /\ faults = 0 /\ marred = {}

Budget(k) == k \in Fault /\ faults < MaxFaults /\ faults' = faults + 1
Mar(why, cond) == marred' = IF cond THEN marred \cup {why} ELSE marred

-----------------------------------------------------------------------------
(* The SDK.                                                                *)

SdkKeeps == UNCHANGED <<consumer, display, log, aborted, sid, saved>>

\* The model calls a tool; calls of one message run side by side.
Calls(t) ==
  /\ src = "live" /\ tool[t] = "none"
  /\ frames' = Append(frames, <<"use", t>>)
  /\ tool' = [tool EXCEPT ![t] = "prep"]
  /\ UNCHANGED <<exec, src, faults, marred>> /\ SdkKeeps

\* The result of a tool goes to the model, and into the stream.
Tells(t) ==
  /\ src = "live" /\ tool[t] \in {"ok", "error"}
  /\ frames' = Append(frames, <<"result", t, IF tool[t] = "ok" THEN "complete" ELSE "error">>)
  /\ tool' = [tool EXCEPT ![t] = "told"]
  /\ UNCHANGED <<exec, src, faults, marred>> /\ SdkKeeps

\* The result frame: success, or an error such as maxTurns.
Concludes ==
  /\ src = "live" /\ \A t \in Tool : tool[t] \in {"none", "told"}
  /\ src' = "result" /\ frames' \in {Append(frames, <<"success">>), Append(frames, <<"failure">>)}
  /\ UNCHANGED <<exec, tool, faults, marred>> /\ SdkKeeps

\* Slip: the turn's signal is not passed on to the SDK's controller.
SdkEndsUnbridged ==
  /\ src \in {"live", "result"}
  /\ \/ src = "result" /\ src' = "ended" /\ UNCHANGED <<frames, faults, marred>>
     \/ Budget("sdk") /\ src' = "threw" /\ frames' \in {frames, <<>>} /\ UNCHANGED marred
  /\ UNCHANGED <<exec, tool>> /\ SdkKeeps

\* The iterator ends behind the result frame; without one it throws when aborted or
\* when the SDK's process dies, or ends quietly.  What it has emitted may be lost.
SdkEnds ==
  /\ src \in {"live", "result"}
  /\ \/ src = "result" /\ src' = "ended" /\ UNCHANGED <<frames, faults, marred>>
     \/ aborted /\ src' = "threw" /\ frames' \in {frames, <<>>} /\ UNCHANGED <<faults, marred>>
     \/ Budget("sdk") /\ src' = "threw" /\ frames' \in {frames, <<>>} /\ UNCHANGED marred
     \/ src = "live" /\ Budget("quiet") /\ src' = "ended" /\ Mar("quiet", TRUE) /\ UNCHANGED frames
  /\ UNCHANGED <<exec, tool>> /\ SdkKeeps

-----------------------------------------------------------------------------
(* The tool handlers of buildAgentaMcpServer.                              *)

HandlerKeeps == UNCHANGED <<frames, src, consumer, display, log, aborted, sid, saved, marred>>

Boot(t) == <<"boot", t>>
Own(t) == <<"own", t>>

\* The preamble, whatever the signal says: ensureContainer, which may throw, then the
\* commands of the bootstrap, one here.  (A session without a home has none.)
Prepares(t) ==
  /\ t \in Run /\ tool[t] = "prep"
  /\ \/ tool' = [tool EXCEPT ![t] = "boot"] /\ Requests(Boot(t)) /\ UNCHANGED faults
     \/ Budget("prep") /\ tool' = [tool EXCEPT ![t] = "error"] /\ UNCHANGED exec
  /\ HandlerKeeps

\* The last command of the bootstrap must have exited with 0.
Prepared(t) ==
  /\ tool[t] = "boot" /\ exec[Boot(t)].req \in {"returned", "thrown"}
  /\ \/ exec[Boot(t)].req = "returned" /\ exec[Boot(t)].exit /\ tool' = [tool EXCEPT ![t] = "ready"]
     \/ tool' = [tool EXCEPT ![t] = "error"]
  /\ UNCHANGED <<exec, faults>> /\ HandlerKeeps

\* runBash, whose fetch rejects when the signal is set.
Invokes(t) ==
  /\ tool[t] = "ready"
  /\ \/ ~aborted /\ tool' = [tool EXCEPT ![t] = "exec"] /\ Requests(Own(t))
     \/ aborted /\ tool' = [tool EXCEPT ![t] = "error"] /\ UNCHANGED exec
  /\ UNCHANGED faults /\ HandlerKeeps

\* A tool without a command: some look at the signal, some do not.
Invoked(t) ==
  /\ t \notin Run /\ tool[t] = "prep" /\ tool' \in {[tool EXCEPT ![t] = r] : r \in {"ok", "error"}}
  /\ UNCHANGED <<exec, faults>>
  /\ HandlerKeeps

\* Slip: runBash is not handed the signal.
ToolUnsignalled(t) == FALSE

\* The abort listener of the fetch; that of a bootstrap's command has none.
ToolAborts(t) == aborted /\ Aborts(Own(t)) /\ UNCHANGED <<tool, faults>> /\ HandlerKeeps
Connection(c) == Breaks(c) /\ Budget("break") /\ UNCHANGED tool /\ HandlerKeeps
Shell(c) == (ExecStep(c) \/ ProcessStep(c)) /\ UNCHANGED <<tool, faults>> /\ HandlerKeeps

\* A command that throws becomes an error result.
Answers(t) ==
  /\ tool[t] = "exec" /\ exec[Own(t)].req \in {"returned", "thrown"}
  /\ tool' = [tool EXCEPT ![t] = IF exec[Own(t)].req = "returned" THEN "ok" ELSE "error"]
  /\ UNCHANGED <<exec, faults>> /\ HandlerKeeps

-----------------------------------------------------------------------------
(* consumeSdkStream: the calls a frame, or an exception, asks for.         *)

Row(t, st) == <<"row", t, st>>
FlipActive == IF active = None THEN <<>> ELSE <<Row(active, "error")>>

\* Slip: the reply is shown before it is recorded.
WorkShowsFirst(f) ==
  CASE f[1] = "use"     -> <<<<"plan">>, Row(f[2], "in_progress"), <<"rec", "call", f[2]>>>>
    [] f[1] = "result"  -> <<Row(f[2], f[3]), <<"forget">>, <<"rec", "result", f[2]>>>>
    [] f[1] = "success" -> <<<<"body", "reply">>, <<"rec", "reply", None>>, <<"fin">>>>
    [] f[1] = "failure" -> FlipActive \o <<<<"body", "error">>, <<"fin">>>>

Work(f) ==
  CASE f[1] = "use"     -> <<<<"plan">>, Row(f[2], "in_progress"), <<"rec", "call", f[2]>>>>
    [] f[1] = "result"  -> <<Row(f[2], f[3]), <<"forget">>, <<"rec", "result", f[2]>>>>
    [] f[1] = "success" -> <<<<"rec", "reply", None>>, <<"body", "reply">>, <<"fin">>>>
    [] f[1] = "failure" -> FlipActive \o <<<<"body", "error">>, <<"fin">>>>

\* Slip: the row that was at work is left as it is.
RescueNoRow == <<<<"body", IF aborted THEN "stopped" ELSE "error">>, <<"fin">>>>

\* The catch block.
Rescue == FlipActive \o <<<<"body", IF aborted THEN "stopped" ELSE "error">>, <<"fin">>>>

ConsumerKeeps == UNCHANGED <<exec, src, tool, aborted, saved>>

\* The next frame; a tool_use is remembered as active before anything is awaited.
Consumes ==
  /\ mode = "loop" /\ todo = <<>> /\ frames # <<>>
  /\ LET f == Head(frames)
     IN /\ todo' = Work(f)
        /\ active' = IF f[1] = "use" THEN f[2] ELSE active
        /\ Mar("overlap", f[1] = "use" /\ active # None)
  /\ frames' = Tail(frames) /\ sid' = TRUE
  /\ UNCHANGED <<mode, opened, finalized, display, log, faults>> /\ ConsumerKeeps

\* The iterator is done: a last finalize; or it has thrown.
LoopEnds ==
  /\ mode = "loop" /\ todo = <<>> /\ frames = <<>>
  /\ \/ src = "ended" /\ mode' = "catch" /\ todo' = <<<<"fin">>>>
     \/ src = "threw" /\ mode' = "catch" /\ todo' = Rescue
  /\ UNCHANGED <<frames, active, opened, finalized, display, log, sid, faults, marred>> /\ ConsumerKeeps

\* A call that rejects: to the catch block, which swallows what rejects in it.
Rejects ==
  IF mode = "loop" THEN mode' = "catch" /\ todo' = Rescue
                   ELSE UNCHANGED mode /\ todo' = Tail(todo)
Goes == UNCHANGED mode /\ todo' = Tail(todo)

\* What a call puts into the message, if that is still open.
Shows(call) ==
  /\ rows' = IF call[1] = "row" THEN [rows EXCEPT ![call[2]] = call[3]] ELSE rows
  /\ body' = IF call[1] = "body" THEN body \cup {call[2]} ELSE body

\* ensurePlan and append: the first one opens the message and may reject, also when
\* Slack has opened it; later ones do not reject and may be lost.
SlackCall(call) ==
  /\ call[1] \in {"plan", "row", "body"}
  /\ \/ ~opened /\ msg' = "open" /\ opened' = TRUE /\ Shows(call) /\ Goes
        /\ UNCHANGED <<faults, marred>>
     \/ ~opened /\ Budget("slack") /\ Mar("lost", TRUE) /\ msg' \in {msg, "open"}
        /\ Rejects /\ UNCHANGED <<opened, rows, body>>
     \/ opened /\ Goes /\ UNCHANGED <<msg, opened, faults, marred>>
        /\ (IF call[1] # "plan" /\ msg = "open" THEN Shows(call) ELSE UNCHANGED <<rows, body>>)
     \/ opened /\ call[1] # "plan" /\ Budget("slack") /\ Mar("lost", TRUE) /\ Goes
        /\ UNCHANGED <<msg, opened, rows, body>>
  /\ UNCHANGED <<active, finalized, log>>

\* The recorder, called from the loop alone; appending to the log may reject.
RecordCall(call) ==
  /\ call[1] = "rec"
  /\ \/ log' = log \cup {<<call[2], call[3]>>} /\ Goes /\ UNCHANGED faults
     \/ Budget("disk") /\ mode' = "catch" /\ todo' = Rescue /\ UNCHANGED log
  /\ UNCHANGED <<active, opened, finalized, display, marred>>

Forget(call) ==
  /\ call[1] = "forget" /\ active' = None /\ Goes
  /\ UNCHANGED <<opened, finalized, display, log, faults, marred>>

\* finalize, once; a message that was never opened is not stopped.
Finalize(call) ==
  /\ call[1] = "fin" /\ Goes /\ finalized' = TRUE
  /\ \/ msg' = (IF opened /\ ~finalized THEN "stopped" ELSE msg) /\ UNCHANGED <<faults, marred>>
     \/ opened /\ ~finalized /\ Budget("slack") /\ Mar("lost", TRUE) /\ UNCHANGED msg
  /\ UNCHANGED <<active, opened, rows, body, log>>

WorksOff ==
  /\ todo # <<>>
  /\ LET call == Head(todo)
     IN SlackCall(call) \/ RecordCall(call) \/ Forget(call) \/ Finalize(call)
  /\ UNCHANGED <<frames, sid>> /\ ConsumerKeeps

\* Behind consumeSdkStream: the session id is persisted; if that throws, an error
\* is posted in the thread unless the turn was stopped.
Saves ==
  /\ mode = "catch" /\ todo = <<>> /\ mode' = "ended"
  /\ \/ saved' = sid /\ UNCHANGED <<body, faults>>
     \/ sid /\ Budget("disk") /\ UNCHANGED saved
        /\ body' = (IF aborted THEN body ELSE body \cup {"error"})
  /\ UNCHANGED <<exec, frames, src, todo, active, opened, finalized, msg, rows, log, tool, aborted, sid, marred>>

\* /stop.
Stop ==
  /\ ~aborted /\ mode # "ended" /\ aborted' = TRUE
  /\ UNCHANGED <<exec, frames, src, consumer, display, log, tool, sid, saved, faults, marred>>

Next ==
  \/ \E t \in Tool : Calls(t) \/ Tells(t) \/ Invoked(t)
  \/ \E t \in Run : Prepares(t) \/ Prepared(t) \/ Invokes(t) \/ ToolAborts(t) \/ Answers(t)
  \/ \E c \in Cmd : Connection(c) \/ Shell(c)
  \/ Concludes \/ SdkEnds \/ Consumes \/ LoopEnds \/ WorksOff \/ Saves \/ Stop

\* Calls to Slack and to the disk are answered, timers fire, the handlers run on,
\* and an aborted SDK lets go of its consumer.  Commands and models need not end.
Fairness ==
  /\ \A t \in Run :
       WF_vars(Prepares(t) \/ Prepared(t) \/ Invokes(t) \/ ToolAborts(t) \/ Answers(t))
  /\ \A c \in Cmd : WF_vars(ExecStep(c) /\ Shell(c))
  /\ WF_vars(Consumes \/ LoopEnds \/ WorksOff \/ Saves)
  /\ WF_vars(SdkEnds /\ (aborted \/ src = "result"))

Spec == Init /\ [][Next]_vars /\ Fairness

-----------------------------------------------------------------------------
\* A turn whose stream has begun and that has ended leaves no message streaming
\* (sdk-stream.ts:26 "ALWAYS finalize").  One that throws before (sdk-turn.ts:215-228)
\* has no message and is Session's TurnThrows.  Excused: Slack lost a call.
MessageStopped == mode = "ended" /\ "lost" \notin marred => msg # "open"

\* ... and no row at work (sdk-stream.ts:18-27).  Excused: calls ran side by side,
\* for which there is one activeRowId; Slack lost a call; the stream ended without
\* a result or an exception.
NoRowAtWork ==
  mode = "ended" /\ marred \cap {"overlap", "lost", "quiet"} = {} =>
    \A t \in Tool : rows[t] # "in_progress"

\* ... and the user has been told how it ended, also when the turn was stopped or
\* failed before anything was shown (sdk-stream.ts:340, 353).
VerdictShown ==
  mode = "ended" /\ marred \cap {"lost", "quiet"} = {} => body # {}

\* The message of a turn that has ended is settled in every respect.
MessageSettled == MessageStopped /\ NoRowAtWork /\ VerdictShown

\* The reply a user sees is in the log, from where the next turns and recovery
\* know that it was given (sdk-stream.ts:314).
ReplyIsRecorded == "reply" \in body => <<"reply", None>> \in log

\* A /stop reaches the commands.  The handler of every call answers: its request ends
\* at once (index.ts:224), however stubborn the shell, unless it waits for a command
\* of the bootstrap, which has no signal (bootstrap.ts:63) and whose pipes are held.
\* And from some time on no shell of the turn runs or will run, neither one whose
\* request was in flight (server.ts:84) nor one that a preamble still starts.
StopReachesCommands ==
  aborted ~>
    /\ src \in {"ended", "threw"}
    /\ \A t \in Run : tool[t] \in {"none", "ok", "error", "told"} \/ exec[Boot(t)].kids
    /\ \A c \in Cmd : exec[c].shell \notin {"due", "running"}

\* A stopped turn ends, whatever the shells and the model do (sdk-turn.ts:316).
StopEndsTurn == aborted ~> mode = "ended"

\* The cap on the run time of a command keeps it from blocking the turn for ever
\* (server.ts:42-44).
ExecHardCap == \A t \in Cmd : exec[t].req = "open" ~> exec[t].req # "open"
=============================================================================
