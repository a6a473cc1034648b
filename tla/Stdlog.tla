------------------------------- MODULE Stdlog -------------------------------
(***************************************************************************)
(* tools/stdlog.c: runs a command and copies its standard output and error *)
(* to targets, with a prefix before each line where one is asked for.  The *)
(* command writes to pipes while the tool waits for events, reads a chunk  *)
(* at a time, and drains the pipes once the command has ended.  Standard   *)
(* input is copied to the command and to targets in the same way.          *)
(*                                                                         *)
(* Writes to targets are complete here.  The tool keeps the other ends of  *)
(* the pipes to the command open, so only standard input ever hangs up.    *)
(***************************************************************************)
EXTENDS Integers, Sequences, SequencesExt, FiniteSets

CONSTANTS
  Target,      \* what is written to
  Prefixed,    \* those with a prefix format
  stream_of,   \* target -> the stream ("in", "out" or "error") it gets
  chunk_size,  \* bytes read at once
  PipeSize,    \* bytes that fit in a pipe
  MaxOutput,   \* bound on the bytes the command writes
  MaxInput     \* bound on the bytes of standard input

ASSUME StdlogAssumption ==
  stream_of \in [Target -> {"in", "out", "error"}] /\ chunk_size \in Nat \ {0}

VARIABLES
  output,   \* stream -> what has been written to it
  pipe,     \* stream -> what is in the pipe (or pseudo terminal)
  command,  \* "running", "ended"
  stdin,    \* "open", "closed" by who writes it, "gone" (not watched)
  stage,    \* "loop", "handle", "drain", "done"
  events,   \* the events of the last epoll_wait not handled yet
  active,   \* the loop goes on
  newline,  \* target -> the next byte starts a line
  logged    \* target -> what has been written to it

stdlogVars == <<output, pipe, command, stdin, stage, events, active, newline, logged>>

Stream == {"in", "out", "error"}
Byte == {"x", "\n"}

StdlogInit ==
  /\ output = [s \in Stream |-> <<>>] /\ pipe = [s \in Stream |-> <<>>]
  /\ command = "running" /\ stage = "loop" /\ events = <<>> /\ active = TRUE
  /\ stdin \in {"open", "gone"}
  /\ newline = [t \in Target |-> TRUE] /\ logged = [t \in Target |-> <<>>]

-----------------------------------------------------------------------------
(* The command, and who writes standard input                              *)

CommandWrites(s, b) ==
  /\ command = "running" /\ s # "in" /\ Len(pipe[s]) < PipeSize
  /\ Len(output["out"]) + Len(output["error"]) < MaxOutput
  /\ output' = [output EXCEPT ![s] = Append(@, b)]
  /\ pipe' = [pipe EXCEPT ![s] = Append(@, b)]
  /\ UNCHANGED <<command, stdin, stage, events, active, newline, logged>>

(* By itself, or by a signal, be it forwarded (handler) or not.            *)
End ==
  /\ command = "running" /\ command' = "ended"
  /\ UNCHANGED <<output, pipe, stdin, stage, events, active, newline, logged>>

Input(b) ==
  /\ stdin = "open" /\ Len(output["in"]) < MaxInput
  /\ output' = [output EXCEPT !["in"] = Append(@, b)]
  /\ pipe' = [pipe EXCEPT !["in"] = Append(@, b)]
  /\ UNCHANGED <<command, stdin, stage, events, active, newline, logged>>

CloseInput ==
  /\ stdin = "open" /\ stdin' = "closed"
  /\ UNCHANGED <<output, pipe, command, stage, events, active, newline, logged>>

-----------------------------------------------------------------------------
(* The tool *)

(***************************************************************************)
(* The bytes of buf as redirect writes them to a target with a prefix that *)
(* is at the start of a line if nl holds: each with or without the prefix  *)
(* before it.                                                              *)
(***************************************************************************)
WithPrefix(buf, nl) ==
  [i \in DOMAIN buf |->
     [prefix |-> IF i = 1 THEN nl ELSE buf[i - 1] = "\n", byte |-> buf[i]]]

(* What a read returns.                                                    *)
Chunk(s) == SubSeq(pipe[s], 1, IF Len(pipe[s]) < chunk_size THEN Len(pipe[s]) ELSE chunk_size)

(* One round of the loop in redirect.                                      *)
redirect(s) ==
  LET buf == Chunk(s)
      Mine == {t \in Target : stream_of[t] = s}
  IN  /\ pipe[s] # <<>>
      /\ pipe' = [pipe EXCEPT ![s] = SubSeq(@, Len(buf) + 1, Len(@))]
      /\ logged' = [t \in Target |->
           IF t \in Mine
           THEN logged[t] \o (IF t \in Prefixed THEN WithPrefix(buf, newline[t]) ELSE buf)
           ELSE logged[t]]
      /\ newline' = [t \in Target |->
           IF t \in Mine \cap Prefixed THEN Last(buf) = "\n" ELSE newline[t]]

(* Streams with EPOLLIN alone, and what standard input reports once it has *)
(* been closed                                                             *)
Readable == {s \in Stream : pipe[s] # <<>> /\ (s = "in" => stdin = "open")}
HangUp == IF stdin = "closed" THEN {IF pipe["in"] = <<>> THEN "HUP" ELSE "IN|HUP"} ELSE {}

(* Some of what is ready is reported, in any order; the rest stays ready.  *)
epoll_wait ==
  /\ stage = "loop" /\ active
  /\ LET ready == Readable \cup HangUp \cup (IF command = "ended" THEN {"command"} ELSE {})
     IN  \E some \in (SUBSET ready) \ {{}} :
           events' \in {e \in [1 .. Cardinality(some) -> some] : IsInjective(e)}
  /\ stage' = "handle"
  /\ UNCHANGED <<output, pipe, command, stdin, active, newline, logged>>

(* Reads the stream of the first event until there is nothing more.        *)
epoll_handle ==
  /\ stage = "handle" /\ events # <<>> /\ Head(events) \in Stream
  /\ IF pipe[Head(events)] # <<>>
     THEN redirect(Head(events)) /\ UNCHANGED events
     ELSE events' = Tail(events) /\ UNCHANGED <<pipe, logged, newline>>
  /\ UNCHANGED <<output, command, stdin, stage, active>>

(* epoll_handle returns false if standard input has hung up, and nothing   *)
(* defined if there is still something to be read from it: it is closed or *)
(* reported again, and not read in either case.                            *)
InputHangsUp ==
  /\ stage = "handle" /\ events # <<>>
  /\ \/ Head(events) \in {"HUP", "IN|HUP"} /\ stdin' = "gone"
     \/ Head(events) = "IN|HUP" /\ UNCHANGED stdin
  /\ events' = Tail(events)
  /\ UNCHANGED <<output, pipe, command, stage, active, newline, logged>>

(* The exit notification, at which the loop ends after these events.       *)
CommandEvent ==
  /\ stage = "handle" /\ events # <<>> /\ Head(events) = "command"
  /\ active' = FALSE /\ events' = Tail(events)
  /\ UNCHANGED <<output, pipe, command, stdin, stage, newline, logged>>

EventsHandled ==
  /\ stage = "handle" /\ events = <<>>
  /\ stage' = IF active THEN "loop" ELSE "drain"
  /\ UNCHANGED <<output, pipe, command, stdin, events, active, newline, logged>>

(* Mutant: ends without reading what is left.                              *)
DrainNot ==
  /\ stage = "drain"
  /\ stage' = "done" /\ UNCHANGED <<pipe, logged, newline>>
  /\ UNCHANGED <<output, command, stdin, events, active>>

(* After waitpid: output first, then error.                                *)
Drain ==
  /\ stage = "drain"
  /\ \/ redirect("out") /\ UNCHANGED stage
     \/ pipe["out"] = <<>> /\ redirect("error") /\ UNCHANGED stage
     \/ /\ pipe["out"] = <<>> /\ pipe["error"] = <<>>
        /\ stage' = "done" /\ UNCHANGED <<pipe, logged, newline>>
  /\ UNCHANGED <<output, command, stdin, events, active>>

StdlogNext ==
  \/ \E s \in Stream, b \in Byte : CommandWrites(s, b)
  \/ End
  \/ \E b \in Byte : Input(b)
  \/ CloseInput
  \/ epoll_wait
  \/ epoll_handle
  \/ InputHangsUp
  \/ CommandEvent
  \/ EventsHandled
  \/ Drain

StdlogSpec == StdlogInit /\ [][StdlogNext]_stdlogVars

-----------------------------------------------------------------------------
(***************************************************************************)
(* redirect and the loop in main: what is written to a target is always a  *)
(* beginning of the output of the command (or of standard input), with the *)
(* prefix before each line and nowhere else, however it was split into     *)
(* chunks; and the output is complete when the tool ends.                  *)
(***************************************************************************)
OutputComplete ==
  \A t \in Target :
    LET all == output[stream_of[t]]
        expected == IF t \in Prefixed THEN WithPrefix(all, TRUE) ELSE all
    IN  /\ IsPrefix(logged[t], expected)
        /\ stage = "done" /\ stream_of[t] # "in" => logged[t] = expected
=============================================================================
