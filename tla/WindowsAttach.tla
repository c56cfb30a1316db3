----------------------------- MODULE WindowsAttach -----------------------------
(***************************************************************************)
(* The attach process on Windows: attach_command, attach_person and        *)
(* try_attach, and bridge_terminal, where three threads share one pipe.    *)
(* The loop reads the master's frames. A thread blocked in ReadFile sends  *)
(* what is typed; at the detach key it sets a flag and asks the master for *)
(* its status, since only a frame wakes the loop. A third thread looks at  *)
(* the size of the console.                                                *)
(*                                                                         *)
(* Nothing orders the two threads that write. A frame is two writes, its   *)
(* header and its payload, and another frame may come in between: the pipe *)
(* is `torn` then, and what the master makes of it is not followed.        *)
(*                                                                         *)
(* What is typed is pieces of text and detach keys; what a DetachKey makes *)
(* of single bytes is in DetachKey. The master is what the pipe shows of   *)
(* it, as in AttachClient. What it wrote can be read when it is gone.      *)
(* Closing a client's channel does not close its pipe: it empties the      *)
(* queue and cancels the read that is pending. A connection that is not in *)
(* a read goes on, and is deaf: nothing can be sent to it any more.        *)
(***************************************************************************)
EXTENDS Naturals, Sequences, FiniteSets

CONSTANTS
    Sizes,       \* sizes of the console
    MaxOutput,   \* bound: frames of output in one attach
    MaxInput,    \* bound: pieces of text and detach keys typed
    MaxChanges   \* bound: changes of the console's size

VARIABLES
    main,        \* the loop, or how it ended
    person,      \* a person started this attach
    replay,      \* replay_requested
    tolerant,    \* tolerate_legacy_replay_error
    painted,     \* something was written to the terminal in this attach
    attempt,     \* which attach this is
    written,     \* history: the attaches that wrote to the terminal
    size,        \* of the console
    changes,     \* history: changes of it
    stdin,       \* typed and not read
    typed,       \* history: how much was typed
    input,       \* the input thread
    reading,     \* what its last read amounts to
    taken,       \* history: pieces of text it has read
    detached,    \* the flag
    stale,       \* the input thread of the first attach still reads
    resizer,     \* the resize thread
    last,        \* last_size
    half,        \* threads that have written a header and not the payload
    torn,        \* a frame was written into another one
    toMaster,    \* frames the master has not read
    socket,      \* frames the loop has not read
    answer,      \* what the master has yet to answer the attach with
    phase,       \* what the master is at
    outputs,     \* history: frames of output in this attach
    got,         \* history: pieces of text the master has received
    masterSize   \* the size the master was told, 0 before that

mainVars == <<main, person, replay, tolerant, painted, attempt, written>>
consoleVars == <<size, changes, stdin, typed>>
inputVars == <<input, reading, taken, detached, stale>>
resizeVars == <<resizer, last>>
pipeVars == <<half, torn, toMaster>>
masterVars == <<answer, phase, outputs, got, masterSize>>
attachVars ==
    <<mainVars, consoleVars, inputVars, resizeVars, pipeVars, socket, masterVars>>

Live == main \in {"connecting", "reading"}

\* As in AttachClient: the replay, a master that does not know of replays, and
\* a history that is too long.
Answers(r) ==
    IF r THEN {<<"output", "marker">>, <<"marker">>, <<"legacy">>, <<"error">>,
               <<"hangup">>}
    ELSE {<<>>}

Frame(kind, n) == [kind |-> kind, n |-> n]
NothingRead == [text |-> 0, detach |-> FALSE]

AttachInit ==
    /\ main = "connecting"
    /\ person \in BOOLEAN
    /\ replay \in BOOLEAN
    /\ person => replay
    /\ tolerant = replay
    /\ painted = FALSE
    /\ attempt = 1
    /\ written = {}
    /\ size \in Sizes
    /\ changes = 0
    /\ stdin = <<>>
    /\ typed = 0
    /\ input = "none"
    /\ reading = NothingRead
    /\ taken = 0
    /\ detached = FALSE
    /\ stale = FALSE
    /\ resizer = "none"
    /\ last = size
    /\ half = {}
    /\ torn = FALSE
    /\ toMaster = <<>>
    /\ socket = <<>>
    /\ answer = <<>>
    /\ phase = "answering"
    /\ outputs = 0
    /\ got = 0
    /\ masterSize = 0

-----------------------------------------------------------------------------
\* The person at the console. They act at any moment; the moments that differ
\* are those at which a thread looks.

PersonTypes ==
    /\ Live
    /\ input = "blocked" \/ stale
    /\ typed < MaxInput
    /\ \E key \in IF person THEN {"text", "detach"} ELSE {"text"} :
         stdin' = Append(stdin, key)
    /\ typed' = typed + 1
    /\ UNCHANGED <<mainVars, size, changes, inputVars, resizeVars, pipeVars,
                   socket, masterVars>>

WindowChanges ==
    /\ Live
    /\ resizer \in {"none", "asleep"}
    /\ changes < MaxChanges
    /\ size' \in Sizes \ {size}
    /\ changes' = changes + 1
    /\ UNCHANGED <<mainVars, stdin, typed, inputVars, resizeVars, pipeVars,
                   socket, masterVars>>

-----------------------------------------------------------------------------
\* try_attach. The size was taken before the pipe is there, which may be a while.

ConnectFails ==
    /\ main = "connecting"
    /\ main' = "failed"
    /\ UNCHANGED <<person, replay, tolerant, painted, attempt, written,
                   consoleVars, inputVars, resizeVars, pipeVars, socket, masterVars>>

\* A mutant: the threads start from the size of the console by then.
BridgeMeasures ==
    /\ main = "connecting"
    /\ main' = "reading"
    /\ toMaster' = <<Frame("attach", last)>>
    /\ answer' \in Answers(replay)
    /\ input' = "blocked"
    /\ resizer' = "asleep"
    /\ last' = size
    /\ UNCHANGED <<person, replay, tolerant, painted, attempt, written,
                   consoleVars, reading, taken, detached, stale, half, torn,
                   socket, phase, outputs, got, masterSize>>

\* The attach is sent, with a request for a replay or without one, and the
\* threads start.
Bridge ==
    /\ main = "connecting"
    /\ main' = "reading"
    /\ toMaster' = <<Frame("attach", last)>>
    /\ answer' \in Answers(replay)
    /\ input' = "blocked"
    /\ resizer' = "asleep"
    /\ UNCHANGED <<person, replay, tolerant, painted, attempt, written,
                   consoleVars, reading, taken, detached, stale, last, half,
                   torn, socket, phase, outputs, got, masterSize>>

-----------------------------------------------------------------------------
\* send_frame, in two writes. A write fails once the master is gone.

Open == phase # "closed"

Tears(thread) == torn' = (torn \/ half \ {thread} # {})

WritesHeader(thread) ==
    /\ half' = half \cup {thread}
    /\ Tears(thread)
    /\ UNCHANGED toMaster

\* With its payload, or with a header that is all of it, a frame is there.
CompletesFrame(thread, frame) ==
    /\ half' = half \ {thread}
    /\ Tears(thread)
    /\ toMaster' = IF torn' THEN toMaster ELSE Append(toMaster, frame)

-----------------------------------------------------------------------------
\* The input thread.

\* A read takes all that was typed. What follows a detach key is dropped.
PressedAt(keys) == {i \in 1..Len(keys) : keys[i] = "detach"}
Decoded(keys) ==
    [text   |-> IF PressedAt(keys) = {} THEN Len(keys)
                ELSE CHOOSE n \in 0..Len(keys) :
                       /\ n + 1 \in PressedAt(keys)
                       /\ \A i \in PressedAt(keys) : n < i,
     detach |-> PressedAt(keys) # {}]

\* A mutant: a detach key is acted on at once.
AfterReadAtOnce(read) == IF read.detach THEN "storing" ELSE "header"

\* Text is forwarded first.
AfterRead(read) == IF read.text > 0 THEN "header" ELSE "storing"

AfterSend == IF reading.detach THEN "storing" ELSE "blocked"

ReadInput ==
    /\ main = "reading"
    /\ input = "blocked"
    /\ stdin # <<>>
    /\ stdin' = <<>>
    /\ reading' = Decoded(stdin)
    /\ taken' = taken + reading'.text
    /\ input' = AfterRead(reading')
    /\ UNCHANGED <<mainVars, size, changes, typed, detached, stale, resizeVars,
                   pipeVars, socket, masterVars>>

\* The console is gone. Nobody tells the loop.
InputEnds ==
    /\ main = "reading"
    /\ input = "blocked"
    /\ input' = "done"
    /\ UNCHANGED <<mainVars, consoleVars, reading, taken, detached, stale,
                   resizeVars, pipeVars, socket, masterVars>>

SendInput ==
    /\ main = "reading"
    /\ Open
    /\ \/ /\ input = "header"
          /\ input' = "payload"
          /\ WritesHeader("input")
       \/ /\ input = "payload"
          /\ input' = AfterSend
          /\ CompletesFrame("input", Frame("input", reading.text))
    /\ UNCHANGED <<mainVars, consoleVars, reading, taken, detached, stale,
                   resizeVars, socket, masterVars>>

SendInputFails ==
    /\ main = "reading"
    /\ input \in {"header", "payload"}
    /\ ~Open
    /\ input' = "done"
    /\ UNCHANGED <<mainVars, consoleVars, reading, taken, detached, stale,
                   resizeVars, pipeVars, socket, masterVars>>

\* The flag is there before the answer to the request can be.
StoreDetached ==
    /\ main = "reading"
    /\ input = "storing"
    /\ input' = "asking"
    /\ detached' = TRUE
    /\ UNCHANGED <<mainVars, consoleVars, reading, taken, stale, resizeVars,
                   pipeVars, socket, masterVars>>

\* A mutant: the flag alone should end the loop.
AskNothing ==
    /\ main = "reading"
    /\ input = "asking"
    /\ input' = "done"
    /\ UNCHANGED <<mainVars, consoleVars, reading, taken, detached, stale,
                   resizeVars, pipeVars, socket, masterVars>>

\* FRAME_STATUS has no payload. That it cannot be sent is ignored.
AskStatus ==
    /\ main = "reading"
    /\ input = "asking"
    /\ input' = "done"
    /\ IF Open THEN CompletesFrame("input", Frame("status", 0))
       ELSE UNCHANGED pipeVars
    /\ UNCHANGED <<mainVars, consoleVars, reading, taken, detached, stale,
                   resizeVars, socket, masterVars>>

\* The input thread of an attach that started over: what it reads goes into the
\* old pipe, and once that is closed the thread ends.
StaleReads ==
    /\ Live
    /\ stale
    /\ stdin # <<>>
    /\ stdin' = <<>>
    /\ stale' \in BOOLEAN
    /\ UNCHANGED <<mainVars, size, changes, typed, input, reading, taken,
                   detached, resizeVars, pipeVars, socket, masterVars>>

-----------------------------------------------------------------------------
\* The resize thread.

PollSize ==
    /\ main = "reading"
    /\ resizer = "asleep"
    /\ last # size
    /\ last' = size
    /\ resizer' = "header"
    /\ UNCHANGED <<mainVars, consoleVars, inputVars, pipeVars, socket, masterVars>>

SendSize ==
    /\ main = "reading"
    /\ Open
    /\ \/ /\ resizer = "header"
          /\ resizer' = "payload"
          /\ WritesHeader("resizer")
       \/ /\ resizer = "payload"
          /\ resizer' = "asleep"
          /\ CompletesFrame("resizer", Frame("resize", last))
    /\ UNCHANGED <<mainVars, consoleVars, inputVars, last, socket, masterVars>>

SendSizeFails ==
    /\ main = "reading"
    /\ resizer \in {"header", "payload"}
    /\ ~Open
    /\ resizer' = "done"
    /\ UNCHANGED <<mainVars, consoleVars, inputVars, last, pipeVars, socket,
                   masterVars>>

-----------------------------------------------------------------------------
\* The loop.

\* A mutant: the marker does not count as painting.
PaintsUnlessMarker(f) == painted' = (painted \/ f = "output")

Paints(f) == painted' = TRUE

\* Output, or the marker at the end of a replay. The terminal may be gone.
WriteFrame ==
    /\ main = "reading"
    /\ socket # <<>>
    /\ Head(socket) \in {"output", "marker"}
    /\ Paints(Head(socket))
    /\ written' = written \cup {attempt}
    /\ socket' = Tail(socket)
    /\ main' \in {"reading", "failed"}
    /\ UNCHANGED <<person, replay, tolerant, attempt, consoleVars, inputVars,
                   resizeVars, pipeVars, masterVars>>

ReadExit ==
    /\ main = "reading"
    /\ socket # <<>>
    /\ Head(socket) = "exit"
    /\ main' = "finished"
    /\ UNCHANGED <<person, replay, tolerant, painted, attempt, written,
                   consoleVars, inputVars, resizeVars, pipeVars, socket, masterVars>>

\* The answer to the input thread's request.
ReadStatus ==
    /\ main = "reading"
    /\ socket # <<>>
    /\ Head(socket) = "status"
    /\ socket' = Tail(socket)
    /\ main' = IF detached THEN "detached" ELSE main
    /\ UNCHANGED <<person, replay, tolerant, painted, attempt, written,
                   consoleVars, inputVars, resizeVars, pipeVars, masterVars>>

Tolerates == Head(socket) = "legacy" /\ tolerant

IgnoreError ==
    /\ main = "reading"
    /\ socket # <<>>
    /\ Tolerates
    /\ tolerant' = FALSE
    /\ socket' = Tail(socket)
    /\ UNCHANGED <<main, person, replay, painted, attempt, written, consoleVars,
                   inputVars, resizeVars, pipeVars, masterVars>>

\* Any other error, or the end of the pipe.
Refused ==
    /\ main = "reading"
    /\ IF socket = <<>> THEN phase = "closed"
       ELSE Head(socket) \in {"legacy", "error"} /\ ~Tolerates

\* The input thread is left as it is: in ReadFile, or on its way back to it.
StaysInRead ==
    CASE input = "blocked" -> {TRUE}
      [] input \in {"header", "payload"} /\ ~reading.detach -> BOOLEAN
      [] OTHER -> {FALSE}

\* Nothing has been written: the attach starts over without a replay, with a
\* new pipe, new threads and a new flag.
Retry ==
    /\ Refused
    /\ replay /\ ~painted
    /\ main' = "connecting"
    /\ attempt' = 2
    /\ replay' = FALSE
    /\ tolerant' = FALSE
    /\ last' = size
    /\ input' = "none"
    /\ reading' = NothingRead
    /\ taken' = 0
    /\ detached' = FALSE
    /\ stale' \in StaysInRead
    /\ resizer' = "none"
    /\ half' = {}
    /\ torn' = FALSE
    /\ toMaster' = <<>>
    /\ socket' = <<>>
    /\ answer' = <<>>
    /\ phase' = "answering"
    /\ outputs' = 0
    /\ got' = 0
    /\ masterSize' = 0
    /\ UNCHANGED <<person, painted, written, consoleVars>>

ReportError ==
    /\ Refused
    /\ ~(replay /\ ~painted)
    /\ main' = "failed"
    /\ UNCHANGED <<person, replay, tolerant, painted, attempt, written,
                   consoleVars, inputVars, resizeVars, pipeVars, socket, masterVars>>

-----------------------------------------------------------------------------
\* The master.

Sends(frame) == socket' = Append(socket, frame)

MasterAnswers ==
    /\ main = "reading"
    /\ phase = "answering"
    /\ \/ /\ answer = <<>>
          /\ phase' = "live"
          /\ masterSize' = Head(toMaster).n
          /\ toMaster' = Tail(toMaster)
          /\ UNCHANGED <<answer, socket>>
       \/ /\ answer # <<>>
          /\ Head(answer) # "hangup"
          /\ answer' = Tail(answer)
          /\ Sends(Head(answer))
          /\ phase' = IF Head(answer) = "error" THEN "ended" ELSE phase
          /\ UNCHANGED <<masterSize, toMaster>>
       \/ /\ answer = <<"hangup">>
          /\ phase' = "closed"
          /\ UNCHANGED <<answer, socket, masterSize, toMaster>>
    /\ UNCHANGED <<mainVars, consoleVars, inputVars, resizeVars, half, torn,
                   outputs, got>>

\* client_loop. That the answer to a status cannot be sent does not end it.
MasterReads ==
    /\ main = "reading"
    /\ phase \in {"live", "deaf"}
    /\ toMaster # <<>>
    /\ toMaster' = Tail(toMaster)
    /\ LET frame == Head(toMaster)
       IN  /\ got' = IF frame.kind = "input" THEN got + frame.n ELSE got
           /\ masterSize' = IF frame.kind = "resize" THEN frame.n ELSE masterSize
           /\ IF frame.kind = "status" /\ phase = "live" THEN Sends("status")
              ELSE UNCHANGED socket
    /\ UNCHANGED <<mainVars, consoleVars, inputVars, resizeVars, half, torn,
                   answer, phase, outputs>>

\* The terminal cannot be written to, or cannot be given the size: the error is
\* sent, and the connection ends. Nothing more is read, so that the frame may
\* as well stay in the pipe.
MasterFails ==
    /\ main = "reading"
    /\ phase \in {"live", "deaf"} \/ (phase = "answering" /\ answer = <<>>)
    /\ toMaster # <<>>
    /\ Head(toMaster).kind # "status"
    /\ IF phase = "deaf" THEN phase' = "closed" /\ UNCHANGED socket
       ELSE phase' = "ended" /\ Sends("error")
    /\ UNCHANGED <<mainVars, consoleVars, inputVars, resizeVars, pipeVars,
                   answer, outputs, got, masterSize>>

\* A kind of frame that the master does not know, out of a torn pipe.
MasterComplains ==
    /\ main = "reading"
    /\ phase = "live"
    /\ torn
    /\ toMaster = <<>>
    /\ outputs < MaxOutput
    /\ outputs' = outputs + 1
    /\ Sends("legacy")
    /\ UNCHANGED <<mainVars, consoleVars, inputVars, resizeVars, pipeVars,
                   answer, phase, got, masterSize>>

MasterSendsOutput ==
    /\ main = "reading"
    /\ phase = "live"
    /\ outputs < MaxOutput
    /\ outputs' = outputs + 1
    /\ Sends("output")
    /\ UNCHANGED <<mainVars, consoleVars, inputVars, resizeVars, pipeVars,
                   answer, phase, got, masterSize>>

MasterSendsExit ==
    /\ main = "reading"
    /\ phase = "live"
    /\ phase' = "ended"
    /\ Sends("exit")
    /\ UNCHANGED <<mainVars, consoleVars, inputVars, resizeVars, pipeVars,
                   answer, outputs, got, masterSize>>

\* The pipe ends: the channel was closed and a read was pending, or is cancelled
\* by a later call; the thread in add_client could not send; or the master's
\* process is gone. What was queued and not written counts as not sent.
MasterCloses ==
    /\ main = "reading"
    /\ phase # "closed"
    /\ phase' = "closed"
    /\ UNCHANGED <<mainVars, consoleVars, inputVars, resizeVars, pipeVars,
                   socket, answer, outputs, got, masterSize>>

\* The channel is closed while its connection is not in a read.
ClosesUnheard ==
    /\ main = "reading"
    /\ phase = "live"
    /\ phase' = "deaf"
    /\ UNCHANGED <<mainVars, consoleVars, inputVars, resizeVars, pipeVars,
                   socket, answer, outputs, got, masterSize>>

-----------------------------------------------------------------------------
InputNext ==
    ReadInput \/ SendInput \/ SendInputFails \/ StoreDetached \/ AskStatus

ResizeNext == PollSize \/ SendSize \/ SendSizeFails

MainNext ==
    \/ Bridge
    \/ WriteFrame \/ ReadExit \/ ReadStatus \/ IgnoreError \/ Retry \/ ReportError

MasterNext == MasterAnswers \/ MasterReads

AttachNext ==
    \/ MainNext \/ InputNext \/ ResizeNext \/ MasterNext
    \/ ConnectFails \/ InputEnds \/ StaleReads
    \/ PersonTypes \/ WindowChanges
    \/ MasterComplains \/ MasterSendsOutput \/ MasterSendsExit
    \/ MasterFails \/ MasterCloses \/ ClosesUnheard

AttachSpec == AttachInit /\ [][AttachNext]_attachVars

\* Each thread runs, and the master answers and reads what it is sent. Nothing
\* makes it send output or end, or makes the person do anything.
FairAttachSpec ==
    /\ AttachSpec
    /\ WF_attachVars(MainNext)
    /\ WF_attachVars(InputNext)
    /\ WF_attachVars(ResizeNext)
    /\ WF_attachVars(MasterNext)

-----------------------------------------------------------------------------
\* Types of the loop, of the threads and of the pipe; `painted` says whether
\* this attach has written to the terminal (bridge_terminal).
AttachTypeOK ==
    /\ main \in {"connecting", "reading", "finished", "detached", "failed"}
    /\ {person, replay, tolerant, painted, detached, stale, torn} \subseteq BOOLEAN
    /\ attempt \in {1, 2}
    /\ painted <=> attempt \in written
    /\ written \subseteq {1, 2}
    /\ {size, last} \subseteq Sizes
    /\ {typed, taken, got} \subseteq Nat
    /\ stdin \in Seq({"text", "detach"}) /\ Len(stdin) <= typed
    /\ input \in {"none", "blocked", "header", "payload", "storing", "asking",
                  "done"}
    /\ reading \in [text : 0..typed, detach : BOOLEAN]
    /\ detached => reading.detach /\ person
    /\ stale => attempt = 2
    /\ resizer \in {"none", "asleep", "header", "payload", "done"}
    /\ half \subseteq {"input", "resizer"}
    /\ ~torn => Cardinality(half) <= 1
    /\ toMaster \in Seq([kind : {"attach", "input", "resize", "status"},
                         n : Sizes \cup Nat])
    /\ socket \in Seq({"output", "marker", "legacy", "error", "exit", "status"})
    /\ phase \in {"answering", "live", "deaf", "ended", "closed"}
    /\ got <= taken
    /\ masterSize \in Sizes \cup {0}

\* An attach starts over only while the terminal has been sent nothing
\* (attach_command, attach_person, Attachment::ReplayRejected).
RetryStartsClean == attempt = 2 => 1 \notin written

\* An attach that ends as detached leaves nothing behind that its thread read
\* ahead of the detach key: the master has received it (bridge_terminal, where
\* the request follows the input through the same pipe).
DetachKeepsInput == main = "detached" => got = taken

\* A detach key that was read ends the attach, or the attach starts over,
\* although the loop is blocked in a read of the pipe: the answer to the request
\* wakes it, behind whatever the master sends meanwhile, and so does the end of
\* the pipe. But not when two frames were written into one another, nor when the
\* connection has become deaf: its answer cannot be sent, and nothing else ends
\* it (windows.rs:740-752).
DetachEnds == reading.detach ~> main # "reading" \/ torn \/ phase = "deaf"

\* Whenever the size of the console is another than the master was told, be it
\* since a change or since the attach took the size, the master is told in the
\* end ("Resize during an attach is polled", README.md:50), as long as the
\* connection lasts, deaf or not, and no two frames were written into one another.
ResizesArrive ==
    main = "reading" /\ phase \in {"live", "deaf"} /\ masterSize # size
      ~> \/ main # "reading" \/ phase \notin {"live", "deaf"}
         \/ masterSize = size \/ torn
=============================================================================
