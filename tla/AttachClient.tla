----------------------------- MODULE AttachClient -----------------------------
(***************************************************************************)
(* The attach process on Unix: attach_command and try_attach, which ask    *)
(* for a replay and, when it is refused, attach once more without one; and *)
(* bridge_terminal, the loop that waits in poll(2) for the person and for  *)
(* the master. poll returns what was ready at that moment, and the loop    *)
(* acts on that: at most one read of each, then the hang-ups.              *)
(*                                                                         *)
(* An attach that a person started (attach_person) asks for a replay and   *)
(* feeds what is typed to a DetachKey; the app's attach command asks for   *)
(* what it likes and forwards every byte.                                  *)
(*                                                                         *)
(* The master is what the socket shows of it: it answers the attach, sends *)
(* output, and ends. Masters of older builds answer as the comments in     *)
(* unix.rs say: with an error to every frame they do not know, or with an  *)
(* error or a closed socket when the history is too long for them.         *)
(***************************************************************************)
EXTENDS DetachKey

CONSTANTS
    MaxOutput,   \* bound: frames of output the shell writes in one attach
    MaxSignals,  \* bound: changes of the window's size
    MaxInput     \* bound: bytes typed

VARIABLES
    pc,         \* where the loop is
    asked,      \* what this attach asks for; a second one asks for nothing
    attempt,    \* which attach this is
    tolerated,  \* tolerated_legacy_errors
    painted,    \* something was written to the terminal in this attach
    winch,      \* RESIZE_PENDING
    seen,       \* what poll returned
    person,     \* a person started this attach
    armed,      \* DetachKey::armed
    detached,   \* the detach key was pressed
    stdin,      \* bytes typed and not read
    left,       \* the person's side has ended
    answer,     \* what the master has yet to answer the attach with
    phase,      \* what the master is at
    socket,     \* frames the attach process has not read
    written,    \* history: the attaches that wrote to the terminal
    outputs,    \* history: frames of output in this attach
    signals,    \* history: changes of the window's size
    typed,      \* history: bytes read in this attach
    forwarded   \* history: bytes sent in this attach

loopVars == <<pc, asked, attempt, tolerated, painted, winch, seen, written>>
masterVars == <<answer, phase, outputs>>
keyVars == <<person, armed, detached, typed, forwarded>>
personVars == <<stdin, left, signals>>
vars == <<loopVars, masterVars, socket, keyVars, personVars>>

Asked == [replay : BOOLEAN, resume : BOOLEAN]

\* One compatibility error is ignored for each optional frame.
OptionalFrames(a) == (IF a.replay THEN 1 ELSE 0) + (IF a.resume THEN 1 ELSE 0)

\* How an attach is answered that does not resume: with a replay if it asks for
\* one or, when the history is too long, with an error or a closed socket.
Unresumed(a) ==
    IF a.replay THEN {<<"output", "marker">>, <<"marker">>, <<"error">>, <<"hangup">>}
    ELSE {<<>>}

\* A position that can be resumed is. Masters that do not know FRAME_RESUME, or
\* neither optional frame, answer with an error for each first.
Answers(a) ==
    Unresumed(a)
    \cup (IF a.resume
          THEN {<<"output", "marker">>, <<"marker">>}
               \cup {<<"legacy">> \o answered : answered \in Unresumed(a)}
          ELSE {})
    \cup {[i \in 1..OptionalFrames(a) |-> "legacy"]}

Seen == [input : BOOLEAN, left : BOOLEAN, frame : BOOLEAN, hup : BOOLEAN]

Nothing == [input |-> FALSE, left |-> FALSE, frame |-> FALSE, hup |-> FALSE]

Init ==
    /\ pc = "checking"
    /\ person \in BOOLEAN
    /\ asked \in Asked
    /\ person => asked = [replay |-> TRUE, resume |-> FALSE]
    /\ attempt = 1
    /\ tolerated = OptionalFrames(asked)
    /\ painted = FALSE
    /\ winch = FALSE
    /\ seen = Nothing
    /\ armed = FALSE
    /\ detached = FALSE
    /\ stdin = <<>>
    /\ left = FALSE
    /\ answer \in Answers(asked)
    /\ phase = "answering"
    /\ socket = <<>>
    /\ written = {}
    /\ outputs = 0
    /\ signals = 0
    /\ typed = <<>>
    /\ forwarded = <<>>

-----------------------------------------------------------------------------
\* The master. Nothing it does matters to an attach process that has ended.

MasterAnswers ==
    /\ pc # "ended"
    /\ phase = "answering"
    /\ \/ /\ answer = <<>>
          /\ phase' = "live"
          /\ UNCHANGED <<answer, socket>>
       \/ /\ answer # <<>>
          /\ Head(answer) # "hangup"
          /\ answer' = Tail(answer)
          /\ socket' = Append(socket, Head(answer))
          /\ phase' = IF Head(answer) = "error" THEN "ended" ELSE phase
       \/ /\ answer = <<"hangup">>
          /\ phase' = "closed"
          /\ UNCHANGED <<answer, socket>>
    /\ UNCHANGED <<loopVars, outputs, keyVars, personVars>>

MasterSendsOutput ==
    /\ pc # "ended"
    /\ phase = "live"
    /\ outputs < MaxOutput
    /\ socket' = Append(socket, "output")
    /\ outputs' = outputs + 1
    /\ UNCHANGED <<loopVars, answer, phase, keyVars, personVars>>

\* The shell ended: `finish` queues FRAME_EXIT behind its last output.
MasterSendsExit ==
    /\ pc # "ended"
    /\ phase = "live"
    /\ socket' = Append(socket, "exit")
    /\ phase' = "ended"
    /\ UNCHANGED <<loopVars, answer, outputs, keyVars, personVars>>

\* A size cannot be applied, or the input not written: client_loop answers with
\* FRAME_ERROR and ends the connection.
MasterFails ==
    /\ pc # "ended"
    /\ phase = "live"
    /\ socket' = Append(socket, "error")
    /\ phase' = "ended"
    /\ UNCHANGED <<loopVars, answer, outputs, keyVars, personVars>>

\* The channel is closed, or the master's process is gone.
MasterCloses ==
    /\ pc # "ended"
    /\ phase # "closed"
    /\ phase' = "closed"
    /\ UNCHANGED <<loopVars, answer, outputs, socket, keyVars, personVars>>

-----------------------------------------------------------------------------
\* The person, and the SSH session they are in. They act at any moment; the
\* moments that differ are those at which the loop looks.

\* Bytes mean something only to a DetachKey.
PersonTypes ==
    /\ pc \in {"calling", "waiting", "input"}
    /\ ~left
    /\ Len(typed) + Len(stdin) < MaxInput
    /\ \E byte \in IF person THEN Bytes ELSE {"other"} :
         stdin' = Append(stdin, byte)
    /\ UNCHANGED <<loopVars, masterVars, socket, keyVars, left, signals>>

\* The SSH connection drops, or the app ends the attach.
PersonLeaves ==
    /\ pc \in {"calling", "waiting"}
    /\ ~left
    /\ left' = TRUE
    /\ UNCHANGED <<loopVars, masterVars, socket, keyVars, stdin, signals>>

\* SIGWINCH. It interrupts poll only when poll waits by then.
WindowChanges ==
    /\ pc \in {"checking", "calling", "waiting"}
    /\ signals < MaxSignals
    /\ signals' = signals + 1
    /\ winch' = TRUE
    /\ pc' = IF pc = "waiting" THEN "checking" ELSE pc
    /\ UNCHANGED <<asked, attempt, tolerated, painted, seen, written,
                   masterVars, socket, keyVars, stdin, left>>

-----------------------------------------------------------------------------
\* The loop (bridge_terminal).

Go(there) == pc' = there

\* RESIZE_PENDING is taken, and FRAME_RESIZE sent; that fails when the master
\* is gone. What poll returned is forgotten.
CheckResize ==
    /\ pc = "checking"
    /\ winch' = FALSE
    /\ seen' = Nothing
    /\ Go(IF winch /\ phase = "closed" THEN "ended" ELSE "calling")
    /\ UNCHANGED <<asked, attempt, tolerated, painted, written,
                   masterVars, socket, keyVars, personVars>>

\* A mutant: the end of the connection is not looked at.
ReadyWithData == [input |-> stdin # <<>>,
                  left  |-> left,
                  frame |-> socket # <<>>,
                  hup   |-> FALSE]

Ready == [input |-> stdin # <<>>,
          left  |-> left,
          frame |-> socket # <<>> \/ phase = "closed",
          hup   |-> phase = "closed"]

\* poll starts to wait when nothing is ready,
PollWaits ==
    /\ pc = "calling"
    /\ Ready = Nothing
    /\ Go("waiting")
    /\ UNCHANGED <<asked, attempt, tolerated, painted, winch, seen, written,
                   masterVars, socket, keyVars, personVars>>

\* and returns when something is.
PollReturns ==
    /\ pc \in {"calling", "waiting"}
    /\ Ready # Nothing
    /\ seen' = Ready
    /\ Go("input")
    /\ UNCHANGED <<asked, attempt, tolerated, painted, winch, written,
                   masterVars, socket, keyVars, personVars>>

\* What a read of the input is made of, with a DetachKey and without one.
Fed(input) ==
    LET key == [armed |-> armed, forward |-> <<>>, detached |-> FALSE]
    IN  IF person THEN Feed(key, input) ELSE [key EXCEPT !.forward = input]

\* What is read is forwarded, less what the detach key keeps back. Sending
\* fails when the master is gone.
ForwardInput ==
    /\ pc = "input"
    /\ seen.input
    /\ stdin' = <<>>
    /\ \E fed \in {Fed(stdin)} :
         IF fed.forward # <<>> /\ phase = "closed"
         THEN Go("ended") /\ UNCHANGED keyVars
         ELSE /\ armed' = fed.armed
              /\ detached' = fed.detached
              /\ typed' = typed \o stdin
              /\ forwarded' = forwarded \o fed.forward
              /\ Go(IF fed.detached \/ seen.left THEN "ended" ELSE "frame")
              /\ UNCHANGED person
    /\ UNCHANGED <<asked, attempt, tolerated, painted, winch, seen, written,
                   masterVars, socket, left, signals>>

\* Nothing can be read, or the end of the input.
NoInput ==
    /\ pc = "input"
    /\ ~seen.input
    /\ Go(IF seen.left THEN "ended" ELSE "frame")
    /\ UNCHANGED <<asked, attempt, tolerated, painted, winch, seen, written,
                   masterVars, socket, keyVars, personVars>>

\* A mutant: the marker does not count as painting.
PaintsUnlessMarker(f) == painted' = (painted \/ f = "output")

Paints(f) == painted' = TRUE

\* Output, or the marker at the end of a replay or a resume.
WriteFrame ==
    LET f == Head(socket)
    IN  /\ pc = "frame"
        /\ socket # <<>>
        /\ f \in {"output", "marker"}
        /\ Paints(f)
        /\ written' = written \cup {attempt}
        /\ socket' = Tail(socket)
        /\ Go("hangup")
        /\ UNCHANGED <<asked, attempt, tolerated, winch, seen, masterVars,
                       keyVars, personVars>>

ReadExit ==
    /\ pc = "frame"
    /\ socket # <<>>
    /\ Head(socket) = "exit"
    /\ socket' = Tail(socket)
    /\ Go("ended")
    /\ UNCHANGED <<asked, attempt, tolerated, painted, winch, seen, written,
                   masterVars, keyVars, personVars>>

Tolerates == Head(socket) = "legacy" /\ tolerated > 0

IgnoreError ==
    /\ pc = "frame"
    /\ socket # <<>>
    /\ Tolerates
    /\ tolerated' = tolerated - 1
    /\ socket' = Tail(socket)
    /\ Go("checking")
    /\ UNCHANGED <<asked, attempt, painted, winch, seen, written, masterVars,
                   keyVars, personVars>>

\* Any other error, or the end of the connection.
Refused ==
    /\ pc = "frame"
    /\ seen.frame
    /\ IF socket = <<>> THEN TRUE
       ELSE Head(socket) \in {"legacy", "error"} /\ ~Tolerates

\* Nothing has been written: the attach starts over without a replay, on a new
\* connection and with a new DetachKey.
Retry ==
    /\ Refused
    /\ asked.replay /\ ~painted
    /\ asked' = [replay |-> FALSE, resume |-> FALSE]
    /\ attempt' = 2
    /\ tolerated' = 0
    /\ painted' = FALSE
    /\ answer' \in Answers(asked')
    /\ phase' = "answering"
    /\ socket' = <<>>
    /\ outputs' = 0
    /\ armed' = FALSE
    /\ typed' = <<>>
    /\ forwarded' = <<>>
    /\ Go("checking")
    /\ UNCHANGED <<winch, seen, written, person, detached, personVars>>

ReportError ==
    /\ Refused
    /\ ~(asked.replay /\ ~painted)
    /\ Go("ended")
    /\ UNCHANGED <<asked, attempt, tolerated, painted, winch, seen, written,
                   masterVars, socket, keyVars, personVars>>

NoFrame ==
    /\ pc = "frame"
    /\ ~seen.frame
    /\ Go("hangup")
    /\ UNCHANGED <<asked, attempt, tolerated, painted, winch, seen, written,
                   masterVars, socket, keyVars, personVars>>

\* POLLHUP or POLLERR, as poll returned it.
HandleHangup ==
    /\ pc = "hangup"
    /\ Go(IF seen.hup THEN "ended" ELSE "checking")
    /\ UNCHANGED <<asked, attempt, tolerated, painted, winch, seen, written,
                   masterVars, socket, keyVars, personVars>>

LoopNext ==
    \/ CheckResize \/ PollWaits \/ PollReturns \/ ForwardInput \/ NoInput
    \/ WriteFrame \/ ReadExit \/ IgnoreError \/ Retry \/ ReportError
    \/ NoFrame \/ HandleHangup

Next ==
    \/ MasterAnswers \/ MasterSendsOutput \/ MasterSendsExit
    \/ MasterFails \/ MasterCloses
    \/ PersonTypes \/ PersonLeaves \/ WindowChanges
    \/ LoopNext

Spec == Init /\ [][Next]_vars

\* The process runs. Nothing makes the master or the person do anything.
FairSpec == Spec /\ WF_vars(LoopNext)

-----------------------------------------------------------------------------
\* Types of the loop and of what it looks at; `painted` says whether this attach
\* has written to the terminal (bridge_terminal).
TypeOK ==
    /\ pc \in {"checking", "calling", "waiting", "input", "frame", "hangup",
               "ended"}
    /\ asked \in Asked
    /\ attempt \in {1, 2}
    /\ tolerated \in 0..2
    /\ painted \in BOOLEAN
    /\ winch \in BOOLEAN
    /\ seen \in Seen
    /\ {person, armed, detached, left} \subseteq BOOLEAN
    /\ {stdin, typed, forwarded} \subseteq Seq(Bytes)
    /\ armed => person
    /\ answer \in Seq({"output", "marker", "legacy", "error", "hangup"})
    /\ phase \in {"answering", "live", "ended", "closed"}
    /\ socket \in Seq({"output", "marker", "legacy", "error", "exit"})
    /\ written \subseteq {1, 2}
    /\ painted <=> attempt \in written

\* An attach is retried only while the terminal has been sent nothing, so that
\* no output and no marker reaches the app twice (attach_command,
\* bridge_terminal, Attachment::ReplayRejected).
RetryStartsClean == attempt = 2 => 1 \notin written

\* The attach process does not outlive its session: once the master has closed
\* the connection it ends, or attaches anew (bridge_terminal).
AttachEnds == phase = "closed" ~> pc = "ended" \/ phase # "closed"

\* However what is typed is cut into reads, and whatever the master does
\* meanwhile: an attach that a person started ends at the first detach key and
\* has sent exactly what comes before it, with each pair of prefix keys as one;
\* the app's sends what it reads (DetachKey::feed, bridge_terminal).
CutsDoNotMatter ==
    IF person
    THEN /\ detached <=> DetachesAt(typed) # {}
         /\ forwarded = SentOf(typed)
         /\ armed <=> ~detached /\ typed # <<>> /\ Arms(typed, Len(typed))
    ELSE forwarded = typed /\ ~detached

\* "`kill` delivers the exit frame and the shell's last output."
\* (CHANGELOG.md:27): an attach that the person did not leave does not end with
\* the exit frame, and output before it, unread.
ExitIsDelivered ==
    pc = "ended" /\ ~left /\ ~detached =>
      \A i \in 1..Len(socket) : socket[i] # "exit"
=============================================================================
