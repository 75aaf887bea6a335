----------------------------- MODULE CliConsole -----------------------------
(***************************************************************************)
(* The terminal of the interactive client: Console, which keeps track of   *)
(* its line and of the pending prompt, EventRenderer, which streams agent  *)
(* text into it, and the prompt loop.                                      *)
(*                                                                         *)
(* Events are rendered and commands run in one event loop, a handler at a  *)
(* time.  input() blocks in a thread of its own: the terminal echoes the   *)
(* user's newline there, and ask() goes on in the loop later (Enter, then  *)
(* Wake), with any number of events rendered in between.                   *)
(*                                                                         *)
(* Of a line only what stands on it is kept: the prompt, the gutter of a   *)
(* message, text of a message.  What the user types is left out, and a     *)
(* line fits the width of the terminal.                                    *)
(***************************************************************************)
EXTENDS Naturals, Sequences, SequencesExt

CONSTANTS
    Thread,     \* the threads the client is subscribed to
    Message,    \* ids of agent messages
    NoMessage,
    MaxDeltas,  \* bound on the deltas of a message
    MaxGaps,    \* bound on the gaps in a subscription
    Colors      \* theme.enabled: a terminal that understands escape sequences

ASSUME ConsoleAssumption ==
    /\ Colors \in BOOLEAN
    /\ NoMessage \notin Message
    /\ MaxDeltas \in Nat
    /\ MaxGaps \in Nat

VARIABLES
    console,    \* Console: _at_line_start, _prompt is not None, _prompt_visible
    line,       \* what stands on the terminal's current line
    landed,     \* history: what the latest block found on the line it began
    erased,     \* history: text of messages that was cleared with a prompt
    early,      \* history: output came between the user's Enter and its Wake
    loop,       \* the prompt loop: "command", "asking", "entered" or "ended"
    streaming,  \* EventRenderer._streaming_item_ids
    shown,      \* history: the deltas of each message, as they were written
    completed,  \* history: messages whose completion was rendered
    unheard,    \* threads whose events do not reach the client
    gaps,       \* how often one of them became so
    open,       \* threads whose turn has not ended
    writing,    \* the message the runner of each thread streams
    deltas,     \* how many deltas of each message were sent
    missed      \* those that were sent unheard

screen  == <<console, line, landed, erased>>
shell   == <<screen, early, loop>>
seen    == <<streaming, shown, completed>>
hearing == <<unheard, gaps>>
feed    == <<open, writing, deltas, missed>>
vars    == <<shell, seen, hearing, feed>>

\* hasty: a text that was written since an early output, before the next prompt.
Segment == [kind : {"prompt", "gutter", "text"}, message : Message \cup {NoMessage},
            hasty : BOOLEAN]
Prompt         == [kind |-> "prompt", message |-> NoMessage, hasty |-> FALSE]
Gutter(m)      == [kind |-> "gutter", message |-> m, hasty |-> FALSE]
Text(m, hasty) == [kind |-> "text", message |-> m, hasty |-> hasty]

ConsoleTypeOK ==
    /\ console \in [start : BOOLEAN, prompt : BOOLEAN, visible : BOOLEAN]
    /\ line \in Seq(Segment)
    /\ landed \subseteq Segment
    /\ erased \subseteq Segment
    /\ early \in BOOLEAN
    /\ loop \in {"command", "asking", "entered", "ended"}
    /\ streaming \subseteq Message
    /\ shown \in [Message -> Seq(1 .. MaxDeltas)]
    /\ completed \subseteq Message
    /\ unheard \subseteq Thread
    /\ gaps \in 0 .. MaxGaps
    /\ open \subseteq Thread
    /\ writing \in [Thread -> Message \cup {NoMessage}]
    /\ deltas \in [Message -> 0 .. MaxDeltas]
    /\ missed \in [Message -> SUBSET (1 .. MaxDeltas)]

Init ==
    /\ console = [start |-> TRUE, prompt |-> FALSE, visible |-> FALSE]
    /\ line = <<>> /\ landed = {} /\ erased = {} /\ early = FALSE
    /\ loop = "command"
    /\ streaming = {} /\ shown = [m \in Message |-> <<>>] /\ completed = {}
    /\ unheard = {} /\ gaps = 0
    /\ open = {} /\ writing = [th \in Thread |-> NoMessage]
    /\ deltas = [m \in Message |-> 0] /\ missed = [m \in Message |-> {}]

-----------------------------------------------------------------------------
(* Console, on a terminal: its fields, and what stands on the line.        *)

Terminal == [start |-> console.start, prompt |-> console.prompt,
             visible |-> console.visible, line |-> line, landed |-> landed,
             erased |-> erased]

Screen(t) ==
    /\ console' = [start |-> t.start, prompt |-> t.prompt, visible |-> t.visible]
    /\ line' = t.line
    /\ landed' = t.landed
    /\ erased' = t.erased

\* _emit, of what does not end in a newline, and of what does.
Emit(t, segment) ==
    [t EXCEPT !.line = IF @ # <<>> /\ Last(@) = segment THEN @ ELSE Append(@, segment),
              !.start = FALSE]
EmitNewline(t) == [t EXCEPT !.line = <<>>, !.start = TRUE]


\* CLEAR_LINE takes everything off the line, not the prompt alone.
ClearLine(t) ==
    [t EXCEPT !.line = <<>>, !.start = TRUE,
              !.erased = @ \cup {s \in ToSet(t.line) : s.kind = "text"}]

HidePrompt(t) ==
    LET u == [t EXCEPT !.visible = FALSE] IN
    CASE ~t.visible           -> t
      [] t.visible /\ Colors  -> ClearLine(u)
      [] t.visible /\ ~Colors -> EmitNewline(u)

\* Faulty variant: the prompt is drawn by ask() alone.
ShowPromptOnce(t) ==
    IF t.prompt /\ loop = "command" THEN Emit([t EXCEPT !.visible = TRUE], Prompt) ELSE t

ShowPrompt(t) ==
    IF t.prompt /\ ~t.visible THEN Emit([t EXCEPT !.visible = TRUE], Prompt) ELSE t

\* Faulty variant: a partial line is not closed.
BreakPrompt(t) == HidePrompt(t)

BreakLine(t) == LET u == HidePrompt(t) IN IF u.start THEN u ELSE EmitNewline(u)

\* line() and blank(); the text of a full line leaves nothing on the next.
Line(t)  == ShowPrompt(EmitNewline(HidePrompt(t)))
Blank(t) == Line(BreakLine(t))

\* message(), note(), error() and json() begin where break_line() leaves them.
Begin(t)          == LET u == BreakLine(t) IN [u EXCEPT !.landed = ToSet(u.line)]
Block(t)          == Line(Begin(t))
OpenMessage(t, m) == Emit(Begin(t), Gutter(m))

Hasty == early \/ loop = "entered"

\* write() of a delta: it may end in a newline, or be empty.
Write(t, m, delta) ==
    CASE delta = "text"    -> Emit(HidePrompt(t), Text(m, Hasty))
      [] delta = "newline" -> EmitNewline(HidePrompt(t))
      [] delta = "empty"   -> HidePrompt(t)

-----------------------------------------------------------------------------
(* The events of a thread, and how EventRenderer.render shows them.        *)

\* The listener renders until the loop has ended, also while ask() is late.
Render(th, t) ==
    /\ th \notin unheard
    /\ loop # "ended"
    /\ Screen(t)
    /\ early' = Hasty
    /\ UNCHANGED loop

Unheard(th) == (th \in unheard \/ loop = "ended") /\ UNCHANGED <<shell, seen>>

TurnStarted(th) ==
    /\ th \notin open
    /\ open' = open \cup {th}
    /\ UNCHANGED <<shell, seen, hearing, writing, deltas, missed>>

MessageStarted(th, m) ==
    /\ th \in open
    /\ writing[th] = NoMessage
    /\ deltas[m] = 0 /\ m \notin completed
    /\ \A o \in Thread : writing[o] # m
    /\ writing' = [writing EXCEPT ![th] = m]
    /\ UNCHANGED <<shell, seen, hearing, open, deltas, missed>>

\* The first delta that is heard opens the message.
RenderDelta(th, m, delta) ==
    /\ Render(th, Write(IF m \in streaming THEN Terminal ELSE OpenMessage(Terminal, m), m, delta))
    /\ streaming' = streaming \cup {m}
    /\ shown' = [shown EXCEPT ![m] = Append(@, deltas'[m])]
    /\ UNCHANGED completed

MessageDelta(th, delta) ==
    LET m == writing[th] IN
    /\ m # NoMessage
    /\ deltas[m] < MaxDeltas
    /\ deltas' = [deltas EXCEPT ![m] = @ + 1]
    /\ \/ RenderDelta(th, m, delta) /\ UNCHANGED missed
       \/ Unheard(th) /\ missed' = [missed EXCEPT ![m] = @ \cup {deltas'[m]}]
    /\ UNCHANGED <<hearing, open, writing>>

\* Faulty variant: the text is printed although it was streamed.
RenderMessageAgain(th, m) ==
    /\ Render(th, Block(Terminal))
    /\ streaming' = streaming \ {m}
    /\ shown' = [shown EXCEPT ![m] = @ \o [k \in 1 .. deltas[m] |-> k]]
    /\ completed' = completed \cup {m}

\* A message that was streamed is closed, another is printed as a whole.
RenderMessage(th, m) ==
    /\ completed' = completed \cup {m}
    /\ \/ /\ m \in streaming
          /\ Render(th, BreakLine(Terminal))
          /\ streaming' = streaming \ {m}
          /\ UNCHANGED shown
       \/ /\ m \notin streaming
          /\ Render(th, Block(Terminal))
          /\ shown' = [shown EXCEPT ![m] = @ \o [k \in 1 .. deltas[m] |-> k]]
          /\ UNCHANGED streaming

MessageCompleted(th) ==
    /\ writing[th] # NoMessage
    /\ writing' = [writing EXCEPT ![th] = NoMessage]
    /\ RenderMessage(th, writing[th]) \/ Unheard(th)
    /\ UNCHANGED <<hearing, open, deltas, missed>>

\* A tool call or its result, progress, a user's message of another thread.
OtherBlock(th) ==
    /\ th \in open
    /\ Render(th, Block(Terminal))
    /\ UNCHANGED <<seen, hearing, feed>>

TurnEnded(th, how) ==
    /\ th \in open
    /\ open' = open \ {th}
    /\ writing' = [writing EXCEPT ![th] = NoMessage]
    /\ \/ /\ Render(th, IF how = "completed" THEN Blank(Terminal) ELSE Block(Terminal))
          /\ UNCHANGED seen
       \/ Unheard(th)
    /\ UNCHANGED <<hearing, deltas, missed>>

-----------------------------------------------------------------------------
(* _prompt_loop.                                                           *)

\* ask(): the histories are about one line of input and its command.
Ask ==
    /\ loop = "command"
    /\ loop' = "asking"
    /\ Screen(ShowPrompt([BreakLine(Terminal) EXCEPT !.prompt = TRUE, !.landed = {}]))
    /\ early' = FALSE
    /\ UNCHANGED <<seen, hearing, feed>>

\* In the thread of input().
Enter ==
    /\ loop = "asking"
    /\ loop' = "entered"
    /\ line' = <<>>
    /\ UNCHANGED <<console, landed, erased, early, seen, hearing, feed>>

Answered == [start |-> TRUE, prompt |-> FALSE, visible |-> FALSE]

\* The finally clause of ask().
Wake ==
    /\ loop = "entered"
    /\ loop' = "command"
    /\ console' = Answered
    /\ UNCHANGED <<line, landed, erased, early, seen, hearing, feed>>

\* EOFError: the finally clause, one line(), and the listener is cancelled.
EndOfInput ==
    /\ loop = "asking"
    /\ loop' = "ended"
    /\ console' = Answered
    /\ line' = <<>>
    /\ UNCHANGED <<landed, erased, early, seen, hearing, feed>>

\* /quit.
Quit ==
    /\ loop = "command"
    /\ loop' = "ended"
    /\ UNCHANGED <<screen, early, seen, hearing, feed>>

\* A command reports back, or its error is shown.
CommandWrites ==
    /\ loop = "command"
    /\ Screen(Block(Terminal))
    /\ UNCHANGED <<early, loop, seen, hearing, feed>>

\* /subscribe, /unsubscribe, /use, /progress and their gaps.
Resubscribe(th) ==
    /\ loop = "command"
    /\ \/ /\ th \notin unheard /\ gaps < MaxGaps
          /\ unheard' = unheard \cup {th}
          /\ gaps' = gaps + 1
       \/ /\ th \in unheard
          /\ unheard' = unheard \ {th}
          /\ UNCHANGED gaps
    /\ UNCHANGED <<shell, seen, feed>>

-----------------------------------------------------------------------------
Next ==
    \/ \E th \in Thread :
          \/ TurnStarted(th)
          \/ \E m \in Message : MessageStarted(th, m)
          \/ \E delta \in {"text", "newline", "empty"} : MessageDelta(th, delta)
          \/ MessageCompleted(th)
          \/ OtherBlock(th)
          \/ \E how \in {"completed", "interrupted"} : TurnEnded(th, how)
          \/ Resubscribe(th)
    \/ Ask \/ Enter \/ Wake \/ EndOfInput \/ Quit \/ CommandWrites

Spec == Init /\ [][Next]_vars

-----------------------------------------------------------------------------
\* console.py:20-23, 64-68: a block begins an empty line.  One interleaving
\* breaks it: output that comes between the user's Enter and the finally clause
\* of ask(), which then takes the line for empty.
BlocksStartLines == landed # {} => early

\* console.py:20-23, "redraws it afterwards": once no turn is under way whose end
\* the client will hear of, the prompt it waits at is on the screen.
PromptComesBack ==
    loop = "asking" /\ open \subseteq unheard => console.visible

\* render.py:51-58, 78-84: a completed message is written once and in order,
\* streamed or printed.  A gap in the subscription takes away its deltas, unless
\* it takes them all: then the whole message is printed.  What is written stays on
\* the terminal, but for one interleaving (console.py:107-109, 124-126): text that
\* comes between an output ahead of the finally clause of ask() and the next
\* prompt, which is drawn behind it and cleared together with it.
MessagesAreShownOnce ==
    /\ \A m \in completed :
          LET heard == (1 .. deltas[m]) \ missed[m] IN
          /\ ToSet(shown[m]) = IF heard = {} THEN 1 .. deltas[m] ELSE heard
          /\ \A j, k \in DOMAIN shown[m] : j < k => shown[m][j] < shown[m][k]
    /\ \A text \in erased : text.hasty

\* README.md:85, "Events from subscribed background threads are prefixed with
\* their thread ID": a text stands under the gutter of its own message.
TextIsUnderItsGutter ==
    \A k \in DOMAIN line : line[k].kind = "text" =>
        \A j \in 1 .. k - 1 :
            /\ line[j].kind = "gutter"
            /\ \A i \in j + 1 .. k - 1 : line[i].kind # "gutter"
            => line[j].message = line[k].message
=============================================================================
