---------------------------- MODULE ConsoleProofs ----------------------------
(***************************************************************************)
(* Theorems about the terminal of the interactive client, for any number   *)
(* of threads, messages and deltas.                                        *)
(***************************************************************************)
EXTENDS CliConsole, TLAPS

TerminalState == [start : BOOLEAN, prompt : BOOLEAN, visible : BOOLEAN,
                  line : Seq(Segment), landed : SUBSET Segment, erased : SUBSET Segment]

\* Where the terminal takes its line for empty, it is.
LineIsKnown(t) == t.start /\ ~t.visible => t.line = <<>>

\* It does, but for output that has come between the user's Enter and its Wake.
LineInv ==
    /\ LineIsKnown(Terminal) \/ early
    /\ loop = "entered" => line = <<>> \/ early
    /\ BlocksStartLines

\* All text that stands on a line is hasty.
IsHasty(s) == \A k \in DOMAIN s : s[k].kind = "text" => s[k].hasty

\* No other text stands on the line of a prompt, where a clear would erase it, nor
\* on one that a prompt may be drawn behind.
Spared(t)  == (t.visible => IsHasty(t.line)) /\ \A text \in t.erased : text.hasty
ErasedInv  == Spared(Terminal) /\ (early => IsHasty(line))

\* The prompt is pending while the loop waits at it, and hidden only while a turn
\* is under way whose end the client will hear of.
PromptInv ==
    /\ loop = "asking" => console.prompt
    /\ PromptComesBack

\* A runner streams a message in an open turn, and each message once.
WritingInv ==
    /\ \A th \in Thread : writing[th] # NoMessage => th \in open /\ writing[th] \notin completed
    /\ \A th, o \in Thread : writing[th] # NoMessage /\ writing[th] = writing[o] => th = o

Heard(m) == (1 .. deltas[m]) \ missed[m]

Increasing(s) == \A j, k \in DOMAIN s : j < k => s[j] < s[k]

\* Until a message is completed, its deltas that were heard are on the terminal.
MessageInv(m) ==
    /\ missed[m] \subseteq 1 .. deltas[m]
    /\ Increasing(shown[m])
    /\ IF m \in completed
         THEN ToSet(shown[m]) = IF Heard(m) = {} THEN 1 .. deltas[m] ELSE Heard(m)
         ELSE ToSet(shown[m]) = Heard(m) /\ (m \in streaming <=> Heard(m) # {})

MessagesInv == \A m \in Message : MessageInv(m)

-----------------------------------------------------------------------------
(* What the operations of Console do to a terminal.                        *)

\* Each leaves a terminal and its pending prompt, and begins a block on an empty
\* line and keeps track of it, if the line was known to be empty where it seemed so.
\* None erases a text that was not written in haste.
Tidy(t, u) ==
    /\ u \in TerminalState
    /\ u.prompt = t.prompt
    /\ LineIsKnown(t) => LineIsKnown(u) /\ u.landed \subseteq t.landed
    /\ Spared(t) => Spared(u)
    /\ Hasty /\ IsHasty(t.line) => IsHasty(u.line)

LEMMA TidyThen ==
    ASSUME NEW t, NEW u, NEW v, Tidy(t, u), Tidy(u, v) PROVE Tidy(t, v)
BY DEF Tidy

LEMMA EmptyIsHasty == IsHasty(<<>>)
BY DEF IsHasty

LEMMA SegmentFacts ==
    /\ Prompt \in Segment
    /\ \A m \in Message : Gutter(m) \in Segment /\ \A h \in BOOLEAN : Text(m, h) \in Segment
BY DEF Prompt, Gutter, Text, Segment

LEMMA EmitFacts ==
    ASSUME NEW t \in TerminalState, NEW segment \in Segment,
           segment.kind = "text" => segment.hasty = Hasty /\ ~t.visible
    PROVE  /\ Tidy(t, Emit(t, segment))
           /\ Emit(t, segment).visible = t.visible
           /\ Emit(t, segment).landed = t.landed
           /\ Emit(t, segment).erased = t.erased
           /\ Emit(t, segment).start = FALSE
<1> DEFINE written == IF t.line # <<>> /\ Last(t.line) = segment
                        THEN t.line ELSE Append(t.line, segment)
           u == Emit(t, segment)
<1>1. written \in Seq(Segment)
  BY DEF TerminalState
<1>2. u = [t EXCEPT !.line = written, !.start = FALSE]
  BY DEF Emit
<1>3. ASSUME IsHasty(t.line), segment.kind = "text" => segment.hasty PROVE IsHasty(written)
  <2>1. IsHasty(Append(t.line, segment))
    <3>1. /\ t.line \in Seq(Segment)
          /\ \A k \in DOMAIN t.line : t.line[k].kind = "text" => t.line[k].hasty
      BY <1>3 DEF TerminalState, IsHasty
    <3> QED
      BY <1>3, <3>1 DEF IsHasty
  <2> QED
    BY <1>3, <2>1
<1> HIDE DEF written, u
<1>4. /\ u \in TerminalState /\ u.line = written /\ u.start = FALSE /\ u.visible = t.visible
      /\ u.prompt = t.prompt /\ u.landed = t.landed /\ u.erased = t.erased
  BY <1>1, <1>2 DEF TerminalState
<1>5. (Spared(t) => Spared(u)) /\ (Hasty /\ IsHasty(t.line) => IsHasty(u.line))
  BY <1>3, <1>4 DEF Spared
<1> QED
  BY <1>4, <1>5 DEF Tidy, LineIsKnown, u

LEMMA EmitNewlineFacts ==
    ASSUME NEW t \in TerminalState
    PROVE  /\ Tidy(t, EmitNewline(t)) /\ EmitNewline(t).line = <<>>
           /\ EmitNewline(t).visible = t.visible
<1>1. <<>> \in Seq(Segment)
  OBVIOUS
<1>2. /\ EmitNewline(t) \in TerminalState /\ EmitNewline(t).line = <<>>
      /\ EmitNewline(t).visible = t.visible /\ EmitNewline(t).prompt = t.prompt
      /\ EmitNewline(t).landed = t.landed /\ EmitNewline(t).erased = t.erased
  BY <1>1 DEF EmitNewline, TerminalState
<1> QED
  BY <1>2, EmptyIsHasty DEF Tidy, LineIsKnown, Spared

LEMMA ClearLineFacts ==
    ASSUME NEW t \in TerminalState
    PROVE  /\ ClearLine(t) \in TerminalState /\ ClearLine(t).line = <<>>
           /\ ClearLine(t).prompt = t.prompt /\ ClearLine(t).visible = t.visible
           /\ ClearLine(t).landed = t.landed
           /\ ClearLine(t).erased = t.erased \cup {s \in ToSet(t.line) : s.kind = "text"}
<1> DEFINE texts == t.erased \cup {s \in ToSet(t.line) : s.kind = "text"}
<1>1. <<>> \in Seq(Segment) /\ texts \in SUBSET Segment
  BY DEF TerminalState, ToSet
<1>2. ClearLine(t) = [t EXCEPT !.line = <<>>, !.start = TRUE, !.erased = texts]
  BY DEF ClearLine
<1> HIDE DEF texts
<1>3. /\ ClearLine(t) \in TerminalState /\ ClearLine(t).line = <<>>
      /\ ClearLine(t).visible = t.visible /\ ClearLine(t).landed = t.landed
      /\ ClearLine(t).prompt = t.prompt /\ ClearLine(t).erased = texts
  BY <1>1, <1>2 DEF TerminalState
<1> QED
  BY <1>3 DEF texts

\* Hidden, the prompt is off the line, with all else that stands on it.
LEMMA HidePromptFacts ==
    ASSUME NEW t \in TerminalState
    PROVE  Tidy(t, HidePrompt(t)) /\ HidePrompt(t).visible = FALSE
<1>1. CASE t.visible
  <2> DEFINE u == [t EXCEPT !.visible = FALSE]
             v == HidePrompt(t)
             texts == {s \in ToSet(t.line) : s.kind = "text"}
  <2>1. /\ u \in TerminalState /\ u.visible = FALSE /\ u.line = t.line
        /\ u.prompt = t.prompt /\ u.landed = t.landed /\ u.erased = t.erased
    BY DEF TerminalState
  <2>2. v = ClearLine(u) \/ v = EmitNewline(u)
    BY <1>1, ConsoleAssumption DEF HidePrompt
  <2> HIDE DEF u, v
  <2>3. EmitNewline(u).landed = u.landed /\ EmitNewline(u).erased = u.erased
    BY <2>1 DEF EmitNewline, TerminalState
  <2>4. /\ EmitNewline(u) \in TerminalState /\ EmitNewline(u).line = <<>>
        /\ EmitNewline(u).visible = FALSE /\ EmitNewline(u).prompt = t.prompt
    BY <2>1, EmitNewlineFacts DEF Tidy
  <2>5. /\ ClearLine(u) \in TerminalState /\ ClearLine(u).line = <<>>
        /\ ClearLine(u).visible = FALSE /\ ClearLine(u).prompt = t.prompt
        /\ ClearLine(u).landed = t.landed /\ ClearLine(u).erased = t.erased \cup texts
    BY <2>1, ClearLineFacts
  <2>6. /\ v.line = <<>> /\ v.visible = FALSE /\ v \in TerminalState /\ v.prompt = t.prompt
        /\ v.landed = t.landed /\ v.erased \subseteq t.erased \cup texts
    BY <2>1, <2>2, <2>3, <2>4, <2>5
  <2>7. IsHasty(t.line) => \A text \in texts : text.hasty
    BY DEF IsHasty, ToSet
  <2> HIDE DEF texts
  <2>8. Spared(t) => Spared(v)
    BY <1>1, <2>6, <2>7 DEF Spared
  <2> QED
    BY <2>6, <2>8, EmptyIsHasty DEF Tidy, LineIsKnown, v
<1>2. CASE ~t.visible
  <2>1. HidePrompt(t) = t
    BY <1>2 DEF HidePrompt
  <2> QED
    BY <1>2, <2>1 DEF Tidy, TerminalState
<1> QED
  BY <1>1, <1>2

\* The prompt may be drawn behind what is hasty.
LEMMA ShowPromptFacts ==
    ASSUME NEW t \in TerminalState, IsHasty(t.line)
    PROVE  /\ Tidy(t, ShowPrompt(t))
           /\ t.prompt => ShowPrompt(t).visible
           /\ ShowPrompt(t).landed = t.landed
<1>1. CASE t.prompt /\ ~t.visible
  <2> DEFINE u == [t EXCEPT !.visible = TRUE]
             v == Emit(u, Prompt)
  <2>1. /\ u \in TerminalState /\ u.prompt = t.prompt /\ u.landed = t.landed /\ u.visible = TRUE
        /\ u.line = t.line /\ u.erased = t.erased
    BY DEF TerminalState
  <2>2. ShowPrompt(t) = v
    BY <1>1 DEF ShowPrompt
  <2> HIDE DEF u
  <2>3. Tidy(u, v) /\ v.visible = TRUE /\ v.landed = t.landed /\ v.start = FALSE
    <3>1. Prompt \in Segment /\ Prompt.kind # "text"
      BY SegmentFacts DEF Prompt
    <3> QED
      BY <2>1, <3>1, EmitFacts
  <2>4. Spared(t) => Spared(u)
    BY <2>1 DEF Spared
  <2> HIDE DEF v
  <2> QED
    BY <2>1, <2>2, <2>3, <2>4 DEF Tidy, LineIsKnown
<1>2. CASE ~(t.prompt /\ ~t.visible)
  <2>1. ShowPrompt(t) = t
    BY <1>2 DEF ShowPrompt
  <2> QED
    BY <1>2, <2>1 DEF Tidy, TerminalState
<1> QED
  BY <1>1, <1>2

LEMMA BreakLineFacts ==
    ASSUME NEW t \in TerminalState
    PROVE  Tidy(t, BreakLine(t)) /\ (LineIsKnown(t) => BreakLine(t).line = <<>>)
<1> DEFINE u == HidePrompt(t)
<1>1. Tidy(t, u) /\ u.visible = FALSE /\ u \in TerminalState
  BY HidePromptFacts DEF Tidy
<1>2. BreakLine(t) = IF u.start THEN u ELSE EmitNewline(u)
  BY DEF BreakLine
<1> HIDE DEF u
<1>3. Tidy(u, EmitNewline(u)) /\ EmitNewline(u).line = <<>>
  BY <1>1, EmitNewlineFacts
<1>4. LineIsKnown(t) /\ u.start => u.line = <<>>
  BY <1>1 DEF Tidy, LineIsKnown
<1> QED
  BY <1>1, <1>2, <1>3, <1>4, TidyThen

LEMMA LineFacts ==
    ASSUME NEW t \in TerminalState
    PROVE  Tidy(t, Line(t)) /\ (t.prompt => Line(t).visible)
<1> DEFINE u == HidePrompt(t)
           v == EmitNewline(u)
           w == ShowPrompt(v)
<1>1. Tidy(t, u) /\ u \in TerminalState
  BY HidePromptFacts DEF Tidy
<1> HIDE DEF u
<1>2. Tidy(u, v) /\ v \in TerminalState /\ v.line = <<>>
  BY <1>1, EmitNewlineFacts DEF Tidy
<1> HIDE DEF v
<1>3. Tidy(v, w) /\ (v.prompt => w.visible)
  BY <1>2, ShowPromptFacts, EmptyIsHasty
<1>4. Line(t) = w
  BY DEF Line, u, v
<1> HIDE DEF w
<1>5. Tidy(t, w)
  BY <1>1, <1>2, <1>3, TidyThen
<1> QED
  BY <1>1, <1>2, <1>3, <1>4, <1>5 DEF Tidy

LEMMA BlankFacts ==
    ASSUME NEW t \in TerminalState
    PROVE  Tidy(t, Blank(t)) /\ (t.prompt => Blank(t).visible)
<1>1. Tidy(t, BreakLine(t)) /\ BreakLine(t) \in TerminalState /\ BreakLine(t).prompt = t.prompt
  BY BreakLineFacts DEF Tidy
<1>2. Tidy(BreakLine(t), Blank(t)) /\ (t.prompt => Blank(t).visible)
  BY <1>1, LineFacts DEF Blank
<1> QED
  BY <1>1, <1>2, TidyThen

LEMMA BeginFacts ==
    ASSUME NEW t \in TerminalState PROVE Tidy(t, Begin(t))
<1> DEFINE u == BreakLine(t)
<1>1. Tidy(t, u) /\ (LineIsKnown(t) => u.line = <<>>)
  BY BreakLineFacts
<1>2. Begin(t) = [u EXCEPT !.landed = ToSet(u.line)]
  BY DEF Begin
<1> HIDE DEF u
<1>3. ToSet(u.line) \subseteq Segment
  BY <1>1 DEF Tidy, TerminalState, ToSet
<1>4. u.line = <<>> => ToSet(u.line) = {}
  BY DEF ToSet
<1> QED
  <2>1. /\ Begin(t) \in TerminalState /\ Begin(t).prompt = u.prompt /\ Begin(t).line = u.line
        /\ Begin(t).start = u.start /\ Begin(t).visible = u.visible /\ Begin(t).erased = u.erased
        /\ Begin(t).landed = ToSet(u.line)
    BY <1>1, <1>2, <1>3 DEF Tidy, TerminalState
  <2> QED
    BY <1>1, <1>4, <2>1 DEF Tidy, LineIsKnown, Spared

LEMMA BlockFacts ==
    ASSUME NEW t \in TerminalState
    PROVE  Tidy(t, Block(t)) /\ (t.prompt => Block(t).visible)
<1>1. Tidy(t, Begin(t)) /\ Begin(t) \in TerminalState /\ Begin(t).prompt = t.prompt
  BY BeginFacts DEF Tidy
<1>2. Tidy(Begin(t), Block(t)) /\ (t.prompt => Block(t).visible)
  BY <1>1, LineFacts DEF Block
<1> QED
  BY <1>1, <1>2, TidyThen

LEMMA OpenMessageFacts ==
    ASSUME NEW t \in TerminalState, NEW m \in Message PROVE Tidy(t, OpenMessage(t, m))
<1>1. /\ Tidy(t, Begin(t)) /\ Begin(t) \in TerminalState
      /\ Gutter(m) \in Segment /\ Gutter(m).kind # "text"
  BY BeginFacts, SegmentFacts DEF Tidy, Gutter
<1>2. Tidy(Begin(t), OpenMessage(t, m))
  BY <1>1, EmitFacts DEF OpenMessage
<1> QED
  BY <1>1, <1>2, TidyThen

LEMMA WriteFacts ==
    ASSUME NEW t \in TerminalState, NEW m \in Message, NEW delta \in {"text", "newline", "empty"}
    PROVE  Tidy(t, Write(t, m, delta))
<1> DEFINE u == HidePrompt(t)
<1>1. Tidy(t, u) /\ u \in TerminalState /\ ~u.visible
  BY HidePromptFacts DEF Tidy
<1> DEFINE text == Text(m, Hasty)
<1>2. Write(t, m, delta) \in {Emit(u, text), EmitNewline(u), u}
  BY DEF Write
<1> HIDE DEF u
<1>3. Tidy(u, Emit(u, text)) /\ Tidy(u, EmitNewline(u))
  <2>1. text \in Segment /\ text.hasty = Hasty
    BY SegmentFacts DEF Text, Hasty
  <2> HIDE DEF text
  <2> QED
    BY <1>1, <2>1, EmitFacts, EmitNewlineFacts
<1>4. Tidy(t, Emit(u, text)) /\ Tidy(t, EmitNewline(u))
  BY <1>1, <1>3, TidyThen
<1> QED
  BY <1>1, <1>2, <1>4

-----------------------------------------------------------------------------
(* The line, the pending prompt and the prompt loop.                       *)

ShellTypeOK ==
    /\ Terminal \in TerminalState
    /\ early \in BOOLEAN
    /\ loop \in {"command", "asking", "entered", "ended"}

FeedTypeOK ==
    /\ streaming \subseteq Message
    /\ shown \in [Message -> Seq(1 .. MaxDeltas)]
    /\ completed \subseteq Message
    /\ unheard \subseteq Thread
    /\ gaps \in 0 .. MaxGaps
    /\ open \subseteq Thread
    /\ writing \in [Thread -> Message \cup {NoMessage}]
    /\ deltas \in [Message -> 0 .. MaxDeltas]
    /\ missed \in [Message -> SUBSET (1 .. MaxDeltas)]

ShellInv == ShellTypeOK /\ LineInv /\ ErasedInv

LEMMA TerminalFields ==
    /\ Terminal.start = console.start /\ Terminal.prompt = console.prompt
    /\ Terminal.visible = console.visible
    /\ Terminal.line = line /\ Terminal.landed = landed /\ Terminal.erased = erased
BY DEF Terminal

\* A step that draws the terminal u.
LEMMA Drawn ==
    ASSUME ShellInv, NEW u, Tidy(Terminal, u), Screen(u), loop' = loop,
           early' = Hasty \/ (early' = early /\ loop # "entered")
    PROVE  /\ ShellInv'
           /\ console'.prompt = console.prompt /\ console'.visible = u.visible
<1>1. u \in TerminalState /\ u.prompt = console.prompt
  BY TerminalFields DEF Tidy
<1>2. /\ console'.start = u.start /\ console'.prompt = u.prompt /\ console'.visible = u.visible
      /\ line' = u.line /\ landed' = u.landed /\ erased' = u.erased
  BY DEF Screen
<1>3. Terminal' = u
  BY <1>1, <1>2 DEF Terminal, TerminalState
<1>4. ShellTypeOK'
  <2>1. early' \in BOOLEAN /\ loop' \in {"command", "asking", "entered", "ended"}
    BY DEF ShellInv, ShellTypeOK, Hasty
  <2> QED
    BY <1>1, <1>3, <2>1 DEF ShellTypeOK
<1>5. LineInv'
  <2>1. CASE early'
    BY <2>1 DEF LineInv, BlocksStartLines
  <2>2. CASE ~early'
    <3>1. ~early /\ LineIsKnown(Terminal) /\ landed = {} /\ loop # "entered"
      BY <2>2 DEF ShellInv, LineInv, BlocksStartLines, Hasty
    <3>2. LineIsKnown(u) /\ landed' = {}
      BY <1>2, <3>1, TerminalFields DEF Tidy
    <3>3. LineIsKnown(Terminal)'
      BY <1>2, <3>2 DEF LineIsKnown, Terminal
    <3> QED
      BY <3>1, <3>2, <3>3 DEF LineInv, BlocksStartLines
  <2> QED
    BY <2>1, <2>2
<1>6. ErasedInv'
  <2>1. Spared(Terminal) /\ Spared(u)
    BY DEF ShellInv, ErasedInv, Tidy
  <2>2. Spared(Terminal)'
    BY <1>2, <2>1, TerminalFields DEF Spared, Terminal
  <2>3. ASSUME Hasty PROVE IsHasty(line')
    <3>1. IsHasty(line)
      BY <2>3, EmptyIsHasty DEF ShellInv, ErasedInv, LineInv, Hasty
    <3> QED
      BY <1>2, <2>3, <3>1, TerminalFields DEF Tidy
  <2>4. early' => Hasty
    BY DEF Hasty
  <2> QED
    BY <2>2, <2>3, <2>4 DEF ErasedInv, IsHasty
<1> QED
  BY <1>1, <1>2, <1>4, <1>5, <1>6 DEF ShellInv

LEMMA Rendered ==
    ASSUME ShellInv, NEW th, NEW u, Tidy(Terminal, u), Render(th, u)
    PROVE  /\ ShellInv' /\ loop' = loop /\ th \notin unheard
           /\ console'.prompt = console.prompt /\ console'.visible = u.visible
<1>1. /\ Screen(u) /\ loop' = loop /\ th \notin unheard
      /\ early' = Hasty
  BY DEF Render, ShellInv, ShellTypeOK
<1> QED
  BY <1>1, Drawn

LEMMA ShellKept ==
    ASSUME ShellInv, UNCHANGED shell PROVE ShellInv'
BY DEF shell, screen, ShellInv, ShellTypeOK, LineInv, Terminal, LineIsKnown, BlocksStartLines,
   ErasedInv, Spared, IsHasty

\* ask() redraws the prompt, and begins it on a new line.
LEMMA Asked ==
    ASSUME ShellInv, Ask PROVE ShellInv' /\ console'.prompt = TRUE /\ console'.visible = TRUE
<1> DEFINE b == BreakLine(Terminal)
           u == [b EXCEPT !.prompt = TRUE, !.landed = {}]
           v == ShowPrompt(u)
<1>1. b \in TerminalState /\ IsHasty(b.line) /\ Spared(b)
  <2>1. Tidy(Terminal, b) /\ (LineIsKnown(Terminal) => b.line = <<>>)
    BY BreakLineFacts DEF ShellInv, ShellTypeOK
  <2>2. CASE LineIsKnown(Terminal)
    BY <2>1, <2>2, EmptyIsHasty DEF Tidy, ShellInv, ErasedInv
  <2>3. CASE ~LineIsKnown(Terminal)
    <3>1. early /\ IsHasty(Terminal.line) /\ Spared(Terminal)
      BY <2>3, TerminalFields DEF ShellInv, LineInv, ErasedInv
    <3> QED
      BY <2>1, <3>1 DEF Tidy, Hasty
  <2> QED
    BY <2>2, <2>3
<1>2. /\ u \in TerminalState /\ u.prompt = TRUE /\ u.landed = {}
      /\ IsHasty(u.line) /\ Spared(u)
  <2>1. /\ u \in TerminalState /\ u.prompt = TRUE /\ u.landed = {} /\ u.line = b.line
        /\ u.visible = b.visible /\ u.erased = b.erased
    BY <1>1 DEF TerminalState
  <2> QED
    BY <1>1, <2>1 DEF Spared
<1>3. Screen(v) /\ early' = FALSE /\ loop' = "asking"
  BY DEF Ask
<1> HIDE DEF u
<1>4. /\ v \in TerminalState /\ v.prompt = TRUE /\ v.visible = TRUE /\ v.landed = {}
      /\ Spared(v)
  BY <1>2, ShowPromptFacts DEF Tidy
<1> HIDE DEF v
<1>5. /\ console'.start = v.start /\ console'.prompt = v.prompt /\ console'.visible = v.visible
      /\ line' = v.line /\ landed' = v.landed /\ erased' = v.erased
  BY <1>3 DEF Screen
<1>6. Terminal' = v
  BY <1>4, <1>5 DEF Terminal, TerminalState
<1>7. ShellTypeOK'
  BY <1>3, <1>4, <1>6 DEF ShellTypeOK
<1>8. LineIsKnown(Terminal)'
  BY <1>4, <1>5 DEF LineIsKnown, Terminal
<1>9. ErasedInv'
  BY <1>3, <1>4, <1>5 DEF ErasedInv, Spared, Terminal
<1> QED
  BY <1>3, <1>4, <1>5, <1>7, <1>8, <1>9 DEF ShellInv, LineInv, BlocksStartLines

LEMMA ShellLoop ==
    ASSUME ShellInv, Enter \/ Wake \/ EndOfInput \/ Quit \/ CommandWrites
    PROVE  ShellInv' /\ loop' # "asking"
<1>1. Terminal \in TerminalState /\ early \in BOOLEAN
      /\ LineInv /\ ErasedInv
  BY DEF ShellInv, ShellTypeOK
<1>2. /\ <<>> \in Seq(Segment) /\ line \in Seq(Segment)
      /\ landed \in SUBSET Segment /\ erased \in SUBSET Segment
      /\ console.start \in BOOLEAN /\ console.prompt \in BOOLEAN /\ console.visible \in BOOLEAN
  BY <1>1, TerminalFields DEF TerminalState
<1>3. CASE Enter
  <2>1. /\ loop' = "entered" /\ line' = <<>> /\ UNCHANGED <<console, landed, erased, early>>
    BY <1>3 DEF Enter
  <2>2. ShellTypeOK'
    BY <1>1, <1>2, <2>1 DEF ShellTypeOK, Terminal, TerminalState
  <2>3. LineInv'
    BY <1>1, <2>1 DEF LineInv, LineIsKnown, Terminal, BlocksStartLines
  <2>4. ErasedInv'
    BY <1>1, <2>1, EmptyIsHasty DEF ErasedInv, Spared, Terminal, IsHasty
  <2> QED
    BY <2>1, <2>2, <2>3, <2>4 DEF ShellInv
<1>4. CASE Wake \/ EndOfInput
  <2>1. /\ console' = Answered /\ UNCHANGED <<landed, erased, early>>
        /\ line' \in {line, <<>>} /\ (line' = <<>> \/ early)
        /\ loop' \in {"command", "ended"}
    BY <1>1, <1>4 DEF Wake, EndOfInput, LineInv
  <2>2. ShellTypeOK'
    BY <1>1, <1>2, <2>1 DEF ShellTypeOK, Terminal, TerminalState, Answered
  <2>3. LineInv'
    BY <1>1, <2>1 DEF LineInv, LineIsKnown, Terminal, BlocksStartLines
  <2>4. ErasedInv'
    <3>1. IsHasty(line) => IsHasty(line')
      BY <2>1, EmptyIsHasty
    <3>2. Terminal'.visible = FALSE /\ Terminal'.erased = Terminal.erased
      BY <2>1 DEF Terminal, Answered
    <3> QED
      BY <1>1, <2>1, <3>1, <3>2 DEF ErasedInv, Spared, IsHasty
  <2> QED
    BY <2>1, <2>2, <2>3, <2>4 DEF ShellInv
<1>5. CASE Quit
  BY <1>1, <1>5 DEF Quit, screen, ShellInv, ShellTypeOK, LineInv, Terminal, LineIsKnown,
     BlocksStartLines, ErasedInv, Spared, IsHasty
<1>6. CASE CommandWrites
  <2>1. Tidy(Terminal, Block(Terminal))
    BY <1>1, BlockFacts
  <2>2. Screen(Block(Terminal)) /\ UNCHANGED <<early, loop>> /\ loop = "command"
    BY <1>6 DEF CommandWrites
  <2> QED
    BY <2>1, <2>2, Drawn
<1> QED
  BY <1>3, <1>4, <1>5, <1>6

-----------------------------------------------------------------------------
(* The messages of the threads.                                            *)

LEMMA IncreasingAppend ==
    ASSUME NEW s \in Seq(Nat), NEW d \in Nat, \A k \in DOMAIN s : s[k] <= d, Increasing(s)
    PROVE  /\ Increasing(Append(s, d + 1))
           /\ ToSet(Append(s, d + 1)) = ToSet(s) \cup {d + 1}
<1> DEFINE q == Append(s, d + 1)
<1>1. /\ \A k \in DOMAIN s : k \in DOMAIN q /\ q[k] = s[k] /\ s[k] \in Nat /\ k < Len(s) + 1
      /\ Len(s) + 1 \in DOMAIN q /\ q[Len(s) + 1] = d + 1
      /\ \A k \in DOMAIN q : k \in DOMAIN s \/ k = Len(s) + 1
      /\ Len(s) \in Nat /\ DOMAIN q \subseteq Nat
  OBVIOUS
<1> HIDE DEF q
<1>2. Increasing(q)
  <2> SUFFICES ASSUME NEW j \in DOMAIN q, NEW k \in DOMAIN q, j < k PROVE q[j] < q[k]
    BY DEF Increasing
  <2>1. j \in DOMAIN s
    BY <1>1
  <2>2. CASE k \in DOMAIN s
    BY <1>1, <2>1, <2>2 DEF Increasing
  <2>3. CASE k = Len(s) + 1
    BY <1>1, <2>1, <2>3
  <2> QED
    BY <1>1, <2>2, <2>3
<1>3. ToSet(q) = ToSet(s) \cup {d + 1}
  BY <1>1 DEF ToSet
<1> QED
  BY <1>2, <1>3 DEF q

LEMMA IncreasingWhole ==
    ASSUME NEW n \in Nat, NEW d \in 0 .. n, NEW s \in Seq(1 .. n), ToSet(s) = {}
    PROVE  LET whole == s \o [k \in 1 .. d |-> k] IN
           whole \in Seq(1 .. n) /\ Increasing(whole) /\ ToSet(whole) = 1 .. d
<1> DEFINE q == [k \in 1 .. d |-> k]
<1>1. q \in Seq(1 .. n) /\ Len(q) = d /\ DOMAIN q = 1 .. d /\ \A k \in 1 .. d : q[k] = k
  OBVIOUS
<1>2. s = <<>>
  <2>1. DOMAIN s = {}
    BY DEF ToSet
  <2>2. 1 \notin DOMAIN s
    BY <2>1
  <2> QED
    BY <2>2
<1> HIDE DEF q
<1>3. s \o q = q
  BY <1>1, <1>2
<1>4. Increasing(q) /\ ToSet(q) = 1 .. d
  BY <1>1 DEF Increasing, ToSet
<1> QED
  BY <1>1, <1>3, <1>4 DEF q

\* What a step leaves alone stays as it is.
LEMMA MessageKept ==
    ASSUME NEW m \in Message, MessageInv(m), deltas'[m] = deltas[m], missed'[m] = missed[m],
           shown'[m] = shown[m], m \in completed' <=> m \in completed,
           m \in streaming' <=> m \in streaming
    PROVE  MessageInv(m)'
BY DEF MessageInv, Heard

FeedInv == FeedTypeOK /\ WritingInv /\ MessagesInv

LEMMA FeedQuiet ==
    ASSUME FeedInv, NEW th \in Thread,
           \/ TurnStarted(th) \/ OtherBlock(th) \/ Resubscribe(th)
           \/ \E m \in Message : MessageStarted(th, m)
           \/ \E how \in {"completed", "interrupted"} : TurnEnded(th, how)
    PROVE  FeedInv'
<1>1. /\ UNCHANGED <<streaming, shown, completed, deltas, missed>>
      /\ unheard' \subseteq Thread /\ open' \subseteq Thread /\ gaps' \in 0 .. MaxGaps
  BY ConsoleAssumption DEF TurnStarted, OtherBlock, Resubscribe, MessageStarted, TurnEnded, seen, hearing, feed,
     Unheard, FeedInv, FeedTypeOK
<1>2. MessagesInv'
  BY <1>1, MessageKept DEF FeedInv, MessagesInv
<1>3. CASE TurnStarted(th) \/ OtherBlock(th) \/ Resubscribe(th)
  <2>1. UNCHANGED writing /\ open \subseteq open'
    BY <1>3 DEF TurnStarted, OtherBlock, Resubscribe, feed
  <2> QED
    BY <1>1, <1>2, <2>1 DEF FeedInv, FeedTypeOK, WritingInv
<1>4. CASE \E m \in Message : MessageStarted(th, m)
  <2>1. PICK m \in Message : MessageStarted(th, m)
    BY <1>4
  <2>2. /\ th \in open /\ open' = open /\ m \notin completed /\ \A o \in Thread : writing[o] # m
        /\ writing' = [writing EXCEPT ![th] = m]
    BY <2>1 DEF MessageStarted
  <2>3. /\ writing' \in [Thread -> Message \cup {NoMessage}] /\ writing'[th] = m
        /\ \A o \in Thread \ {th} : writing'[o] = writing[o]
    BY <2>2 DEF FeedInv, FeedTypeOK
  <2>4. WritingInv'
    BY <1>1, <2>2, <2>3 DEF FeedInv, WritingInv
  <2> QED
    BY <1>1, <1>2, <2>3, <2>4 DEF FeedInv, FeedTypeOK
<1>5. CASE \E how \in {"completed", "interrupted"} : TurnEnded(th, how)
  <2>1. open' = open \ {th} /\ writing' = [writing EXCEPT ![th] = NoMessage]
    BY <1>5 DEF TurnEnded
  <2>2. /\ writing' \in [Thread -> Message \cup {NoMessage}] /\ writing'[th] = NoMessage
        /\ \A o \in Thread \ {th} : writing'[o] = writing[o]
    BY <2>1 DEF FeedInv, FeedTypeOK
  <2>3. WritingInv'
    BY <1>1, <2>1, <2>2 DEF FeedInv, WritingInv
  <2> QED
    BY <1>1, <1>2, <2>2, <2>3 DEF FeedInv, FeedTypeOK
<1> QED
  BY <1>3, <1>4, <1>5

\* A delta that is heard is appended to what is shown, another is missed.
LEMMA FeedDelta ==
    ASSUME FeedInv, NEW th \in Thread, NEW delta \in {"text", "newline", "empty"},
           MessageDelta(th, delta)
    PROVE  FeedInv' /\ th \in open /\ writing[th] \in Message
<1>1. PICK m \in Message, d \in Nat :
          /\ m = writing[th] /\ d = deltas[m]
          /\ m \notin completed /\ th \in open /\ d < MaxDeltas /\ MaxDeltas \in Nat
          /\ deltas' = [deltas EXCEPT ![m] = d + 1]
          /\ UNCHANGED <<unheard, gaps, open, writing>>
  <2>1. /\ writing[th] # NoMessage /\ deltas[writing[th]] < MaxDeltas
        /\ deltas' = [deltas EXCEPT ![writing[th]] = @ + 1]
        /\ UNCHANGED <<unheard, gaps, open, writing>>
    BY DEF MessageDelta, hearing
  <2>2. writing[th] \in Message /\ writing[th] \notin completed /\ th \in open
    BY <2>1 DEF FeedInv, FeedTypeOK, WritingInv
  <2>3. deltas[writing[th]] \in Nat /\ MaxDeltas \in Nat
    BY <2>2, ConsoleAssumption DEF FeedInv, FeedTypeOK
  <2> QED
    BY <2>1, <2>2, <2>3
<1>2. /\ deltas' \in [Message -> 0 .. MaxDeltas] /\ deltas'[m] = d + 1
      /\ \A o \in Message \ {m} : deltas'[o] = deltas[o]
  BY <1>1 DEF FeedInv, FeedTypeOK
<1>3. d + 1 \in 1 .. MaxDeltas /\ 1 .. d + 1 = (1 .. d) \cup {d + 1} /\ d + 1 \notin 1 .. d
  BY <1>1
<1>4. /\ missed[m] \subseteq 1 .. d /\ Increasing(shown[m]) /\ ToSet(shown[m]) = Heard(m)
      /\ m \in streaming <=> Heard(m) # {}
      /\ Heard(m) = (1 .. d) \ missed[m]
      /\ shown[m] \in Seq(1 .. MaxDeltas)
  BY <1>1 DEF FeedInv, FeedTypeOK, MessagesInv, MessageInv, Heard
<1>5. CASE RenderDelta(th, m, delta) /\ UNCHANGED missed
  <2>1. /\ streaming' = streaming \cup {m} /\ completed' = completed
        /\ shown' = [shown EXCEPT ![m] = Append(@, d + 1)]
    BY <1>2, <1>5 DEF RenderDelta
  <2>2. Append(shown[m], d + 1) \in Seq(1 .. MaxDeltas)
    BY <1>3, <1>4
  <2>3. /\ shown' \in [Message -> Seq(1 .. MaxDeltas)] /\ shown'[m] = Append(shown[m], d + 1)
        /\ \A o \in Message \ {m} : shown'[o] = shown[o]
    BY <1>1, <2>1, <2>2 DEF FeedInv, FeedTypeOK
  <2>4. shown[m] \in Seq(Nat) /\ \A k \in DOMAIN shown[m] : shown[m][k] <= d
    <3>1. \A k \in DOMAIN shown[m] : shown[m][k] \in 1 .. d
      BY <1>4 DEF ToSet
    <3> QED
      BY <1>1, <1>4, <3>1
  <2>5. Increasing(shown'[m]) /\ ToSet(shown'[m]) = ToSet(shown[m]) \cup {d + 1}
    <3>1. /\ Increasing(Append(shown[m], d + 1))
          /\ ToSet(Append(shown[m], d + 1)) = ToSet(shown[m]) \cup {d + 1}
      BY <1>4, <2>4, IncreasingAppend
    <3> QED
      BY <2>3, <3>1
  <2>6. Heard(m)' = Heard(m) \cup {d + 1}
    BY <1>2, <1>3, <1>4, <1>5 DEF Heard
  <2>7. MessageInv(m)'
    BY <1>1, <1>2, <1>3, <1>4, <1>5, <2>1, <2>5, <2>6 DEF MessageInv
  <2>8. MessagesInv'
    <3> SUFFICES ASSUME NEW o \in Message, o # m PROVE MessageInv(o)'
      BY <2>7 DEF MessagesInv
    <3> QED
      BY <1>2, <1>5, <2>1, <2>3, MessageKept DEF FeedInv, MessagesInv
  <2> QED
    BY <1>1, <1>2, <1>5, <2>1, <2>3, <2>8 DEF FeedInv, FeedTypeOK, WritingInv
<1>6. CASE /\ Unheard(th)
           /\ missed' = [missed EXCEPT ![m] = missed[m] \cup {d + 1}]
  <2>1. UNCHANGED <<streaming, shown, completed>>
    BY <1>6 DEF Unheard, seen
  <2>2. /\ missed' \in [Message -> SUBSET (1 .. MaxDeltas)] /\ missed'[m] = missed[m] \cup {d + 1}
        /\ \A o \in Message \ {m} : missed'[o] = missed[o]
    BY <1>1, <1>3, <1>6 DEF FeedInv, FeedTypeOK
  <2>3. Heard(m)' = Heard(m)
    BY <1>2, <1>3, <1>4, <2>2 DEF Heard
  <2>4. MessageInv(m)'
    BY <1>1, <1>2, <1>3, <1>4, <2>1, <2>2, <2>3 DEF MessageInv
  <2>5. MessagesInv'
    <3> SUFFICES ASSUME NEW o \in Message, o # m PROVE MessageInv(o)'
      BY <2>4 DEF MessagesInv
    <3> QED
      BY <1>2, <2>1, <2>2, MessageKept DEF FeedInv, MessagesInv
  <2> QED
    BY <1>1, <1>2, <2>1, <2>2, <2>5 DEF FeedInv, FeedTypeOK, WritingInv
<1> QED
  BY <1>1, <1>2, <1>5, <1>6 DEF MessageDelta

\* A message that is completed shows what was heard of it, or else the whole text.
LEMMA FeedCompleted ==
    ASSUME FeedInv, NEW th \in Thread, MessageCompleted(th)
    PROVE  FeedInv' /\ th \in open
<1>1. PICK m \in Message :
          /\ m = writing[th] /\ m \notin completed /\ th \in open
          /\ \A o \in Thread \ {th} : writing[o] # m
          /\ writing' = [writing EXCEPT ![th] = NoMessage]
          /\ UNCHANGED <<unheard, gaps, open, deltas, missed>>
  BY DEF MessageCompleted, FeedInv, FeedTypeOK, WritingInv, hearing
<1>2. /\ writing' \in [Thread -> Message \cup {NoMessage}] /\ writing'[th] = NoMessage
      /\ \A o \in Thread \ {th} : writing'[o] = writing[o]
  BY <1>1 DEF FeedInv, FeedTypeOK
<1>3. /\ MessageInv(m) /\ shown[m] \in Seq(1 .. MaxDeltas) /\ deltas[m] \in 0 .. MaxDeltas
      /\ ToSet(shown[m]) = Heard(m) /\ (m \in streaming <=> Heard(m) # {})
  BY <1>1 DEF FeedInv, FeedTypeOK, MessagesInv, MessageInv
<1>4. CASE Unheard(th)
  <2>1. UNCHANGED <<streaming, shown, completed>>
    BY <1>4 DEF Unheard, seen
  <2>2. MessagesInv'
    BY <1>1, <2>1, MessageKept DEF FeedInv, MessagesInv
  <2> QED
    BY <1>1, <1>2, <2>1, <2>2 DEF FeedInv, FeedTypeOK, WritingInv
<1>5. CASE RenderMessage(th, m)
  <2>1. /\ completed' = completed \cup {m}
        /\ \/ m \in streaming /\ streaming' = streaming \ {m} /\ shown' = shown
           \/ /\ m \notin streaming /\ streaming' = streaming
              /\ shown' = [shown EXCEPT ![m] = @ \o [k \in 1 .. deltas[m] |-> k]]
    BY <1>5 DEF RenderMessage
  <2>2. /\ shown' \in [Message -> Seq(1 .. MaxDeltas)] /\ MessageInv(m)'
        /\ \A o \in Message \ {m} : shown'[o] = shown[o]
    <3>1. Heard(m)' = Heard(m)
      BY <1>1 DEF Heard
    <3>2. CASE m \in streaming
      BY <1>1, <1>3, <2>1, <3>1, <3>2 DEF MessageInv, FeedInv, FeedTypeOK
    <3>3. CASE m \notin streaming
      <4> DEFINE whole == shown[m] \o [k \in 1 .. deltas[m] |-> k]
      <4>1. whole \in Seq(1 .. MaxDeltas) /\ Increasing(whole) /\ ToSet(whole) = 1 .. deltas[m]
        BY <1>3, <3>3, ConsoleAssumption, IncreasingWhole
      <4>2. shown' = [shown EXCEPT ![m] = whole]
        BY <2>1, <3>3
      <4> HIDE DEF whole
      <4>3. /\ shown' \in [Message -> Seq(1 .. MaxDeltas)] /\ shown'[m] = whole
            /\ \A o \in Message \ {m} : shown'[o] = shown[o]
        BY <4>1, <4>2 DEF FeedInv, FeedTypeOK
      <4>4. MessageInv(m)'
        BY <1>1, <1>3, <2>1, <3>1, <3>3, <4>1, <4>3 DEF MessageInv
      <4> QED
        BY <4>3, <4>4
    <3> QED
      BY <3>2, <3>3
  <2>3. MessagesInv'
    <3> SUFFICES ASSUME NEW o \in Message, o # m PROVE MessageInv(o)'
      BY <2>2 DEF MessagesInv
    <3> QED
      BY <1>1, <2>1, <2>2, MessageKept DEF FeedInv, MessagesInv
  <2>4. WritingInv'
    BY <1>1, <1>2, <2>1 DEF FeedInv, FeedTypeOK, WritingInv
  <2> QED
    BY <1>1, <1>2, <2>1, <2>2, <2>3, <2>4 DEF FeedInv, FeedTypeOK
<1> QED
  BY <1>1, <1>4, <1>5 DEF MessageCompleted

-----------------------------------------------------------------------------
(* The prompt.                                                             *)

ConsoleInv == ShellInv /\ PromptInv /\ FeedInv

\* A prompt is redrawn, or there is a turn to wait for.
LEMMA PromptKept ==
    ASSUME PromptInv, UNCHANGED <<loop, unheard>>, console'.prompt = console.prompt,
           \/ console'.visible = console.visible /\ open \subseteq open' \cup unheard
           \/ console.prompt => console'.visible
           \/ \E th \in open' : th \notin unheard
    PROVE  PromptInv'
BY DEF PromptInv, PromptComesBack

LEMMA ThreadStep ==
    ASSUME ConsoleInv, NEW th \in Thread,
           \/ TurnStarted(th) \/ MessageCompleted(th) \/ OtherBlock(th)
           \/ \E m \in Message : MessageStarted(th, m)
           \/ \E delta \in {"text", "newline", "empty"} : MessageDelta(th, delta)
           \/ \E how \in {"completed", "interrupted"} : TurnEnded(th, how)
    PROVE  ConsoleInv'
<1> DEFINE t == Terminal
<1>1. ShellInv /\ PromptInv /\ FeedInv /\ t \in TerminalState /\ t.prompt = console.prompt
  BY TerminalFields DEF ConsoleInv, ShellInv, ShellTypeOK
<1> HIDE DEF t
<1>2. CASE TurnStarted(th) \/ \E m \in Message : MessageStarted(th, m)
  <2>1. UNCHANGED <<shell, unheard>> /\ open \subseteq open'
    BY <1>2 DEF TurnStarted, MessageStarted, hearing
  <2>2. ShellInv' /\ UNCHANGED <<loop, console>>
    BY <1>1, <2>1, ShellKept DEF shell, screen
  <2>3. PromptInv'
    BY <1>1, <2>1, <2>2, PromptKept
  <2> QED
    BY <1>1, <1>2, <2>2, <2>3, FeedQuiet DEF ConsoleInv
<1>3. CASE MessageCompleted(th)
  <2>1. FeedInv' /\ th \in open /\ UNCHANGED <<open, unheard>>
    BY <1>1, <1>3, FeedCompleted DEF MessageCompleted, hearing
  <2>2. CASE Unheard(th)
    <3>1. ShellInv' /\ UNCHANGED <<loop, console>>
      BY <1>1, <2>2, ShellKept DEF Unheard, shell, screen
    <3> QED
      BY <1>1, <2>1, <3>1, PromptKept DEF ConsoleInv
  <2>3. CASE RenderMessage(th, writing[th])
    <3>1. Render(th, BreakLine(t)) \/ Render(th, Block(t))
      BY <2>3 DEF RenderMessage, t
    <3>2. Tidy(t, BreakLine(t)) /\ Tidy(t, Block(t))
      BY <1>1, BreakLineFacts, BlockFacts
    <3>3. ShellInv' /\ loop' = loop /\ th \notin unheard /\ console'.prompt = console.prompt
      BY <1>1, <3>1, <3>2, Rendered DEF t
    <3> QED
      BY <1>1, <2>1, <3>3, PromptKept DEF ConsoleInv
  <2> QED
    BY <1>3, <2>2, <2>3 DEF MessageCompleted
<1>4. CASE OtherBlock(th)
  <2>1. Render(th, Block(t)) /\ UNCHANGED <<open, unheard>>
    BY <1>4 DEF OtherBlock, hearing, feed, t
  <2>2. Tidy(t, Block(t)) /\ (t.prompt => Block(t).visible)
    BY <1>1, BlockFacts
  <2>3. /\ ShellInv' /\ loop' = loop /\ console'.prompt = console.prompt
        /\ console.prompt => console'.visible
    BY <1>1, <2>1, <2>2, Rendered DEF t
  <2> QED
    BY <1>1, <1>4, <2>1, <2>3, PromptKept, FeedQuiet DEF ConsoleInv
<1>5. ASSUME NEW delta \in {"text", "newline", "empty"}, MessageDelta(th, delta) PROVE ConsoleInv'
  <2>1. FeedInv' /\ th \in open /\ writing[th] \in Message /\ UNCHANGED <<open, unheard>>
    BY <1>1, <1>5, FeedDelta DEF MessageDelta, hearing
  <2>2. CASE Unheard(th)
    <3>1. ShellInv' /\ UNCHANGED <<loop, console>>
      BY <1>1, <2>2, ShellKept DEF Unheard, shell, screen
    <3> QED
      BY <1>1, <2>1, <3>1, PromptKept DEF ConsoleInv
  <2>3. CASE RenderDelta(th, writing[th], delta)
    <3>1. PICK u \in {t, OpenMessage(t, writing[th])} : Render(th, Write(u, writing[th], delta))
      BY <2>3 DEF RenderDelta, t
    <3>2. Tidy(t, u)
      BY <1>1, <2>1, <3>1, OpenMessageFacts DEF Tidy
    <3>3. Tidy(u, Write(u, writing[th], delta))
      BY <2>1, <3>2, WriteFacts DEF Tidy
    <3>4. Tidy(t, Write(u, writing[th], delta))
      BY <3>2, <3>3, TidyThen
    <3>5. ShellInv' /\ loop' = loop /\ th \notin unheard /\ console'.prompt = console.prompt
      BY <1>1, <3>1, <3>4, Rendered DEF t
    <3> QED
      BY <1>1, <2>1, <3>5, PromptKept DEF ConsoleInv
  <2> QED
    BY <1>5, <2>2, <2>3 DEF MessageDelta
<1>6. ASSUME NEW how \in {"completed", "interrupted"}, TurnEnded(th, how) PROVE ConsoleInv'
  <2>1. FeedInv' /\ open' = open \ {th} /\ UNCHANGED unheard
    BY <1>1, <1>6, FeedQuiet DEF TurnEnded, hearing
  <2>2. CASE Unheard(th)
    <3>1. ShellInv' /\ UNCHANGED <<loop, console>> /\ (th \in unheard \/ loop = "ended")
      BY <1>1, <2>2, ShellKept DEF Unheard, shell, screen
    <3>2. PromptInv'
      <4>1. CASE th \in unheard
        BY <1>1, <2>1, <3>1, <4>1, PromptKept
      <4>2. CASE loop = "ended"
        BY <3>1, <4>2 DEF PromptInv, PromptComesBack
      <4> QED
        BY <3>1, <4>1, <4>2
    <3> QED
      BY <2>1, <3>1, <3>2 DEF ConsoleInv
  <2>3. ASSUME NEW u, Render(th, u), u = Blank(t) \/ u = Block(t) PROVE ConsoleInv'
    <3>1. Tidy(t, u) /\ (t.prompt => u.visible)
      BY <1>1, <2>3, BlankFacts, BlockFacts
    <3>2. /\ ShellInv' /\ loop' = loop /\ console'.prompt = console.prompt
          /\ console.prompt => console'.visible
      BY <1>1, <2>3, <3>1, Rendered DEF t
    <3> QED
      BY <1>1, <2>1, <3>2, PromptKept DEF ConsoleInv
  <2> QED
    BY <1>6, <2>2, <2>3 DEF TurnEnded, t
<1> QED
  BY <1>2, <1>3, <1>4, <1>5, <1>6

LEMMA LoopStep ==
    ASSUME ConsoleInv,
           \/ \E th \in Thread : Resubscribe(th)
           \/ Ask \/ Enter \/ Wake \/ EndOfInput \/ Quit \/ CommandWrites
    PROVE  ConsoleInv'
<1>1. ShellInv /\ FeedInv
  BY DEF ConsoleInv
<1>2. ASSUME NEW th \in Thread, Resubscribe(th) PROVE ConsoleInv'
  <2>1. FeedInv' /\ UNCHANGED shell /\ loop = "command"
    BY <1>1, <1>2, FeedQuiet DEF Resubscribe
  <2>2. ShellInv' /\ loop' = "command"
    BY <1>1, <2>1, ShellKept DEF shell
  <2> QED
    BY <2>1, <2>2 DEF ConsoleInv, PromptInv, PromptComesBack
<1>3. ASSUME UNCHANGED <<seen, hearing, feed>> PROVE FeedInv'
  BY <1>1, <1>3 DEF seen, hearing, feed, FeedInv, FeedTypeOK, WritingInv, MessagesInv, MessageInv,
     Heard
<1>4. CASE Ask
  <2>1. ShellInv' /\ console'.prompt = TRUE /\ console'.visible = TRUE
    BY <1>1, <1>4, Asked
  <2>2. FeedInv'
    BY <1>3, <1>4 DEF Ask
  <2> QED
    BY <2>1, <2>2 DEF ConsoleInv, PromptInv, PromptComesBack
<1>5. CASE Enter \/ Wake \/ EndOfInput \/ Quit \/ CommandWrites
  <2>1. ShellInv' /\ loop' # "asking"
    BY <1>1, <1>5, ShellLoop
  <2>2. FeedInv'
    BY <1>3, <1>5 DEF Enter, Wake, EndOfInput, Quit, CommandWrites
  <2> QED
    BY <2>1, <2>2 DEF ConsoleInv, PromptInv, PromptComesBack
<1> QED
  BY <1>2, <1>4, <1>5

LEMMA ConsoleInit == Init => ConsoleInv
<1> SUFFICES ASSUME Init PROVE ConsoleInv
  OBVIOUS
<1>1. <<>> \in Seq(Segment) /\ <<>> \in Seq(1 .. MaxDeltas)
  OBVIOUS
<1>2. ShellInv
  BY <1>1 DEF Init, ShellInv, ShellTypeOK, LineInv, LineIsKnown, BlocksStartLines, Terminal,
     TerminalState, ErasedInv, Spared, IsHasty
<1>3. PromptInv
  BY DEF Init, PromptInv, PromptComesBack
<1>4. FeedTypeOK
  BY <1>1, ConsoleAssumption DEF Init, FeedTypeOK
<1>5. WritingInv
  BY DEF Init, WritingInv
<1>6. MessagesInv
  BY DEF Init, MessagesInv, MessageInv, Heard, Increasing, ToSet
<1> QED
  BY <1>2, <1>3, <1>4, <1>5, <1>6 DEF ConsoleInv, FeedInv

LEMMA ConsoleStep == ConsoleInv /\ [Next]_vars => ConsoleInv'
<1>1. ASSUME ConsoleInv, UNCHANGED vars PROVE ConsoleInv'
  <2>1. ShellInv'
    BY <1>1, ShellKept DEF vars, ConsoleInv
  <2>2. FeedInv'
    BY <1>1 DEF vars, seen, hearing, feed, ConsoleInv, FeedInv, FeedTypeOK, WritingInv, MessagesInv,
       MessageInv, Heard
  <2> QED
    BY <1>1, <2>1, <2>2 DEF vars, shell, screen, hearing, feed, ConsoleInv, PromptInv, PromptComesBack
<1> QED
  BY <1>1, ThreadStep, LoopStep DEF Next

-----------------------------------------------------------------------------
\* A block begins an empty line, unless output came between the user's Enter and
\* the finally clause of ask().
THEOREM BlocksCorrect == Spec => []BlocksStartLines
<1>1. ConsoleInv => BlocksStartLines
  BY DEF ConsoleInv, ShellInv, LineInv
<1> QED
  BY <1>1, ConsoleInit, ConsoleStep, PTL DEF Spec

\* The prompt the client waits at is hidden only by a message of a turn whose end
\* the client will hear of, which redraws it.
THEOREM PromptBackCorrect == Spec => []PromptComesBack
<1>1. ConsoleInv => PromptComesBack
  BY DEF ConsoleInv, PromptInv
<1> QED
  BY <1>1, ConsoleInit, ConsoleStep, PTL DEF Spec

\* A message that is completed is written once and in order, however its deltas,
\* other output and gaps of the subscription alternate; and no text is cleared off
\* the terminal but what came between an output ahead of the finally clause of ask()
\* and the next prompt.
THEOREM MessagesCorrect == Spec => []MessagesAreShownOnce
<1>1. ASSUME ConsoleInv PROVE MessagesAreShownOnce
  <2>1. \A text \in erased : text.hasty
    BY <1>1, TerminalFields DEF ConsoleInv, ShellInv, ErasedInv, Spared
  <2> QED
    BY <1>1, <2>1 DEF ConsoleInv, FeedInv, FeedTypeOK, MessagesInv, MessageInv, MessagesAreShownOnce,
       Heard, Increasing
<1> QED
  BY <1>1, ConsoleInit, ConsoleStep, PTL DEF Spec

=============================================================================
