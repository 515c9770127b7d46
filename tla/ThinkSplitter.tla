---------------------------- MODULE ThinkSplitter ----------------------------
(***************************************************************************)
(* One answer of the model as LlmClient.stream reads it: content arrives   *)
(* in chunks cut anywhere, and _ThinkSplitter routes what stands between a *)
(* leading Open tag and the first Close tag to the reasoning, the rest to  *)
(* the content. Text that may still turn out to be part of a tag is        *)
(* withheld until more comes.                                              *)
(*                                                                         *)
(* A text is a sequence of characters. What a provider sends as reasoning  *)
(* of its own (reasoning_content), progress and usage pass by the splitter *)
(* and are left out; an empty delta is not fed.                            *)
(***************************************************************************)
EXTENDS Naturals, SequencesExt, FiniteSetsExt

CONSTANTS
    Characters,     \* what texts and tags are made of
    Open, Close,    \* the tags
    Space,          \* the characters lstrip takes away
    Texts           \* what the model may say: a bound

\* "<think>" and "</think>".
ASSUME TagsAssumption == /\ Open \in Seq(Characters) \ {<<>>}
                         /\ Close \in Seq(Characters)
                         /\ Len(Open) <= Len(Close)
ASSUME TextsAssumption == Texts \subseteq Seq(Characters)

VARIABLES
    fed,        \* what has arrived
    rest,       \* what is still to come
    state,      \* of the splitter: "start", "thinking" or "plain"
    buf,        \* withheld
    reasoning,  \* sent as reasoning
    content,    \* sent as content
    stream      \* "idle", "open", "done" or "failed"

splitterVars == <<fed, rest, state, buf, reasoning, content, stream>>

From(text, i) == SubSeq(text, i, Len(text))
Stripped(text) == SelectInSeq(text, LAMBDA c : c \notin Space)
LStrip(text) == IF Stripped(text) = 0 THEN <<>> ELSE From(text, Stripped(text))

\* str.find, 0 when there is none.
Ends(text) ==
    {i \in 1..(Len(text) - Len(Close) + 1) : SubSeq(text, i, i + Len(Close) - 1) = Close}
Find(text) == IF Ends(text) = {} THEN 0 ELSE Min(Ends(text))

SplitterInit ==
    /\ fed = <<>> /\ rest = <<>>
    /\ state = "start" /\ buf = <<>>
    /\ reasoning = <<>> /\ content = <<>>
    /\ stream = "idle"

\* The model starts to answer.
Speak(text) ==
    /\ stream = "idle"
    /\ stream' = "open"
    /\ rest' = text
    /\ UNCHANGED <<fed, state, buf, reasoning, content>>

-----------------------------------------------------------------------------
(* feed                                                                    *)

Withhold(text) ==
    /\ buf' = text
    /\ UNCHANGED <<state, reasoning, content>>

Say(text) ==
    /\ state' = "plain" /\ buf' = <<>>
    /\ content' = content \o text
    /\ UNCHANGED reasoning

\* Mutant: one character less.
KeepLess == Len(Close) - 2

\* A tail that could be the start of the Close tag.
Keep == Len(Close) - 1

Think(text) ==
    LET end == Find(text)
        sent == IF end > 0 THEN end - 1
                ELSE IF Len(text) > Keep THEN Len(text) - Keep ELSE 0
    IN  /\ reasoning' = reasoning \o SubSeq(text, 1, sent)
        /\ IF end > 0
           THEN /\ state' = "plain" /\ buf' = <<>>
                /\ content' = content \o LStrip(From(text, end + Len(Close)))
           ELSE /\ state' = "thinking" /\ buf' = From(text, sent + 1)
                /\ UNCHANGED content

Feed(n) ==
    LET text == buf \o SubSeq(rest, 1, n)
    IN  /\ stream = "open"
        /\ fed' = fed \o SubSeq(rest, 1, n)
        /\ rest' = From(rest, n + 1)
        /\ \/ state = "start" /\ IsStrictPrefix(text, Open) /\ Withhold(text)
           \/ state = "start" /\ IsPrefix(Open, text) /\ Think(From(text, Len(Open) + 1))
           \/ state = "start" /\ ~IsPrefix(text, Open) /\ ~IsPrefix(Open, text) /\ Say(text)
           \/ state = "thinking" /\ Think(text)
           \/ state = "plain" /\ Say(text)
        /\ UNCHANGED stream

\* [DONE], or the response ends without it: flush.
Done ==
    /\ stream = "open" /\ rest = <<>>
    /\ stream' = "done"
    /\ buf' = <<>>
    /\ IF state = "thinking"
       THEN reasoning' = reasoning \o buf /\ UNCHANGED content
       ELSE content' = content \o buf /\ UNCHANGED reasoning
    /\ UNCHANGED <<fed, rest, state>>

\* An error chunk, a line that cannot be read, a broken connection, or a reader
\* who stopped: what is withheld goes with the splitter.
Broken ==
    /\ stream = "open"
    /\ stream' = "failed"
    /\ UNCHANGED <<fed, rest, state, buf, reasoning, content>>

-----------------------------------------------------------------------------
SplitterNext ==
    \/ \E text \in Texts : Speak(text)
    \/ \E n \in 1..Len(rest) : Feed(n)
    \/ Done \/ Broken

SplitterSpec == SplitterInit /\ [][SplitterNext]_splitterVars

-----------------------------------------------------------------------------
(* Properties                                                              *)

Opened(text) == IsPrefix(Open, text)
Thought(text) == From(text, Len(Open) + 1)

\* What a whole text says, read in one piece.
ReasoningOf(text) ==
    IF ~Opened(text) THEN <<>>
    ELSE LET end == Find(Thought(text))
         IN  IF end = 0 THEN Thought(text) ELSE SubSeq(Thought(text), 1, end - 1)

ContentOf(text) ==
    IF ~Opened(text) THEN text
    ELSE LET end == Find(Thought(text))
         IN  IF end = 0 THEN <<>> ELSE LStrip(From(Thought(text), end + Len(Close)))

Withheld(kind) ==
    IF (kind = "reasoning") = (state = "thinking") THEN buf ELSE <<>>

\* Wherever the chunks were cut, what was sent and what is withheld make up the
\* reasoning and the content of what has arrived (_ThinkSplitter), but for the
\* spaces after the Close tag, of which a later chunk's are kept; and less than
\* a tag is withheld, which is what a broken stream loses.
SplitAsOnePiece ==
    LET said == content \o Withheld("content")
    IN  /\ reasoning \o Withheld("reasoning") = ReasoningOf(fed)
        /\ said = ContentOf(fed) \/ (Opened(fed) /\ LStrip(said) = ContentOf(fed))
        /\ Len(buf) < Len(Close)
=============================================================================
