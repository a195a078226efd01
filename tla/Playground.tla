----------------------------- MODULE Playground -----------------------------
(***************************************************************************)
(* The chat of the playground page (web/src/features/playground): the      *)
(* conversation, the generation that writes its last message, and the copy *)
(* kept in localStorage.                                                   *)
(*                                                                         *)
(* The page is one thread.  An action is one task of its event loop: an    *)
(* event of the user, a timer, or an event of the stream or of the http    *)
(* call.  What races is React: setMessages(updater) only queues the        *)
(* updater, a later task (Render) applies the queue, and until then the    *)
(* handlers of the page still hold the conversation and the isGenerating   *)
(* of the last render.  React may also run the first updater of an empty   *)
(* queue at once (its eager state), so both orders are allowed.  An event  *)
(* of the user is rendered before the task ends, queued updates included.  *)
(*                                                                         *)
(* A text is a sequence of pieces.  A piece says a word; the pieces of a   *)
(* reply may repeat each other, so that the code, which compares texts,    *)
(* cannot always tell the next part of a reply from the reply so far.  The *)
(* limits of the storage are counted in pieces.  Reasoning and content,    *)
(* which run through the same code but for the collapse of sections (of    *)
(* content only), are one.                                                 *)
(* Generation numbers start again with every visit of the page in the code *)
(* and are only compared within a visit; here they go on, so that a        *)
(* message can be named by the generation it was created for.              *)
(***************************************************************************)
EXTENDS Integers, Sequences, FiniteSets, SequencesExt

CONSTANTS
    MaxActs,      \* bound on what the user does
    MaxCalls,     \* bound on the generations among it
    Replies,      \* what upstream may answer, as sequences of words
    MaxPieces,    \* bound on the length of an answer
    Headings,     \* the words that are headings of sections
    MaxStored,                   \* MAX_STORED_MESSAGES
    MAX_STORED_MESSAGES_BYTES, MAX_LOADED_MESSAGES_CHARS,
    MAX_LOADED_MESSAGE_CHARS,
    MIN_PREFIX_COLLAPSE_LENGTH, MIN_REPEATED_SECTION_COUNT

ASSUME PlaygroundAssumption ==
    /\ MaxActs \in Nat /\ MaxCalls \in Nat
    /\ MaxPieces \in Nat \ {0} /\ MaxStored \in Nat \ {0}
    /\ \A r \in Replies : r \in Seq(Nat) /\ Len(r) <= MaxPieces
    /\ MAX_LOADED_MESSAGE_CHARS \in Nat \ {0}
    /\ \A max \in {MAX_STORED_MESSAGES_BYTES, MAX_LOADED_MESSAGES_CHARS,
                   MIN_PREFIX_COLLAPSE_LENGTH, MIN_REPEATED_SECTION_COUNT} :
          max \in Nat

Gens == 0 .. MaxActs

VARIABLES
    page,        \* "open", or "away" (left, closed, reloading)
    msgs,        \* the conversation of the last render
    queue,       \* updates of the conversation not rendered yet
    shown,       \* isGenerating of the last render
    requesting, streaming,   \* isRequesting, isStreaming as last set
    gen,         \* requestGenerationRef
    pending,     \* pendingStreamChunksRef: pieces not handed to React yet
    flushTimer,  \* the generation the 50 ms timer was set for, or NoGen
    control,     \* the stream controller: its generation and its source
    calls,       \* per generation: the request it made
    editing,     \* the message in the editor, or NoId
    latest,      \* latestMessagesRef
    saveTimer,   \* the 500 ms save timer is set
    stored,      \* the conversation in localStorage
    snapshots,   \* the upstream sends the text so far, not the next piece
    acts,
    finished,    \* history: generations answered in full, and not cut short
    stopped,     \* history: generations the user stopped
    overwritten, \* history: generations an edit was saved over
    shortened    \* history: generations whose reply was shortened on load

chatVars  == <<msgs, queue, shown, requesting, streaming>>
genVars   == <<gen, pending, flushTimer, control, calls>>
saveVars  == <<latest, saveTimer, stored>>
histVars  == <<finished, stopped, overwritten, shortened>>
vars == <<page, chatVars, genVars, editing, saveVars, snapshots, acts,
          histVars>>

NoGen == -1
NoId  == [from |-> "none", key |-> 0]

\* A piece of the reply to generation g, and texts no generation wrote.
Piece(g, w) == <<g, w>>
Text        == Seq(Gens \X Nat)
ErrorText   == <<Piece(0, 0)>>
EditedText  == <<Piece(0, 1)>>

TRUNCATED_CONTENT_SUFFIX == <<Piece(0, 2)>>

\* The answer r to generation g.
Answer(g, r) == [i \in DOMAIN r |-> Piece(g, r[i])]

Message == [from : {"user", "assistant"}, key : Gens,
            status : {"none", "loading", "streaming", "complete", "error"},
            text : Text]

Id(m) == [from |-> m.from, key |-> m.key]

createUserMessage(g) ==
    [from |-> "user", key |-> g, status |-> "none", text |-> EditedText]

createLoadingAssistantMessage(g) ==
    [from |-> "assistant", key |-> g, status |-> "loading", text |-> <<>>]

\* Mutant: a reply without a single chunk counts as final.
NotStreaming(m) == m.status # "streaming"

isAssistantMessagePending(m) == m.status \in {"loading", "streaming"}
isAssistantMessageFinal(m) == m.status \in {"complete", "error"}
hasMessageContent(m) == m.text # <<>>

\* A request: sent is the text upstream has sent for it so far, and ends are
\* the lengths it had between two parts of it.
Call == [pc : {"none", "headers", "stream", "closed", "chat", "over"},
         control : Gens, sent : {t \in Text : Len(t) <= MaxPieces},
         ends : SUBSET (0 .. MaxPieces)]

NoCall == [pc |-> "none", control |-> 0, sent |-> <<>>, ends |-> {0}]

History == <<createUserMessage(0),
             [createLoadingAssistantMessage(0) EXCEPT
                !.status = "complete", !.text = EditedText]>>

Init ==
    /\ page = "open"
    /\ stored = History
    /\ msgs = stored /\ latest = stored
    /\ queue = <<>> /\ saveTimer = FALSE
    /\ shown = FALSE /\ requesting = FALSE /\ streaming = FALSE
    /\ gen = 0 /\ pending = [gen |-> 0, text |-> <<>>] /\ flushTimer = NoGen
    /\ control = [gen |-> 0, source |-> NoGen]
    /\ calls = [g \in Gens |-> NoCall]
    /\ editing = NoId
    /\ snapshots \in BOOLEAN
    /\ acts = 0
    /\ finished = {} /\ stopped = {} /\ overwritten = {} /\ shortened = {}

-----------------------------------------------------------------------------
(* The text of a reply.                                                    *)

\* Mutant: snapshots are not told from parts.
AppendStreamChunk(current, next) == current \o next

\* Mutant: a snapshot is told by its length.
ReplaceShorterChunk(current, next) ==
    IF current # <<>> /\ Len(current) <= Len(next) THEN next ELSE current \o next

\* A chunk that starts with what is there counts as a snapshot and replaces it,
\* also when upstream sent it as the next part.
mergePendingStreamChunk(current, next) ==
    IF current # <<>> /\ IsPrefix(current, next) THEN next ELSE current \o next

applyStreamingChunk(m, chunk) ==
    IF m.status = "error" THEN m
    ELSE [m EXCEPT !.text = mergePendingStreamChunk(@, chunk),
                   !.status = "streaming"]

completeAssistantMessage(m) == [m EXCEPT !.status = "complete"]

(* Updaters of the conversation: op says which, gen is the generation an   *)
(* updater checks against requestGenerationRef when it runs.               *)

Update(op, g, text, ms) == [op |-> op, gen |-> g, text |-> text, ms |-> ms]

Chunk(g, text)    == Update("chunk", g, text, <<>>)
Complete(g)       == Update("complete", g, <<>>, <<>>)
Stopped(g)        == Update("stop", g, <<>>, <<>>)
Failed(g)         == Update("fail", g, ErrorText, <<>>)
Answered(g, text) == Update("answer", g, text, <<>>)
Removed(m)        == Update("remove", NoGen, <<>>, <<m>>)
Replace(ms)       == Update("replace", NoGen, <<>>, ms)
Eager(ms)         == Update("eager", NoGen, <<>>, ms)

UpdateMessage(u, m) ==
    CASE u.op = "chunk"    -> applyStreamingChunk(m, u.text)
      [] u.op = "complete" -> IF isAssistantMessageFinal(m) THEN m
                              ELSE completeAssistantMessage(m)
      [] u.op = "stop"     -> IF isAssistantMessagePending(m)
                              THEN completeAssistantMessage(m) ELSE m
      [] u.op = "fail"     -> [m EXCEPT !.text = u.text, !.status = "error"]
      [] u.op = "answer"   -> [m EXCEPT !.text = u.text, !.status = "complete"]

updateLastAssistantMessage(ms, u) ==
    IF ms = <<>> \/ Last(ms).from # "assistant" THEN ms
    ELSE [ms EXCEPT ![Len(ms)] = UpdateMessage(u, @)]

\* No two messages of a conversation share a key (TypeOK).
removeMessage(ms, id) ==
    IF \E i \in DOMAIN ms : Id(ms[i]) = id
    THEN RemoveAt(ms, CHOOSE i \in DOMAIN ms : Id(ms[i]) = id)
    ELSE ms

\* What the updater returns when it runs while current is the generation.
applyMessageStateUpdate(u, ms, current) ==
    CASE u.op \in {"replace", "eager"} -> u.ms
      [] u.op = "remove"               -> removeMessage(ms, Id(u.ms[1]))
      [] OTHER ->
           IF u.gen # current THEN ms
           ELSE updateLastAssistantMessage(ms, u)

Applied(us, ms, current) ==
    FoldLeft(LAMBDA acc, u : applyMessageStateUpdate(u, acc, current), ms, us)

\* Mutant: a timer that was set is cleared and not set again.
PersistOnce(ms) == latest' = ms /\ saveTimer' = ~saveTimer

\* persistMessages, which every updater calls: remember, and (re)set the timer.
persistMessages(ms) == latest' = ms /\ saveTimer' = TRUE

\* The render of the queue us, with the flags as they are after the task.
RenderQueue(us) ==
    /\ msgs' = Applied(us, msgs, gen')
    /\ queue' = <<>>
    /\ shown' = (requesting' \/ streaming')
    /\ IF \E i \in DOMAIN us : us[i].op # "eager"
       THEN persistMessages(msgs')
       ELSE UNCHANGED <<latest, saveTimer>>

\* The queue after setMessages(us[1]), setMessages(us[2]), ...: React may run
\* us[1] at once when nothing is queued and no other state was set before it.
Queued(us) ==
    {queue \o us} \cup
    IF queue = <<>> /\ us # <<>> /\ Head(us).op \in {"chunk", "answer"}
    THEN {<<Eager(applyMessageStateUpdate(Head(us), msgs, gen))>> \o Tail(us)}
    ELSE {}

\* updateMessages outside an event of the user: the render comes later.
Enqueue(us) ==
    \E q \in Queued(us) :
        /\ queue' = q
        /\ UNCHANGED <<msgs, shown>>
        /\ IF queue = <<>> /\ q # <<>> /\ q[1].op = "eager"
           THEN persistMessages(q[1].ms)
           ELSE UNCHANGED <<latest, saveTimer>>

EnqueueLater(us) ==
    queue' = queue \o us /\ UNCHANGED <<msgs, shown, latest, saveTimer>>

-----------------------------------------------------------------------------
(* The stream controller and the generation counter.                       *)

\* Mutant: only the source is dropped, not a request waiting for its headers.
CancelSource == control' = [control EXCEPT !.source = NoGen]

\* send and cancel leave the source behind; its later events are ignored.
CancelStream == control' = [gen |-> control.gen + 1, source |-> NoGen]

isCurrent(g) ==
    /\ calls[g].pc \in {"stream", "closed"}
    /\ control = [gen |-> calls[g].control, source |-> g]

\* Mutant: the chunks that were not flushed move on to the next generation.
KeepPendingStreamUpdates(g) ==
    pending' = [pending EXCEPT !.gen = g] /\ flushTimer' = NoGen

discardPendingStreamUpdates(g) ==
    pending' = [gen |-> g, text |-> <<>>] /\ flushTimer' = NoGen

\* The updates flushStreamUpdates hands to React, and what it leaves.
FlushedChunk(g) ==
    IF g = gen /\ pending.gen = g /\ pending.text # <<>>
    THEN <<Chunk(g, pending.text)>> ELSE <<>>

FlushStreamUpdates == discardPendingStreamUpdates(gen)

handleStreamUpdate(g, chunk) ==
    /\ g = gen /\ pending.gen = g
    /\ pending' = [pending EXCEPT !.text = mergePendingStreamChunk(@, chunk)]
    /\ flushTimer' = IF flushTimer = NoGen THEN g ELSE flushTimer

\* Mutant: the last chunks are not flushed.
CompleteWithoutFlush(g) ==
    /\ g = gen
    /\ FlushStreamUpdates
    /\ requesting' = FALSE
    /\ EnqueueLater(<<Complete(g)>>)

\* The controller has set isStreaming before, so nothing runs at once.
handleStreamComplete(g) ==
    /\ g = gen
    /\ FlushStreamUpdates
    /\ requesting' = FALSE
    /\ EnqueueLater(FlushedChunk(g) \o <<Complete(g)>>)

handleStreamError(g) ==
    /\ g = gen
    /\ FlushStreamUpdates
    /\ requesting' = FALSE
    /\ Enqueue(FlushedChunk(g) \o <<Failed(g)>>)

\* sendStreamingChat and sendNonStreamingChat.  An http call left behind is
\* aborted: what it may still return is ignored, as its generation is over.
SendChat(stream) ==
    /\ Cardinality({g \in Gens : calls[g].pc # "none"}) < MaxCalls
    /\ gen' = gen + 1
    /\ discardPendingStreamUpdates(gen + 1)
    /\ CancelStream
    /\ streaming' = FALSE /\ requesting' = TRUE
    /\ calls' = [calls EXCEPT ![gen + 1] =
                    [pc |-> IF stream THEN "headers" ELSE "chat",
                     control |-> control.gen + 1, sent |-> <<>>, ends |-> {0}]]

-----------------------------------------------------------------------------
(* Tasks: timers, the render, the stream and the http call.                *)

Render ==
    /\ page = "open"
    /\ queue # <<>> \/ shown # (requesting \/ streaming)
    /\ UNCHANGED <<requesting, streaming, genVars>>
    /\ RenderQueue(queue)
    /\ UNCHANGED <<page, editing, stored, snapshots, acts, histVars>>

FlushFires ==
    /\ page = "open" /\ flushTimer # NoGen /\ flushTimer = gen
    /\ FlushStreamUpdates
    /\ Enqueue(FlushedChunk(gen))
    /\ UNCHANGED <<page, requesting, streaming, gen, control, calls, editing,
                   stored, snapshots, acts, histVars>>

\* saveMessages keeps the last MaxStored messages.
trimMessages(ms) ==
    IF Len(ms) <= MaxStored THEN ms
    ELSE SubSeq(ms, Len(ms) - MaxStored + 1, Len(ms))

SaveFires ==
    /\ page = "open" /\ saveTimer
    /\ saveTimer' = FALSE
    /\ stored' = trimMessages(latest)
    /\ UNCHANGED <<page, chatVars, genVars, editing, latest, snapshots, acts,
                   histVars>>

HeadersReady(g) ==
    /\ calls[g].pc = "headers" /\ control.gen = calls[g].control
    /\ control' = [control EXCEPT !.source = g]
    /\ streaming' = TRUE
    /\ calls' = [calls EXCEPT ![g].pc = "stream"]
    /\ UNCHANGED <<page, msgs, queue, shown, requesting, gen, pending,
                   flushTimer, editing, saveVars, snapshots, acts, histVars>>

HeadersFail(g) ==
    /\ calls[g].pc = "headers" /\ control.gen = calls[g].control
    /\ handleStreamError(g)
    /\ calls' = [calls EXCEPT ![g].pc = "over"]
    /\ UNCHANGED <<page, streaming, gen, control, editing, stored, snapshots,
                   acts, histVars>>

\* The call c once upstream has sent text for it, and no more.
Grown(c, text) == [c EXCEPT !.sent = text, !.ends = @ \cup {Len(text)}]

StreamChunk(g) ==
    /\ isCurrent(g) /\ calls[g].pc = "stream"
    /\ \E r \in Replies : \E n \in 1 .. Len(r) :
          LET sent == calls[g].sent
              next == SubSeq(Answer(g, r), 1, n)
          IN  /\ Len(sent) < n /\ IsPrefix(sent, next)
              /\ calls' = [calls EXCEPT ![g] = Grown(@, next)]
              /\ handleStreamUpdate(g, IF snapshots THEN next
                                       ELSE SubSeq(next, Len(sent) + 1, n))
    /\ UNCHANGED <<page, chatVars, gen, control, editing, saveVars, snapshots,
                   acts, histVars>>

\* [DONE]: the source is closed before the completion is reported.
StreamDone(g) ==
    /\ isCurrent(g) /\ calls[g].pc = "stream"
    /\ control' = [control EXCEPT !.source = NoGen]
    /\ streaming' = FALSE
    /\ calls' = [calls EXCEPT ![g].pc = "over"]
    /\ handleStreamComplete(g)
    /\ finished' = finished \cup {g}
    /\ UNCHANGED <<page, gen, editing, stored, snapshots, acts, stopped,
                   overwritten, shortened>>

\* An error event, a closed connection with a status other than 200, a chunk
\* that does not parse, or a source that does not start.
StreamFails(g) ==
    /\ isCurrent(g) /\ calls[g].pc = "stream"
    /\ handleStreamError(g)
    /\ control' = [control EXCEPT !.source = NoGen]
    /\ streaming' = FALSE
    /\ calls' = [calls EXCEPT ![g].pc = "over"]
    /\ UNCHANGED <<page, gen, editing, stored, snapshots, acts, histVars>>

\* The connection ends with status 200 and without [DONE]: no handler acts,
\* and the page goes on showing a generation until the user stops it.
StreamCloses(g) ==
    /\ isCurrent(g) /\ calls[g].pc = "stream"
    /\ calls' = [calls EXCEPT ![g].pc = "closed"]
    /\ UNCHANGED <<page, chatVars, gen, pending, flushTimer, control, editing,
                   saveVars, snapshots, acts, histVars>>

ChatAnswers(g) ==
    /\ calls[g].pc = "chat" /\ g = gen
    /\ \E r \in Replies :
          /\ calls' = [calls EXCEPT ![g] = [Grown(@, Answer(g, r)) EXCEPT !.pc = "over"]]
          /\ Enqueue(<<Answered(g, Answer(g, r))>>)
    /\ requesting' = FALSE
    /\ finished' = finished \cup {g}
    /\ UNCHANGED <<page, streaming, gen, pending, flushTimer, control, editing,
                   stored, snapshots, acts, stopped, overwritten, shortened>>

\* The call fails, or its answer has no choice.
ChatFails(g) ==
    /\ calls[g].pc = "chat"
    /\ handleStreamError(g)
    /\ calls' = [calls EXCEPT ![g].pc = "over"]
    /\ UNCHANGED <<page, streaming, gen, control, editing, stored, snapshots,
                   acts, histVars>>

-----------------------------------------------------------------------------
(* What the user does.                                                     *)

Act == page = "open" /\ acts < MaxActs /\ acts' = acts + 1

ToConversation(u) ==
    RenderQueue(queue \o <<u>>) /\ UNCHANGED <<page, stored, snapshots>>

\* handleSendMessage: the input is disabled while isGenerating is shown, the
\* prompts of the empty page are not.
Send(stream) ==
    /\ Act
    /\ ~shown \/ msgs = <<>>
    /\ SendChat(stream)
    /\ ToConversation(Replace(msgs \o <<createUserMessage(gen + 1),
                              createLoadingAssistantMessage(gen + 1)>>))
    /\ UNCHANGED <<editing, histVars>>

\* The conversation up to msgs[i], and a new reply.
RepliedAfter(ms, i) ==
    SubSeq(ms, 1, i) \o <<createLoadingAssistantMessage(gen + 1)>>

Regenerate(i, stream) ==
    /\ Act
    /\ ~shown /\ hasMessageContent(msgs[i]) /\ ~isAssistantMessagePending(msgs[i])
    /\ SendChat(stream)
    /\ ToConversation(Replace(
           RepliedAfter(msgs, IF msgs[i].from = "user" THEN i ELSE i - 1)))
    /\ UNCHANGED <<editing, histVars>>

Delete(i) ==
    /\ Act
    /\ ~shown
    /\ UNCHANGED <<requesting, streaming, genVars>>
    /\ ToConversation(Removed(msgs[i]))
    /\ UNCHANGED <<editing, histVars>>

Clear ==
    /\ Act
    /\ ~shown /\ msgs # <<>>
    /\ UNCHANGED <<requesting, streaming, genVars>>
    /\ editing' = NoId
    /\ ToConversation(Replace(<<>>))
    /\ UNCHANGED histVars

EditMessage(i) ==
    /\ Act
    /\ ~shown /\ hasMessageContent(msgs[i]) /\ editing # Id(msgs[i])
    /\ editing' = Id(msgs[i])
    /\ UNCHANGED <<page, chatVars, genVars, saveVars, snapshots, histVars>>

CancelEdit ==
    /\ Act
    /\ \E i \in DOMAIN msgs : Id(msgs[i]) = editing
    /\ editing' = NoId
    /\ UNCHANGED <<page, chatVars, genVars, saveVars, snapshots, histVars>>

\* applyEdit: the editor stays open while a generation runs, and writes back
\* the whole conversation of the last render.
ApplyEdit(i, submit, stream) ==
    /\ Act
    /\ Id(msgs[i]) = editing
    /\ editing' = NoId
    /\ LET edited == [msgs EXCEPT ![i].text = EditedText]
       IN  IF submit /\ msgs[i].from = "user"
           THEN SendChat(stream) /\ ToConversation(Replace(RepliedAfter(edited, i)))
           ELSE /\ UNCHANGED <<requesting, streaming, genVars>>
                /\ ToConversation(Replace(edited))
    /\ overwritten' = IF queue = <<>> THEN overwritten
                      ELSE overwritten \cup {gen}
    /\ UNCHANGED <<finished, stopped, shortened>>

\* stopGeneration, with the generation that follows: the flush comes before
\* the generation moves on, so it counts only if React runs it at once.
StopWith(next) ==
    /\ Act
    /\ shown
    /\ gen' = next
    /\ discardPendingStreamUpdates(next)
    /\ CancelStream
    /\ requesting' = FALSE /\ streaming' = FALSE
    /\ \E q \in Queued(FlushedChunk(gen)) : RenderQueue(q \o <<Stopped(next)>>)
    /\ finished' = finished \ {gen}
    /\ stopped' = stopped \cup {gen}
    /\ UNCHANGED <<page, calls, editing, stored, snapshots, overwritten,
                   shortened>>

\* Mutant: the stopped generation stays the current one.
StopSameGeneration == StopWith(gen)

StopGeneration == StopWith(gen + 1)

\* The state of the page is gone, updates that were not rendered with it.
Unmounted ==
    /\ page' = "away"
    /\ gen' = gen + 1 /\ CancelStream
    /\ discardPendingStreamUpdates(gen + 1)
    /\ msgs' = <<>> /\ queue' = <<>> /\ latest' = <<>> /\ editing' = NoId
    /\ shown' = FALSE /\ requesting' = FALSE /\ streaming' = FALSE
    /\ saveTimer' = FALSE
    /\ UNCHANGED <<calls, snapshots, stopped, overwritten, shortened>>

\* The page is unmounted: the save that the timer was set for is made.
Leave ==
    /\ Act
    /\ Unmounted
    /\ stored' = IF saveTimer THEN trimMessages(latest) ELSE stored
    /\ finished' = IF queue = <<>> THEN finished ELSE finished \ {gen}

\* The tab is closed or reloaded: nothing is saved.
Unload ==
    /\ Act
    /\ Unmounted
    /\ UNCHANGED stored
    /\ finished' = {}

-----------------------------------------------------------------------------
(* The page is opened: loadMessages.                                       *)

\* Where the last sections start whose headings are in the text often enough.
LastRepeatedSections(text) ==
    {i \in DOMAIN text :
        /\ text[i][2] \in Headings
        /\ Cardinality({j \in DOMAIN text : text[j] = text[i]}) >=
             MIN_REPEATED_SECTION_COUNT
        /\ \A j \in DOMAIN text : text[j] = text[i] => j <= i}

collapseRepeatedSectionSnapshots(text) ==
    IF Len(text) < MIN_PREFIX_COLLAPSE_LENGTH \/ LastRepeatedSections(text) = {}
    THEN text
    ELSE SubSeq(text, Min(LastRepeatedSections(text)), Len(text))

\* Mutant: the text is cut without a mark.
CutText(text) ==
    IF Len(text) <= MAX_LOADED_MESSAGE_CHARS THEN text
    ELSE SubSeq(text, 1, MAX_LOADED_MESSAGE_CHARS)

\* The suffix is much shorter than the limit: one piece here.
truncateText(text) ==
    IF Len(text) <= MAX_LOADED_MESSAGE_CHARS THEN text
    ELSE SubSeq(text, 1, MAX_LOADED_MESSAGE_CHARS - 1) \o TRUNCATED_CONTENT_SUFFIX

LoadedText(text) == truncateText(collapseRepeatedSectionSnapshots(text))

normalizeStoredMessageForLoad(m) ==
    LET normalized == [m EXCEPT !.text = LoadedText(@)]
    IN  IF isAssistantMessagePending(m) /\ hasMessageContent(normalized)
        THEN completeAssistantMessage(normalized) ELSE normalized

MessagesSize(ms) == FoldLeft(LAMBDA total, m : total + Len(m.text), 0, ms)

\* The last messages whose texts are short enough together, one at least.
trimMessagesByContentSize(ms) ==
    LET From(k) == SubSeq(ms, k, Len(ms))
        fits == {k \in DOMAIN ms : MessagesSize(From(k)) <= MAX_LOADED_MESSAGES_CHARS}
    IN  IF ms = <<>> THEN ms ELSE From(Min(fits \cup {Len(ms)}))

\* Only the last pending message is repaired.
sanitizeMessagesOnLoad(ms) ==
    LET last == SelectLastInSeq(ms, isAssistantMessagePending)
    IN  IF last = 0 THEN ms
        ELSE [ms EXCEPT ![last] =
                IF hasMessageContent(@) THEN completeAssistantMessage(@)
                ELSE [@ EXCEPT !.text = ErrorText, !.status = "error"]]

\* What is too long as a whole is dropped.
loadMessages ==
    IF MessagesSize(stored) > MAX_STORED_MESSAGES_BYTES THEN <<>>
    ELSE sanitizeMessagesOnLoad(trimMessagesByContentSize(trimMessages(
            [i \in DOMAIN stored |-> normalizeStoredMessageForLoad(stored[i])])))

Open ==
    /\ page = "away"
    /\ page' = "open"
    /\ stored' = loadMessages
    /\ msgs' = loadMessages /\ latest' = loadMessages
    /\ shortened' = shortened \cup
          {m.key : m \in {n \in Range(stored) :
                             n.from = "assistant" /\ LoadedText(n.text) # n.text}}
    /\ UNCHANGED <<queue, shown, requesting, streaming, genVars, editing,
                   saveTimer, snapshots, acts, finished, stopped, overwritten>>

-----------------------------------------------------------------------------
Tasks == Render \/ FlushFires \/ SaveFires

Network ==
    \E g \in Gens :
        \/ HeadersReady(g) \/ HeadersFail(g)
        \/ StreamChunk(g) \/ StreamDone(g) \/ StreamFails(g) \/ StreamCloses(g)
        \/ ChatAnswers(g) \/ ChatFails(g)

User ==
    \/ \E stream \in BOOLEAN : Send(stream)
    \/ \E i \in DOMAIN msgs, stream \in BOOLEAN : Regenerate(i, stream)
    \/ \E i \in DOMAIN msgs, submit \in BOOLEAN, stream \in BOOLEAN :
          ApplyEdit(i, submit, stream)
    \/ \E i \in DOMAIN msgs : Delete(i) \/ EditMessage(i)
    \/ Clear \/ CancelEdit \/ StopGeneration
    \/ Leave \/ Unload \/ Open

Next == Tasks \/ Network \/ User

\* Timers fire and React renders; the user and the server may do nothing.
Fairness == WF_vars(Render) /\ WF_vars(FlushFires) /\ WF_vars(SaveFires)

Spec == Init /\ [][Next]_vars
FairSpec == Spec /\ Fairness

-----------------------------------------------------------------------------
(* Properties.                                                             *)

Conversation(ms) ==
    \A i \in DOMAIN ms :
        /\ ms[i].from \in {"user", "assistant"} /\ ms[i].key \in Gens
        /\ ms[i].status \in {"none", "loading", "streaming", "complete", "error"}
        /\ Len(ms[i].text) <= MaxPieces

\* Types; no text grows past what a reply has, and no two messages of a
\* conversation, as rendered or as stored, share a key.
TypeOK ==
    /\ page \in {"open", "away"} /\ shown \in BOOLEAN
    /\ requesting \in BOOLEAN /\ streaming \in BOOLEAN
    /\ gen \in Gens /\ pending.gen \in Gens
    /\ Len(pending.text) <= MaxPieces
    /\ flushTimer \in Gens \cup {NoGen}
    /\ control.gen \in Gens /\ control.source \in Gens \cup {NoGen}
    /\ calls \in [Gens -> Call]
    /\ \A ms \in {msgs, latest, stored} :
          /\ Conversation(ms)
          /\ \A i, j \in DOMAIN ms : Id(ms[i]) = Id(ms[j]) => i = j
    /\ saveTimer \in BOOLEAN /\ acts \in 0 .. MaxActs

\* A generation under way: its request may still bring something.
Live(g) ==
    /\ g = gen
    /\ \/ calls[g].pc = "chat"
       \/ calls[g].pc = "headers" /\ control.gen = calls[g].control
       \/ calls[g].pc = "stream" /\ isCurrent(g)

\* Its connection was closed without [DONE] or an error: nothing comes any more,
\* and no handler was told.
Hanging(g) == g = gen /\ calls[g].pc = "closed" /\ isCurrent(g)

\* The page says it is generating exactly while a request of its generation may
\* still bring something, or hangs: no request goes on behind a page that offers
\* no Stop, and a page waits in vain for a connection closed without [DONE] only
\* (isGenerating of use-chat-handler.ts against the calls of
\* use-stream-request.ts).
GeneratingIffLive ==
    page = "open" =>
        (requesting \/ streaming <=> \E g \in Gens : Live(g) \/ Hanging(g))

\* Once nothing is generated and all is rendered, no message of the page is
\* left loading or streaming, after a stop, an error, a reload or a visit
\* elsewhere, unless an edit was saved over updates that were not rendered.
NothingPendingAtRest ==
    page = "open" /\ queue = <<>> /\ ~requesting /\ ~streaming =>
        \A i \in DOMAIN msgs :
            isAssistantMessagePending(msgs[i]) => msgs[i].key \in overwritten

\* text is what is left of whole when some pieces are dropped.
InOrder(text, whole) ==
    \E f \in [DOMAIN text -> DOMAIN whole] :
        /\ \A i, j \in DOMAIN text : i < j => f[i] < f[j]
        /\ \A i \in DOMAIN text : text[i] = whole[f[i]]

\* A text without the mark of truncateText.
Unmarked(text) ==
    IF IsSuffix(TRUNCATED_CONTENT_SUFFIX, text) THEN Front(text) ELSE text

\* Upstream sent the text of call c in parts, and some of them start with all
\* that was sent before, or with the last of it: startsWith may take them for
\* a snapshot.
Echoes(c) ==
    \E i, j, k \in c.ends :
        i < j /\ j < k /\ IsPrefix(SubSeq(c.sent, i + 1, j), SubSeq(c.sent, j + 1, k))

Ambiguous(g) == ~snapshots /\ Echoes(calls[g])

\* Whatever happens to a reply (parts taken for snapshots, edits saved over it,
\* limits of the storage), what it has is of its own generation and in the order
\* in which it was sent, and nothing is there twice.
ReplyInOrder ==
    \A ms \in {msgs, stored} : \A i \in DOMAIN ms :
        ms[i].from = "user" \/ ms[i].text \in {EditedText, ErrorText}
        \/ InOrder(Unmarked(ms[i].text), calls[ms[i].key].sent)

\* The text of a reply is the beginning of what was sent for it, without a gap,
\* whether upstream sends parts or snapshots, unless the parts are ambiguous, an
\* edit was saved over updates not rendered, or the storage's limits shortened it.
ReplyIsPrefix ==
    \A ms \in {msgs, stored} : \A i \in DOMAIN ms :
        ms[i].from = "user" \/ ms[i].text \in {EditedText, ErrorText}
        \/ ms[i].key \in overwritten \cup shortened \/ Ambiguous(ms[i].key)
        \/ IsPrefix(ms[i].text, calls[ms[i].key].sent)

\* text ends like whole, or says that it was truncated.
EndIsKept(text, whole) ==
    IF whole = <<>> THEN text = <<>>
    ELSE text # <<>> /\ (Last(text) = Last(whole) \/ IsSuffix(TRUNCATED_CONTENT_SUFFIX, text))

\* A reply that was answered in full and not cut short is complete and whole once
\* rendered, and still is after the page was left and opened again.  One whose
\* parts are ambiguous, or that the limits of the storage shortened, still has
\* its end, or a mark that says that it has not.
FinishedReplyIsWhole ==
    page = "open" /\ queue = <<>> =>
        \A i \in DOMAIN msgs :
            LET m == msgs[i]
                sent == calls[m.key].sent
            IN  m.from = "assistant" /\ m.key \in finished \ overwritten =>
                  /\ m.status = "complete"
                  /\ \/ m.text = EditedText
                     \/ IF m.key \in shortened \/ Ambiguous(m.key)
                        THEN EndIsKept(m.text, sent) ELSE m.text = sent

\* A reply the user stopped does not change any more, whatever still arrives
\* for it: only an edit changes it (stopGeneration against late chunks,
\* completions, errors and answers).
StoppedReplyIsFrozen ==
    [][page = "open" /\ page' = "open" =>
         \A i \in DOMAIN msgs, j \in DOMAIN msgs' :
            (/\ msgs[i].from = "assistant" /\ Id(msgs[i]) = Id(msgs'[j])
             /\ msgs[i].key \in stopped) =>
               /\ msgs'[j].status = msgs[i].status
               /\ msgs'[j].text \in {msgs[i].text, EditedText}]_vars

\* While the page stays open, what it shows gets into localStorage: the save
\* timer is never lost, and what it saves is not an older conversation.
StoredCatchesUp ==
    []<>(page = "away" \/ (queue = <<>> /\ stored = trimMessages(msgs)))
=============================================================================
