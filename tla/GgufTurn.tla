------------------------------- MODULE GgufTurn --------------------------------
(***************************************************************************)
(* One native context of cpp/llama-jni.cpp over its turns: the conversation *)
(* is trimmed to the window (PromptBudget), what the previous turns left in *)
(* the KV cache is reused, the rest of the prompt is decoded in batches,    *)
(* and sampled tokens are decoded one by one and streamed (Utf8Stream).     *)
(*                                                                          *)
(* LlamaEngine models who may call and when; whoever decodes holds          *)
(* nativeOperations, so here one call runs at a time, beside stop().  The   *)
(* flag stop stands for stop_requested and is_closed.  A decode that fails, *)
(* a numerical anomaly and the abort callback end a turn in the same way    *)
(* and are one action.                                                      *)
(***************************************************************************)
EXTENDS PromptBudget, Utf8Stream

CONSTANTS
  Conversations,  \* the message lists the app may send
  Bodies,         \* what a message may say
  Token,          \* the model's vocabulary, image cells included
  Template(_),    \* what the chat template makes of a list of messages
  Requests,       \* the values of max_tokens; 0 when none is requested
  Pieces,         \* the tokens that can be sampled, each the bytes it writes
  BatchSize       \* tokens decoded by one call

DecoderStart == <<"decoder start">>

ASSUME TurnAssumption ==
  /\ Requests \subseteq Nat /\ BatchSize \in Nat \ {0}
  /\ Pieces \subseteq Token \cap Seq(Byte) /\ DecoderStart \in Token

-----------------------------------------------------------------------------
(* The conversations                                                        *)

\* media: images or sounds (media_parts) belong to the message.
Message ==
  [role : {"system", "user", "assistant"}, body : Bodies, media : BOOLEAN]

\* The system messages, what is kept of the history, and the user's message to
\* answer.  The history is cut by count, so it may begin with an answer.  Any
\* message of the user, the last or an earlier one, may have media.
IsConversation(c) ==
  /\ c \in Seq(Message) /\ c # << >>
  /\ c[Len(c)].role = "user"
  /\ \A i \in FirstSpoken(c) .. Len(c) : c[i].role # "system"
  /\ \A i \in DOMAIN c : c[i].media => c[i].role = "user"

\* media_parts is not empty.
HasMedia(list) == \E i \in DOMAIN list : list[i].media

Ending(s, n) == SubSeq(s, Len(s) - n + 1, Len(s))

\* The first i and the last n messages.
Cut(s, i, n) == SubSeq(s, 1, i) \o Ending(s, n)

\* What trimming may leave.
Cuts(s) == {Cut(s, i, n) : i \in 0 .. Len(s), n \in 0 .. Len(s)}

ASSUME ConversationAssumption ==
  \A c \in Conversations :
    /\ IsConversation(c)
    /\ \A m \in Cuts(c) : Template(m) \in Seq(Token) \ {<< >>}

VARIABLES
  \* of the holder
  encoder,        \* llama_model_has_encoder
  cached_tokens,
  kv,             \* the KV cache: the tokens of its cells, by position
  encoded,        \* what the encoder saw, and
  logits,         \* the context that logits were computed for, since a clear
  mislabelled,    \* history: a media turn left cached_tokens that are not those
                  \* of the cells, and no clear has followed
  stop,
  \* of the turn
  phase,          \* idle, format, prefill or decode
  kind,           \* text or media
  msgs,           \* what trimming has left
  requested,      \* max_tokens
  prompt,
  evaluated,      \* how many of its tokens are in the KV cache
  generated,
  utf8_stream_buf,
  shown,          \* the characters given to onToken
  conversation,   \* history: the messages as sent
  result          \* history: how the last call ended

holder == <<encoder, cached_tokens, kv, encoded, logits, mislabelled>>
stream == <<generated, utf8_stream_buf, shown>>
locals == <<kind, msgs, requested, prompt, evaluated, conversation>>
vars == <<holder, stop, phase, locals, stream, result>>

Phases == {"idle", "format", "prefill", "decode"}
Results == {"none", "complete", "failed", "refused"}

TypeOK ==
  /\ {encoder, stop, mislabelled} \subseteq BOOLEAN
  /\ \A s \in {cached_tokens, kv, encoded, logits, prompt} : s \in Seq(Token)
  /\ generated \in Seq(Pieces)
  /\ phase \in Phases /\ kind \in {"text", "media"}
  /\ requested \in Requests \cup {0} /\ result \in Results
  /\ evaluated \in 0 .. Len(prompt)
  /\ Len(generated) \in 0 .. (IF phase = "idle" THEN NCtx ELSE Output(requested))

Init ==
  /\ encoder \in BOOLEAN
  /\ cached_tokens = << >> /\ kv = << >> /\ encoded = << >> /\ logits = << >>
  /\ mislabelled = FALSE
  /\ stop = FALSE /\ phase = "idle" /\ kind = "text"
  /\ conversation = << >> /\ msgs = << >> /\ requested = 0
  /\ prompt = << >> /\ evaluated = 0
  /\ generated = << >> /\ utf8_stream_buf = << >> /\ shown = << >>
  /\ result = "none"

ClearPromptCache ==
  /\ cached_tokens' = << >> /\ kv' = << >> /\ encoded' = << >> /\ logits' = << >>
  /\ mislabelled' = FALSE

\* The caches stay as they are: after a media turn, whose prompt is never in
\* cached_tokens, that is only what it generated.
KeepCaches ==
  /\ UNCHANGED <<cached_tokens, kv, encoded, logits>>
  /\ mislabelled' = (mislabelled \/ (kind = "media" /\ cached_tokens # << >>))

\* The call returns to Kotlin, its variables are gone.
Return(r) ==
  /\ phase' = "idle" /\ result' = r
  /\ kind' = "text" /\ msgs' = << >> /\ requested' = 0
  /\ prompt' = << >> /\ evaluated' = 0 /\ conversation' = << >>

ForgetStream == generated' = << >> /\ utf8_stream_buf' = << >> /\ shown' = << >>

-----------------------------------------------------------------------------
(* The prompt *)

Asked(c, r) ==
  /\ phase = "idle" /\ phase' = "format"
  /\ conversation' = c /\ requested' = r
  /\ stop' = FALSE /\ prompt' = << >> /\ evaluated' = 0
  /\ ForgetStream /\ result' = "none"

StartText(c, r) ==
  /\ ~HasMedia(c)
  /\ Asked(c, r) /\ kind' = "text" /\ msgs' = c
  /\ UNCHANGED holder

StartMedia(c, r) ==
  /\ HasMedia(c) /\ ~encoder
  /\ Asked(c, r) /\ kind' = "media" /\ msgs' = c
  /\ ClearPromptCache /\ UNCHANGED encoder

Reserve == OutputTokenReserve(NCtx, requested)

Fits ==
  IF kind = "text" THEN Len(Template(msgs)) + Reserve < NCtx
                   ELSE Len(Template(msgs)) + Reserve <= NCtx

\* Mutant: a turn that drops nothing is dropped for ever.
MayDropNothing == OldestHistoryTurnSize(msgs) >= 0

\* A turn with an image also keeps more than one message.
MayDrop ==
  /\ OldestHistoryTurnSize(msgs) > 0
  /\ kind = "media" => Len(msgs) > OldestHistoryTurnSize(msgs) + 1

DropOldestTurn ==
  /\ phase = "format" /\ ~Fits /\ MayDrop
  /\ msgs' = WithoutOldestTurn(msgs)
  /\ UNCHANGED <<holder, stop, phase, kind, requested, prompt, evaluated, conversation, stream,
                 result>>

Refuse ==
  /\ phase = "format" /\ ~Fits /\ ~MayDrop
  /\ Return("refused") /\ ForgetStream /\ UNCHANGED <<holder, stop>>

\* Mutant: the cells behind the reused prefix stay.
KeepAllCells(n, removed) ==
  IF n = 0 \/ ~removed THEN ClearPromptCache /\ evaluated' = 0
  ELSE /\ cached_tokens' = SubSeq(cached_tokens, 1, n) /\ evaluated' = n
       /\ UNCHANGED <<kv, encoded, logits, mislabelled>>

\* llama_memory_seq_rm keeps the first n cells; some memories cannot.
KeepReused(n, removed) ==
  IF n = 0 \/ ~removed THEN ClearPromptCache /\ evaluated' = 0
  ELSE /\ cached_tokens' = SubSeq(cached_tokens, 1, n) /\ kv' = SubSeq(kv, 1, n)
       /\ evaluated' = n /\ UNCHANGED <<encoded, logits, mislabelled>>

BeginPrefill ==
  /\ phase = "format" /\ kind = "text" /\ ~encoder /\ Fits
  /\ prompt' = Template(msgs) /\ phase' = "prefill"
  /\ \E removed \in BOOLEAN :
       KeepReused(ReusablePromptTokens(cached_tokens, prompt'), removed)
  /\ UNCHANGED <<encoder, stop, kind, msgs, requested, conversation, stream, result>>

\* One llama_decode: the batch ends full or with the prompt.
PrefillBatch ==
  /\ phase = "prefill" /\ evaluated < Len(prompt) /\ ~stop
  /\ evaluated' = Smaller(evaluated + BatchSize, Len(prompt))
  /\ kv' = kv \o SubSeq(prompt, evaluated + 1, evaluated')
  /\ logits' = kv'
  /\ UNCHANGED <<encoder, cached_tokens, encoded, mislabelled, stop, phase, kind, msgs,
                 requested, prompt, conversation, stream, result>>

EndPrefill ==
  /\ phase = "prefill" /\ evaluated = Len(prompt)
  /\ phase' = "decode" /\ cached_tokens' = prompt
  /\ UNCHANGED <<encoder, kv, encoded, logits, mislabelled, stop, locals, stream, result>>

PrefillFails ==
  /\ phase = "prefill"
  /\ ClearPromptCache /\ Return("failed") /\ ForgetStream
  /\ UNCHANGED <<encoder, stop>>

\* llama_encode takes the prompt in one micro-batch, sized at load for the
\* prompt that leaves the default reserve.
EncoderBatch ==
  IF NCtx > OutputFloor THEN NCtx - OutputTokenReserve(NCtx, 0) ELSE NCtx

Encode ==
  /\ phase = "format" /\ encoder /\ Fits /\ ~stop
  /\ Len(Template(msgs)) <= EncoderBatch
  /\ prompt' = Template(msgs) /\ encoded' = prompt'
  /\ cached_tokens' = << >> /\ kv' = <<DecoderStart>> /\ logits' = kv'
  /\ mislabelled' = FALSE /\ phase' = "decode"
  /\ UNCHANGED <<encoder, stop, kind, msgs, requested, evaluated, conversation, stream,
                 result>>

\* Stopped, longer than the micro-batch, or a failing encode or decode.
EncodeFails ==
  /\ phase = "format" /\ encoder /\ Fits
  /\ ClearPromptCache /\ Return("failed") /\ ForgetStream
  /\ UNCHANGED <<encoder, stop>>

\* eval_multimodal_prompt decodes all chunks, or fails after some.
EvalMedia ==
  /\ phase = "format" /\ kind = "media" /\ Fits
  /\ prompt' = Template(msgs)
  /\ kv' = prompt' /\ logits' = kv' /\ phase' = "decode"
  /\ UNCHANGED <<encoder, cached_tokens, encoded, mislabelled, stop, kind, msgs, requested,
                 evaluated, conversation, stream, result>>

EvalMediaFails ==
  /\ phase = "format" /\ kind = "media" /\ Fits
  /\ \E n \in 0 .. Len(Template(msgs)) : kv' = SubSeq(Template(msgs), 1, n)
  /\ Return("failed") /\ ForgetStream
  /\ UNCHANGED <<encoder, cached_tokens, encoded, logits, mislabelled, stop>>

-----------------------------------------------------------------------------
(* The answer *)

\* Mutant: the generated tokens are not counted.
PromptCells == IF encoder THEN 1 ELSE Len(prompt)

OccupiedCells == (IF encoder THEN 1 ELSE Len(prompt)) + Len(generated)

\* Mutant: one token too many.
MayContinueOnce == Len(generated) <= Output(requested)

MayContinue == Len(generated) < Output(requested)

\* One round of the loop: a sampled token is streamed, then decoded.  A stop()
\* may fall into the round: the loop goes on, but shows nothing any more.
Sample(piece) ==
  /\ phase = "decode" /\ MayContinue /\ ~stop /\ OccupiedCells < NCtx
  /\ LET bytes == utf8_stream_buf \o piece IN
       /\ stop' \in BOOLEAN
       /\ shown' = IF stop' THEN shown ELSE shown \o Decoded(Complete(bytes))
       /\ utf8_stream_buf' = HeldBack(bytes)
  /\ kv' = Append(kv, piece) /\ logits' = kv'
  /\ cached_tokens' = Append(cached_tokens, piece)
  /\ generated' = Append(generated, piece)
  /\ UNCHANGED <<encoder, encoded, mislabelled, phase, locals, result>>

\* What is held back is shown at the end, complete or not.
Flush == shown' = shown \o Decoded(utf8_stream_buf) /\ utf8_stream_buf' = << >>

\* An end-of-generation token, or as many as requested.  The caches are cleared
\* if there is media, which trimming may have dropped with its turn.
Finish ==
  /\ phase = "decode" /\ (MayContinue => ~stop /\ OccupiedCells < NCtx)
  /\ stop' \in {stop, TRUE}
  /\ IF stop' THEN UNCHANGED <<shown, utf8_stream_buf>> ELSE Flush
  /\ IF HasMedia(msgs) THEN ClearPromptCache ELSE KeepCaches
  /\ Return("complete")
  /\ UNCHANGED <<encoder, generated>>

HitContextLimit ==
  /\ phase = "decode" /\ MayContinue /\ ~stop /\ OccupiedCells >= NCtx
  /\ ClearPromptCache /\ Return("failed") /\ ForgetStream
  /\ UNCHANGED <<encoder, stop>>

\* Stopped, refused by a callback, given up by the parser, or a failing decode.
Abort ==
  /\ phase = "decode" /\ MayContinue
  /\ ClearPromptCache /\ Return("failed") /\ ForgetStream
  /\ UNCHANGED <<encoder, stop>>

\* bad_alloc: the catch clauses leave the holder as it is.
Throw ==
  /\ phase # "idle"
  /\ KeepCaches /\ Return("failed") /\ ForgetStream
  /\ UNCHANGED <<encoder, stop>>

-----------------------------------------------------------------------------
(* Other calls *)

\* nativeStop also reaches a context where no turn runs.
Stop ==
  /\ stop' = TRUE
  /\ UNCHANGED <<holder, phase, locals, stream, result>>

\* nativeWarmup, nativeResetAfterValidation: both leave the caches empty.
WarmUp ==
  /\ phase = "idle" /\ ~stop
  /\ ClearPromptCache /\ ForgetStream /\ result' = "none"
  /\ UNCHANGED <<encoder, stop, phase, locals>>

ResetAfterValidation ==
  /\ phase = "idle"
  /\ ClearPromptCache /\ ForgetStream /\ result' = "none"
  /\ UNCHANGED <<encoder, stop, phase, locals>>

\* Mutant: a probe overwrites the cells only.
ProbeKeepsTokens(c) ==
  /\ phase = "idle" /\ ~HasMedia(c)
  /\ \E n \in 0 .. Smaller(NCtx, Len(Template(c))) : kv' = SubSeq(Template(c), 1, n)
  /\ logits' = kv' /\ ForgetStream /\ result' = "none"
  /\ UNCHANGED <<encoder, cached_tokens, encoded, mislabelled, stop, phase, locals>>

\* A probe decodes a prompt, or a part of it, and leaves it there.
Probe(c) ==
  /\ phase = "idle" /\ ~HasMedia(c)
  /\ cached_tokens' = << >> /\ mislabelled' = FALSE
  /\ \E n \in 0 .. Smaller(NCtx, Len(Template(c))) : kv' = SubSeq(Template(c), 1, n)
  /\ logits' = kv' /\ ForgetStream /\ result' = "none"
  /\ UNCHANGED <<encoder, encoded, stop, phase, locals>>

-----------------------------------------------------------------------------

Turn ==
  \/ DropOldestTurn \/ Refuse
  \/ BeginPrefill \/ PrefillBatch \/ EndPrefill \/ PrefillFails
  \/ Encode \/ EncodeFails \/ EvalMedia \/ EvalMediaFails
  \/ (\E piece \in Pieces : Sample(piece)) \/ Finish \/ HitContextLimit
  \/ Abort

Next ==
  \/ \E c \in Conversations, r \in Requests : StartText(c, r) \/ StartMedia(c, r)
  \/ Turn \/ Throw
  \/ Stop \/ WarmUp \/ ResetAfterValidation
  \/ \E c \in Conversations : Probe(c)

Spec == Init /\ [][Next]_vars

\* The thread that holds nativeOperations runs; that memory runs out is not assumed.
FairSpec == Spec /\ WF_vars(Turn)

-----------------------------------------------------------------------------
(* Properties *)

IsPrefixOf(s, t) == Len(s) <= Len(t) /\ \A i \in DOMAIN s : s[i] = t[i]

\* The tokens that a later turn may take as evaluated are those in the first
\* cells of the KV cache (cached_tokens, reusable_prompt_tokens), whatever
\* ended the turns before: a stop, a failure, an exception, a probe.  Only a
\* media turn that left its tokens, and was not followed by a clear, breaks it.
CachedTokensAreEvaluated ==
  phase = "idle" /\ ~encoder /\ ~mislabelled => IsPrefixOf(cached_tokens, kv)

\* An answer is sampled from the prompt of its own turn and what was generated
\* since, with no cell left from an earlier turn, unless its prompt reuses what
\* a media turn left.
AnswersThePrompt ==
  phase = "decode" /\ ~mislabelled =>
    IF encoder THEN encoded = prompt /\ kv = <<DecoderStart>> \o generated
               ELSE kv = prompt \o generated

\* The sampler reads logits that were computed for the context it continues,
\* also when the prompt is the one of the last turn (prompt-cache.h:7).
LogitsAreFresh == phase = "decode" => logits = kv

\* No cell past the window is ever written (the loop's check of occupied_cells).
WindowIsKept == Len(kv) <= NCtx

\* Trimming drops whole turns, and never a system message or the message to
\* answer: what is left behind the system messages is an ending of what was
\* sent, and begins with a user's message unless it is all of it.
TrimmingKeepsTurnsWhole ==
  phase # "idle" =>
    LET system == FirstSpoken(conversation) - 1
        rest == Len(msgs) - system
    IN /\ rest > 0 /\ msgs = Cut(conversation, system, rest)
       /\ msgs # conversation => msgs[system + 1].role = "user"

\* The bytes of the first n tokens.
BytesUpTo(tokens) ==
  LET upTo[n \in 0 .. Len(tokens)] ==
        IF n = 0 THEN << >> ELSE upTo[n - 1] \o tokens[n]
  IN upTo

BytesOf(tokens) == BytesUpTo(tokens)[Len(tokens)]

\* However the tokens cut its characters, the text shown by a completed turn is
\* the text that all its bytes decode to.  (When the model begins a character of
\* several bytes inside another one, what stands between the two may be lost.)
StreamedTextIsWhole ==
  result = "complete" /\ ~stop /\ LeadsApart(BytesOf(generated)) =>
    shown = Decoded(BytesOf(generated))

\* A turn ends: trimming, prefill and sampling all come to an end, without the
\* help of an exception.
TurnEnds == phase # "idle" ~> phase = "idle"

===============================================================================
