---------------------------- MODULE RequestState ----------------------------
(***************************************************************************)
(* The settings of one server context over the requests it serves:         *)
(* reset_request_state, parse_tts_request, handle_tts and                  *)
(* handle_tts_stream of qwen_tts_server.c, the steering of                 *)
(* qwen_tts_emotion.c and the spans of qwen_tts_compose.c.  A request      *)
(* overwrites the settings in place, so what it does not say must come     *)
(* from the server's defaults and not from the request before it.          *)
(***************************************************************************)
EXTENDS Integers, Sequences

CONSTANTS Speaker, Language, \* names a request may give
          Ryan, English,     \* the defaults of a server without a voice
          VoiceClone,        \* a .qvoice is loaded
          OwnSpeaker, OwnLanguage, \* what it set
          Mood,              \* named emotions
          Installable,       \* those whose .qlsteer file is there
          Large,             \* hidden_size >= 2048
          Chunk, ChunkDefault, \* chunk_frames of a stream; what it is at first
          SpanLists,         \* inline markup: the moods of the spans of a text
          MaxRequests,       \* bound
          Absent             \* a field that is not in the body; no steering

\* What the constants are.
RequestAssumption ==
    /\ Ryan \in Speaker /\ English \in Language
    /\ OwnSpeaker \in Speaker /\ OwnLanguage \in Language
    /\ Installable \subseteq Mood /\ ChunkDefault \in Chunk
    /\ SpanLists \subseteq Seq(Mood \cup {Absent}) /\ << >> \in SpanLists
    /\ Absent \notin Speaker \cup Language \cup Mood
    /\ VoiceClone \in BOOLEAN /\ Large \in BOOLEAN /\ MaxRequests \in Nat

VARIABLES
    pc, requests,
    req,                   \* the body of the current request, Plain when idle
    speaker, language,     \* speaker_id, language_id
    sampling,              \* temperature, top_k, top_p, rep_penalty, seed
    instruct, design,      \* instruct, voice_design
    steer, saved,          \* ml_steer: its emotion; saved_ml
    stream, chunk, target, \* stream, stream_chunk_frames, audio_cb
    todo                   \* spans still to synthesize

settings == <<speaker, language, sampling, instruct, design>>
outputVars == <<stream, chunk, target>>
vars == <<pc, requests, req, settings, steer, saved, outputVars, todo>>

Request ==
    [text : BOOLEAN, speaker : Speaker \cup {Absent}, language : Language \cup {Absent},
     sampling : {"own", "default"}, instruct : {"own", Absent}, design : BOOLEAN,
     emotion : Mood \cup {Absent}, stream : BOOLEAN, chunk : Chunk, spans : SpanLists]

Plain == [text |-> TRUE, speaker |-> Absent, language |-> Absent, sampling |-> "default",
          instruct |-> Absent, design |-> FALSE, emotion |-> Absent, stream |-> FALSE,
          chunk |-> ChunkDefault, spans |-> << >>]

\* What a server starts with: --instruct and --ml-steer may have set the rest.
Init ==
    /\ pc = "idle" /\ requests = 0 /\ req = Plain
    /\ speaker = (IF VoiceClone THEN OwnSpeaker ELSE Ryan)
    /\ language = (IF VoiceClone THEN OwnLanguage ELSE English)
    /\ sampling = "own" /\ instruct \in {"own", Absent} /\ design \in BOOLEAN
    /\ steer \in Mood \cup {Absent} /\ saved = Absent
    /\ stream = FALSE /\ chunk = ChunkDefault /\ target = "none"
    /\ todo = << >>
-----------------------------------------------------------------------------
\* Mutant: the voice of the last request stays.
VoiceAfterLast(r) ==
    /\ speaker'  = IF r.speaker # Absent THEN r.speaker ELSE speaker
    /\ language' = IF r.language # Absent THEN r.language ELSE language

\* reset_request_state, then the names the request gives.
VoiceAfter(r) ==
    /\ speaker'  = IF r.speaker # Absent THEN r.speaker
                   ELSE IF VoiceClone THEN speaker ELSE Ryan
    /\ language' = IF r.language # Absent THEN r.language
                   ELSE IF VoiceClone THEN language ELSE English

\* qwen_emotion_steer_install: its file may be missing.
Installed(mood, now) == IF mood \in Installable THEN mood ELSE now

\* qwen_tts_apply_emotion after the reset.
SteerAfter(r) == IF r.emotion # Absent /\ Large THEN Installed(r.emotion, Absent)
                 ELSE Absent

\* parse_tts_request resets before it looks at the text.
Parse(r) ==
    /\ pc = "idle" /\ requests < MaxRequests
    /\ requests' = requests + 1
    /\ IF r.text
       THEN /\ VoiceAfter(r)
            /\ sampling' = r.sampling /\ instruct' = r.instruct /\ design' = r.design
            /\ steer' = SteerAfter(r)
            /\ pc' = "parsed" /\ req' = r
       ELSE /\ VoiceAfter(Plain)
            /\ sampling' = "default" /\ instruct' = Absent /\ design' = FALSE
            /\ steer' = Absent
            /\ UNCHANGED <<pc, req>>
    /\ UNCHANGED <<saved, outputVars, todo>>

\* The voice_design check, and what handle_tts and handle_tts_stream set up.
\* With markup a stream is sent span by span and the generation itself does
\* not stream.
Prepare ==
    /\ pc = "parsed"
    /\ IF design /\ ~Large
       THEN pc' = "idle" /\ req' = Plain /\ UNCHANGED <<outputVars, todo>>
       ELSE /\ pc' = "span" /\ UNCHANGED req
            /\ stream' = (req.stream /\ req.spans = << >>)
            /\ target' = IF req.stream /\ req.spans = << >> THEN "client" ELSE "none"
            /\ chunk' = IF req.stream THEN req.chunk ELSE chunk
            /\ todo' = IF req.spans = << >> THEN <<Absent>> ELSE req.spans
    /\ UNCHANGED <<requests, settings, steer, saved>>

\* synth_one_span up to the synthesis, or the plain one: a span with a mood
\* replaces the steering, one without keeps it.
Span ==
    /\ pc = "span" /\ todo # << >>
    /\ saved' = steer
    /\ steer' = IF Head(todo) # Absent /\ Large THEN Installed(Head(todo), steer) ELSE steer
    /\ pc' = "synth"
    /\ UNCHANGED <<requests, req, settings, outputVars, todo>>

\* qwen_tts_generate returns and the steering of before is restored; when it
\* fails so does the request, whatever spans are left.
SpanDone ==
    /\ pc = "synth"
    /\ steer' = saved
    /\ \/ todo' = Tail(todo)
       \/ todo' = << >>
    /\ pc' = "span"
    /\ UNCHANGED <<requests, req, settings, saved, outputVars>>

\* The end of the request: a stream clears stream and audio_cb.
Reply ==
    /\ pc = "span" /\ todo = << >>
    /\ stream' = FALSE /\ target' = "none"
    /\ pc' = "idle" /\ req' = Plain /\ saved' = Absent
    /\ UNCHANGED <<requests, settings, steer, chunk, todo>>

Next == (\E r \in Request : Parse(r)) \/ Prepare \/ Span \/ SpanDone \/ Reply

Spec == Init /\ [][Next]_vars
-----------------------------------------------------------------------------
(* Properties                                                              *)

\* Every variable has its type.
TypeOK ==
    /\ pc \in {"idle", "parsed", "span", "synth"} /\ requests \in 0 .. MaxRequests
    /\ req \in Request
    /\ speaker \in Speaker /\ language \in Language
    /\ sampling \in {"own", "default"} /\ instruct \in {"own", Absent} /\ design \in BOOLEAN
    /\ steer \in Mood \cup {Absent} /\ saved \in Mood \cup {Absent}
    /\ stream \in BOOLEAN /\ chunk \in Chunk /\ target \in {"none", "client"}

Given(field, default) == IF field # Absent THEN field ELSE default

\* Every synthesis runs with what its own request says, and where that is
\* silent with the server's defaults: reset_request_state "prevents state
\* leaking between requests", and a span never hears the mood of another.
Isolated ==
    pc = "synth" =>
        /\ speaker = Given(req.speaker, IF VoiceClone THEN OwnSpeaker ELSE Ryan)
        /\ language = Given(req.language, IF VoiceClone THEN OwnLanguage ELSE English)
        /\ sampling = req.sampling /\ instruct = req.instruct
        /\ design = req.design
        /\ stream = (req.stream /\ req.spans = << >>)
        /\ steer = (IF ~Large THEN Absent
                         ELSE Installed(Head(todo), Installed(req.emotion, Absent)))

\* Between requests no callback points to the state of a stream that has
\* ended, which was on the handler's stack.
NoStaleCallback == pc = "idle" => ~stream /\ target = "none"

\* Requests on one context are as if each had a context of its own.
SettingsApart == Isolated /\ NoStaleCallback
=============================================================================
