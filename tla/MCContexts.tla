----------------------------- MODULE MCContexts -----------------------------
(****************************************************************************)
(* Contexts for TLC: who owns the buffers of several (WorkerContext), and   *)
(* what one request after another leaves of its settings in one             *)
(* (RequestState).  A behaviour is one of either.                           *)
(****************************************************************************)
EXTENDS WorkerContext

CONSTANTS Speaker, Language, Ryan, English, VoiceClone, OwnSpeaker, OwnLanguage, Mood,
          Installable, Large, Chunk, ChunkDefault, SpanLists, MaxServed

VARIABLES about   \* "buffers" or "settings"
VARIABLES spc, served, req, speaker, language, sampling, instruct, design,
          steer, before, stream, chunk, target, todo
settingVars == <<spc, served, req, speaker, language, sampling, instruct, design,
                 steer, before, stream, chunk, target, todo>>

Settings == INSTANCE RequestState WITH
  MaxRequests <- MaxServed, Absent <- Null,
  pc <- spc, requests <- served, saved <- before

\* Plain text, and texts with one and two spans, two of a mood and the second
\* of none.
MCSpanLists == LET m == CHOOSE x \in Installable : TRUE IN {<< >>, <<m>>, <<m, Null>>}

ASSUME SettingsAssumption == Settings!RequestAssumption

ContextsNext ==
  \/ about = "buffers" /\ Next /\ UNCHANGED <<about, settingVars>>
  \/ about = "settings" /\ Settings!Next /\ UNCHANGED <<about, vars>>

\* Buffers do not depend on what a server sets at its start.
ContextsInit == /\ Init /\ Settings!Init /\ about \in {"buffers", "settings"}
                /\ about = "buffers" => ~design /\ instruct = Null /\ steer = Null

ContextsSpec == ContextsInit /\ [][ContextsNext]_<<about, vars, settingVars>>

-----------------------------------------------------------------------------
(* Properties.                                                              *)

\* Requests on one context run with their own settings and the server's, and
\* leave no callback behind.
SettingsApart == Settings!SettingsApart
=============================================================================
