--------------------------- MODULE MCDecoderThread ---------------------------
(* Instances of DecoderThread for TLC. *)
EXTENDS DecoderThread

\* A file in one thread or two, with a voice-clone head to trim, and a stream.
MCModes ==
    {[chunk |-> 2, trim |-> 1, stream |-> FALSE, callback |-> FALSE, overlap |-> o] :
        o \in BOOLEAN}
    \cup {[chunk |-> 3, trim |-> 1, stream |-> TRUE, callback |-> TRUE, overlap |-> TRUE]}
=============================================================================
