-------------------------- MODULE MCOrchestration --------------------------
EXTENDS Orchestration

Mic     == [direction |-> "Outbound", type |-> "Audio", codec |-> "Opus", ns |-> "mic"]
Speaker == [direction |-> "Inbound",  type |-> "Audio", codec |-> "Opus", ns |-> "speaker"]
State   == [direction |-> "Outbound", type |-> "Data",  codec |-> "PCM",  ns |-> "state"]
Control == [direction |-> "Inbound",  type |-> "Data",  codec |-> "PCM",  ns |-> "control"]

\* A microphone, a speaker, and data in and out.
MCTracks == <<Mic, Speaker, State, Control>>

\* What is sent only, audio and data.
MCOutbound == <<Mic, State>>
=============================================================================
