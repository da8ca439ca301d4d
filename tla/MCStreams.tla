----------------------------- MODULE MCStreams ------------------------------
(***************************************************************************)
(* TypedStreams with two-byte windows, in one of several uses that `focus` *)
(* names: one stream with its output, one with its input, one with both    *)
(* but a byte at a time, and two streams without traffic.                  *)
(***************************************************************************)
EXTENDS MCTypedStreams

VARIABLE focus

OneStream == nextStream' <= FirstId + 1
NoOutput == \A i \in Ids : forwarder'[i].hold = 0 /\ reader'[i].step = "idle"
NoInput == writer' = writer /\ \A i \in Ids : ~ResizeTerminalStream(i)
OneByte ==
    \A i \in Ids :
        child'[i].accepted /\ server'[i].state = "open" =>
            /\ forwarder'[i].hold + child'[i].queue <= 1
            /\ server'[i].send >= Window - 1 /\ child'[i].send >= Window - 1

StreamsInit == focus \in {"output", "input", "both", "streams"} /\ Init

StreamsNext ==
    /\ UNCHANGED focus /\ Next
    /\ \/ focus = "output" /\ OneStream /\ NoInput
       \/ focus = "input" /\ OneStream /\ NoOutput
       \/ focus = "both" /\ OneStream /\ OneByte
       \/ focus = "streams" /\ NoInput /\ NoOutput

StreamsSpec == StreamsInit /\ [][StreamsNext]_<<focus, vars>>
============================================================================
