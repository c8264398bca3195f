-------------------------- MODULE ChannelInboundMC --------------------------
(* An instance of ChannelInbound for TLC.                                   *)
EXTENDS ChannelInbound, TLC

CONSTANTS x1, x2

\* Media, perhaps delivered twice, before a /clear with a body; or two messages
\* with media of one context.
MCMessage == {x1, x2}
MCKinds   == {(x1 :> {"media", "again"}) @@ (x2 :> {"clear"}),
              [m \in MCMessage |-> {"media"}]}
=============================================================================
