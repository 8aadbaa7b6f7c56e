---------------------------- MODULE Negotiation ----------------------------
(***************************************************************************)
(* server/configuration.py: what a connection negotiates with HAProxy.     *)
(*                                                                         *)
(* A configuration is a record [size, caps, compatible]: the frame size in *)
(* force, the capabilities in common, and whether negotiation succeeded.   *)
(* One is created per connection and updated once, by the HAPROXY-HELLO.   *)
(*                                                                         *)
(* A version string is abstracted to the tuple of its dot-separated        *)
(* numbers ("2.0" is <<2, 0>>); a tuple of any other length than two       *)
(* stands for every string _parse_version rejects with a ValueError.       *)
(***************************************************************************)
EXTENDS Integers, Sequences

SpoeVersion == <<2, 0>>
SpoeCapabilities == {"pipelining"}

Configurations == [size : Int, caps : SUBSET SpoeCapabilities, compatible : BOOLEAN]

\* ServerConfiguration.__init__: the agent's own size until negotiation.
InitialConfig(ownSize) == [size |-> ownSize, caps |-> {}, compatible |-> TRUE]

\* _parse_version: exactly "major.minor", both integers.
Parses(version) == Len(version) = 2

\* Python's tuple order on (major, minor).
VersionLeq(v, w) == v[1] < w[1] \/ (v[1] = w[1] /\ v[2] <= w[2])

\* A plausible slip: versions must be equal, a newer minor is refused.
SameVersionOnly(config, versions) ==
    [config EXCEPT !.compatible = \E i \in DOMAIN versions : versions[i] = SpoeVersion]

\* _check_version_compatibility: some offered version of our major is not older than ours.
CheckVersionCompatibility(config, versions) ==
    [config EXCEPT !.compatible =
        \E i \in DOMAIN versions :
            /\ Parses(versions[i])
            /\ versions[i][1] = SpoeVersion[1]
            /\ VersionLeq(SpoeVersion, versions[i])]

\* A plausible slip: the peer's limit is ignored.
KeepOwnFrameSize(config, size) == config

\* _find_max_frame_size: the smaller of both sizes; a size that is not positive is refused.
FindMaxFrameSize(config, size) ==
    LET agreed == IF size < config.size THEN size ELSE config.size IN
    [config EXCEPT !.size = agreed,
                   !.compatible = @ /\ agreed > 0]

\* _find_common_capabilities: the intersection; none in common is not an error.
FindCommonCapabilities(config, capabilities) ==
    [config EXCEPT !.caps = capabilities \cap SpoeCapabilities]

\* negotiate_server_compatibility: the three checks, in this order.
Negotiate(config, hello) ==
    LET versioned == CheckVersionCompatibility(config, hello.versions)
        sized     == FindMaxFrameSize(versioned, hello.size)
    IN  FindCommonCapabilities(sized, hello.caps)
=============================================================================
