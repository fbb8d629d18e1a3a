--------------------------- MODULE MCHiRadixTree ---------------------------
(***************************************************************************)
(* Instances of HiRadixTree for TLC.                                       *)
(***************************************************************************)
EXTENDS HiRadixTree

CONSTANTS r1, r2

Server(device, prefill, prompts) ==
    [DevicePages |-> device, HostPages |-> device + 1, MaxPrefill |-> prefill,
     traffic |-> prompts]
OneOf(mine, others) == {[q \in Req |-> IF q = r THEN mine ELSE others] : r \in Req}

\* Prompts that end inside one another and part after a page, so that nodes
\* are split, computed twice, loaded back and batched under two requests.  The
\* length of the batch limits it on two servers, memory on one.
Shared == {<<1>>, <<1, 1>>, <<1, 2>>}
SharedServers ==
    {Server(d, 3, [r \in Req |-> Shared]) : d \in 5..6}
      \cup {Server(4, 5, [r \in Req |-> Shared])}

\* Prompts that together exceed the host memory, one request at a time.
Crowd == {<<1, 1>>, <<1, 1, 2>>, <<2, 2, 2>>, <<3, 3>>}
CrowdedServers == {Server(5, 3, f) : f \in OneOf(Crowd, {})}

\* A request that waits for the rest of its prompt while the other one evicts.
FollowedServers ==
    {Server(5, 3, f) : f \in OneOf({<<1, 1>>, <<3, 3>>}, {<<1, 1, 2, 2>>})}

AllServers == SharedServers \cup CrowdedServers \cup FollowedServers

Requests == Permutations(Req)
====
