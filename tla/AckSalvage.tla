----------------------------- MODULE AckSalvage -----------------------------
(***************************************************************************)
(* ForgeHandler._salvaged_ack: which of a handler's actions an ACK keeps   *)
(* when the full list does not encode or does not fit the frame.           *)
(*                                                                         *)
(* An action is a record [len, enc]: the bytes it encodes to, and what     *)
(* encode_action_list does with it:                                        *)
(*   "ok"     it encodes;                                                  *)
(*   "bad"    SpopEncodeError (a name or value with no wire form);         *)
(*   "alien"  an exception that is not a SpoeForgeError, from the encoder  *)
(*            (a scope that is not an integer) or from reading the name of *)
(*            an object that is not an action.                             *)
(***************************************************************************)
EXTENDS FrameLengths, Sequences

AllEncode(actions) == \A i \in DOMAIN actions : actions[i].enc = "ok"
SomeAlien(actions) == \E i \in DOMAIN actions : actions[i].enc = "alien"

\* Bytes of the first k actions, for every k.
Totals(actions) ==
    LET total[k \in 0 .. Len(actions)] == IF k = 0 THEN 0 ELSE total[k - 1] + actions[k].len
    IN  total

\* Bytes of encode_action_list over actions that encode.
ActionsLen(actions) == Totals(actions)[Len(actions)]
AckLen(actions, ids) == EmptyAckLen(ids) + ActionsLen(actions)

\* One iteration of the loop: an action is dropped if it does not encode or
\* would exceed the budget; the loop goes on with the next one either way.
Keep(kept, action, budget) ==
    IF action.enc # "ok" \/ kept.used + action.len > budget
    THEN kept
    ELSE [actions |-> Append(kept.actions, action), used |-> kept.used + action.len]

\* What the loop has kept of the first k actions, for every k.
KeptUpTo(actions, budget) ==
    LET kept[k \in 0 .. Len(actions)] ==
            IF k = 0 THEN [actions |-> <<>>, used |-> 0]
            ELSE Keep(kept[k - 1], actions[k], budget)
    IN  kept

\* A plausible slip: the budget is what an empty ACK outside any stream leaves.
SalvagedOutsideStream(actions, size, ids) ==
    KeptUpTo(actions, size - EmptyAckLen(ZeroIds))[Len(actions)].actions

\* _salvaged_ack: the kept actions, in the handler's order.  The budget is what
\* an empty ACK with the NOTIFY's own ids leaves of the negotiated size.
Salvaged(actions, size, ids) ==
    KeptUpTo(actions, size - EmptyAckLen(ids))[Len(actions)].actions
=============================================================================
