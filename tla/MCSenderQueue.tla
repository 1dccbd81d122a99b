----------------------------- MODULE MCSenderQueue -----------------------------
(***************************************************************************)
(* SenderQueue for TLC: what the application sends, and the parameters of  *)
(* the peer.                                                               *)
(***************************************************************************)
EXTENDS SenderQueue

Send(kind, channel, lengths) == [kind |-> kind, channel |-> channel, lengths |-> lengths]

FlowPackets ==
    {Send("reliable", 0, <<2>>), Send("reliable", 0, <<3, 3>>),
     Send("unreliable", 0, <<3, 1>>), Send("unsequenced", 0, <<1>>), Ping}
TimeoutPackets == {Send("reliable", 0, <<2>>), Ping}

Setting(packets, throttles, roundTrips, limit, minimum, maximum, ping, prompt, time, queued) ==
    [packets |-> packets, throttles |-> throttles, roundTrips |-> roundTrips,
     timeoutLimit |-> limit, timeoutMinimum |-> minimum, timeoutMaximum |-> maximum,
     pingInterval |-> ping, prompt |-> prompt, maxTime |-> time, maxQueued |-> queued]

Flow == Setting(FlowPackets, {1, 4}, {1}, 2, 3, 4, 9, FALSE, 3, 4)
Timeouts == Setting(TimeoutPackets, {4}, {2, 4}, 8, 3, 4, 30, TRUE, 15, 2)
AllSettings == {Flow, Timeouts}
================================================================================
