--------------------------------- MODULE MCParts ---------------------------------
(***************************************************************************)
(* The mechanisms that stand by themselves, for TLC: a behaviour is one of *)
(* a single one, so that their states add up and do not multiply.          *)
(***************************************************************************)
EXTENDS EnetTime, EnetList, Unsequenced, SendLoop, Bandwidth, Bindings

VARIABLE part

partsVars == <<part, timeVars, listVars, filterVars, loopVars, bandwidthVars, bindingsVars>>

Parts == {"time", "lists", "filter", "loop", "bandwidth", "packets", "runtime"}

\* The parts that the behaviour is not about stay in one of their initial states.
Init ==
    /\ part \in Parts
    /\ TimeInit /\ (part # "time" => now = 0)
    /\ ListInit /\ FilterInit /\ BindingsInit
    /\ LoopInit /\ (part # "loop" => \A p \in Peers : backlog[p] = 0)
    /\ BandwidthInit
    /\ part # "bandwidth" => changes = 0 /\ limits.incoming = 0 /\ limits.outgoing = 0

Next ==
    /\ UNCHANGED part
    /\ \/ part = "time" /\ TimeNext
       \/ part # "time" /\ UNCHANGED timeVars
    /\ \/ part = "lists" /\ ListNext
       \/ part # "lists" /\ UNCHANGED listVars
    /\ \/ part = "filter" /\ FilterNext
       \/ part # "filter" /\ UNCHANGED filterVars
    /\ \/ part = "loop" /\ LoopNext
       \/ part # "loop" /\ UNCHANGED loopVars
    /\ \/ part = "bandwidth" /\ BandwidthNext
       \/ part # "bandwidth" /\ UNCHANGED bandwidthVars
    /\ \/ part = "packets" /\ PacketsNext
       \/ part = "runtime" /\ RuntimeNext
       \/ part \notin {"packets", "runtime"} /\ UNCHANGED bindingsVars

Spec == Init /\ [][Next]_partsVars /\ LoopFairness

\* Every variable of every part keeps its type.
TypeOK ==
    /\ part \in Parts
    /\ TimeTypeOK /\ ListTypeOK /\ FilterTypeOK /\ LoopTypeOK /\ BandwidthTypeOK /\ BindingsTypeOK
==================================================================================
