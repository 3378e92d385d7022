----------------------------- MODULE MCNowLive -----------------------------
(***************************************************************************)
(* What the runners of NOWPayments and the wake-ups of the engine bring    *)
(* about in the end.  A behaviour follows one scenario: orders, payments   *)
(* and runners of which one may be terminated, or weeks of the engine that *)
(* may be frozen by a risk.                                                *)
(***************************************************************************)
EXTENDS NowOrders, NowEngine

VARIABLE scenario
nowVars == <<scenario, orderVars, engineVars>>

MC_Sponsor == <<0, 1, 2, 2>>
MC_Node == << [parent |-> 0, leg |-> ""], [parent |-> 1, leg |-> "L"],
              [parent |-> 2, leg |-> "L"], [parent |-> 2, leg |-> "R"] >>
MC_Catalog == [small |-> [gross |-> 100, pv |-> 1, tier |-> 1]]

\* Members buy in their order, on the first Monday or the second.
Newcomer == source'[Len(source')]
InOrder ==
  Len(source') > Len(source) =>
    /\ Today \in {0, Week} /\ ~Late
    /\ \A i \in Sources : source[i].day = Today => source[i].member <= Newcomer.member

NowInit == OrdersInit /\ EngineInit /\ scenario \in {"orders", "weeks"}

NowNext ==
  /\ \/ scenario = "orders" /\ OrdersNext /\ UNCHANGED engineVars
     \/ scenario = "weeks" /\ EngineNext /\ InOrder /\ UNCHANGED <<manual, orderVars>>
  /\ UNCHANGED scenario

NowLiveSpec ==
  NowInit /\ [][NowNext]_nowVars /\ OrdersFairness /\ (scenario = "weeks" => EngineFairness)
=============================================================================
