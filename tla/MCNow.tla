------------------------------- MODULE MCNow -------------------------------
(***************************************************************************)
(* The orders of NOWPayments and the engine that pays for them, each in    *)
(* the instances that matter for it, one after the other: a behaviour      *)
(* follows one scenario.  A scenario only leaves moves out of OrdersNext   *)
(* or EngineNext.                                                          *)
(***************************************************************************)
EXTENDS NowOrders, NowEngine

CONSTANTS Scenarios, FirstOrder, FirstPayment, FirstHandler, FirstRunner
VARIABLE scenario
nowVars == <<scenario, orderVars, engineVars>>

NowInit == OrdersInit /\ EngineInit /\ scenario \in Scenarios

-----------------------------------------------------------------------------
(* Two orders of one request, two webhook handlers, two runners, two        *)
(* payments of one invoice, or processes that fail half way.               *)

OneHandler == \A x \in Handlers \ {FirstHandler} : handler'[x] = IdleHandler
OneRunner == \A x \in Runners \ {FirstRunner} : runner'[x] = IdleRunner
OnePayment == \A p \in Payments \ {FirstPayment} : pay'[p].order = Nobody
OneOrder == \A o \in Orders \ {FirstOrder} : order'[o] = NoOrder
InvoicesMade == \A o \in Orders : call'[o] # "failed"
Once == capture' # capture => Len(capture') <= Cardinality(sent)

NobodyFails ==
  /\ \A x \in Handlers : handler[x].pc # "idle" /\ handler'[x].pc = "idle"
       => handler[x].pc = "enqueue" /\ <<handler[x].pay, handler[x].signed>> \in acked'
  /\ \A x \in Runners : runner[x].pc \in {"receipt", "decide", "activate"} => runner'[x].pc # "idle"

OrderMoves ==
  \/ scenario = "requests" /\ pay' = pay
  \/ scenario = "handlers" /\ OneOrder /\ OneRunner /\ OnePayment /\ NobodyFails
       /\ InvoicesMade /\ buyer' = "fit" /\ \A o \in Orders : ~order'[o].cancelled
       /\ Len(capture') <= 3
  \/ scenario = "runners" /\ OneOrder /\ OneHandler /\ OnePayment /\ NobodyFails
  \/ scenario = "payments" /\ OneOrder /\ OneHandler /\ OneRunner /\ NobodyFails
       /\ InvoicesMade /\ buyer' = "fit" /\ Once
       /\ \A n \in sent' : n[2] \in {"waiting", "finished"}
  \/ scenario = "failures" /\ OneOrder /\ OneHandler /\ OneRunner /\ OnePayment
       /\ InvoicesMade /\ buyer' = "fit" /\ Once /\ \A o \in Orders : ~order'[o].cancelled

-----------------------------------------------------------------------------
(* Two weeks of sales, a manual activation, a member that is suspended.    *)

MC_Sponsor == <<0, 1, 2, 2, 3>>
MC_Node == << [parent |-> 0, leg |-> ""], [parent |-> 1, leg |-> "L"], [parent |-> 2, leg |-> "L"],
              [parent |-> 2, leg |-> "R"], [parent |-> 3, leg |-> "L"] >>
MC_Catalog == [small |-> [gross |-> 100, pv |-> 1, tier |-> 1],
               big |-> [gross |-> 200, pv |-> 2, tier |-> 2]]

Enters1 == Len(source') > Len(source)
Newcomer == source'[Len(source')]
\* Sales come on two Mondays, in the order of the members; one of them buys the larger.
InOrder ==
  Enters1 => /\ Today \in {0, Week} /\ ~Late
             /\ \A i \in Sources : source[i].day = Today => source[i].member <= Newcomer.member
             /\ Newcomer.kind = "nowpayments" => (Newcomer.pv = 2 <=> Newcomer.member = 4)

\* At most one member is suspended or moved, the last one while nobody has claimed
\* volume; the operator reviews one that changes and one that does not.
First(m) == [parent |-> FirstNode[m].parent, leg |-> FirstNode[m].leg, status |-> "active"]
Suspended == {m \in Members : node'[m].status # "active"}
Moved == {m \in Members : node'[m].parent # node[m].parent \/ node'[m].leg # node[m].leg}
OneChange ==
  /\ Cardinality({m \in Members : node'[m] # First(m)}) <= 1
  /\ Suspended \subseteq {4, 5} /\ Moved \subseteq {5}
  /\ {k \in Operations : manual'[k].member \notin {0, 3, 5}} = {}
  /\ Moved # {} => {m \in Members : book.claimed[m] > 0} = {} /\ node'[5].parent = 4

EngineMoves ==
  \/ scenario = "weeks" /\ InOrder /\ UNCHANGED <<manual, frozen, node>>
       /\ Cardinality({i \in DOMAIN source' : source'[i].day > 0}) <= 1
  \/ scenario = "manual" /\ InOrder /\ OneChange /\ Len(source') <= 2 /\ clock' <= 6

NowNext ==
  /\ \/ /\ scenario \notin {"weeks", "manual"}
        /\ OrdersNext /\ OrderMoves /\ UNCHANGED engineVars
     \/ /\ scenario \in {"weeks", "manual"}
        /\ EngineNext /\ EngineMoves /\ UNCHANGED orderVars
  /\ UNCHANGED scenario

NowSpec == NowInit /\ [][NowNext]_nowVars
=============================================================================
