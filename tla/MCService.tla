----------------------------- MODULE MCService -----------------------------
(***************************************************************************)
(* The parts of the payments service that share no table with the money,   *)
(* in the instances that matter for each: a behaviour follows one          *)
(* scenario.  A scenario only leaves moves out of the next-state relation  *)
(* of its component.                                                       *)
(***************************************************************************)
EXTENDS Network, TreeCache, Tickets, Comms, TLC

CONSTANTS Scenarios, FirstNew, FirstSender, FirstAdmin, SecondAdmin, FirstPerson, FirstWorker, FewKeys, FirstReader
VARIABLES
  scenario,
  moves                        \* relocations that ended
serviceVars == <<scenario, moves, netVars, cacheVars, ticketVars, commsVars>>

ServiceInit ==
  /\ NetInit /\ CacheInit /\ TicketsInit /\ CommsInit
  /\ scenario \in Scenarios /\ moves = 0

-----------------------------------------------------------------------------
(* The tree: affiliate 4 hangs from 2, 2 and 3 from the company.           *)

MC_FirstSlot == [n \in Old |->
  [parent |-> IF n = 4 THEN 2 ELSE 1, sponsor |-> IF n = 4 THEN 2 ELSE 1, leg |-> IF n = 3 THEN "R" ELSE "L"]]

OneNewcomer == \A n \in New \ {FirstNew} : place'[n] = NoPlace
FewMoves == move' # NoMove =>
  /\ move'.target \in {2, 4} /\ move'.sponsor \in {1, 3, 4}
  /\ move'.parent \in {1, 3, 4, tree[move'.target].parent}
OneSide == \A n \in New : place'[n].pc # "new" => place'[n].side # "auto"
OneSale == \A n \in Nodes : event'[n] > 0 => n = 4

TreeMoves ==
  \/ scenario = "placements" /\ move' = move /\ event' = event
  \/ scenario = "relocations" /\ OneNewcomer /\ FewMoves /\ moves' <= 2 /\ OneSide /\ OneSale
  \/ scenario = "races" /\ event' = event /\ moves' <= 1 /\ FewMoves /\ OneSide

-----------------------------------------------------------------------------
(* The cache of branches: several readers of few of them, or one of more   *)
(* branches than are kept.                                                 *)

CacheMoves ==
  \/ scenario = "cache" /\ \A r \in Readers : reader'[r].pc # "ready" => reader'[r].key \in FewKeys
  \/ scenario = "evictions" /\ \A r \in Readers \ {FirstReader} : reader'[r] = Waits

-----------------------------------------------------------------------------
(* Tickets: calls alone, or messages and members with their administrators. *)

OneWorker == \A w \in Workers \ {FirstWorker} : work'[w] = Idle
TicketMoves ==
  \/ scenario = "calls" /\ active' = active
       /\ \A w \in Workers : work'[w].kind \in {"", "twilio", "agent", "escalatedTurn"}
       /\ \A t \in DOMAIN ticket' : ticket'[t].status = "open"
  \/ scenario = "messages" /\ active' = active /\ call' = call
       /\ \A w \in Workers : work'[w].kind # "member" /\ work'[w].message \in Mails \cup {NoMessage}
       /\ \A t \in DOMAIN ticket' : ticket'[t].status # "closed"
  \/ scenario = "members" /\ OneWorker /\ call' = call /\ active' \subseteq active
       /\ work'[FirstWorker].kind # "mail" /\ \A t \in DOMAIN ticket' : ticket'[t].answer # "human"

-----------------------------------------------------------------------------
(* Mass mail: who decides, several senders, or senders that stop.          *)

OneSender == \A s \in Senders \ {FirstSender} : sender'[s] = Resting
NobodyStops ==
  \A s \in Senders : sender[s].pc \in {"batch", "claim", "post"} => sender'[s].pc # "rest"
OneAuthor == \A c \in Campaigns :
  /\ campaign'[c].by \in {FirstAdmin, SecondAdmin, NoAdmin} /\ campaign'[c].submitter \in {FirstAdmin, SecondAdmin, NoAdmin}
  /\ campaign'[c].text <= 1 /\ campaign'[c].status # "rejected"
DirectlyApproved == \A a \in Admins : decision'[a] # NoDecision => a = SecondAdmin /\ decision'[a].approve
\* Only the first person is in the audience.
OneReader == \A a \in Admins : decision'[a] # NoDecision => barred = People \ {FirstPerson}
NothingStopped == \A c \in Campaigns : campaign'[c].status \notin {"paused", "cancelled"}

MailMoves ==
  \/ scenario = "governance" /\ OneSender /\ NobodyStops /\ notices' = {} /\ barred' = {}
       /\ \A s \in Senders : sender'[s].answer \in {"", "ok"}
  \/ scenario = "senders" /\ OneAuthor /\ DirectlyApproved /\ NobodyStops /\ notices' = {} /\ barred' \subseteq {FirstPerson}
       /\ NothingStopped /\ asked' = {} /\ \A s \in Senders : sender'[s].answer \in {"", "ok", "throttled"}
  \/ scenario = "crashes" /\ OneAuthor /\ OneSender /\ DirectlyApproved
       /\ Cardinality(notices') <= 1 /\ OneReader

\* No action tells one speech from another.
MC_Symmetry == Permutations(Speeches)

ServiceNext ==
  /\ \/ /\ scenario \in {"placements", "relocations", "races"}
        /\ NetNext /\ moves' = IF move # NoMove /\ move' = NoMove THEN moves + 1 ELSE moves
        /\ TreeMoves /\ UNCHANGED <<cacheVars, ticketVars, commsVars>>
     \/ /\ scenario \in {"cache", "evictions"}
        /\ CacheNext /\ CacheMoves /\ UNCHANGED <<moves, netVars, ticketVars, commsVars>>
     \/ /\ scenario \in {"calls", "messages", "members"}
        /\ TicketsNext /\ TicketMoves /\ UNCHANGED <<moves, netVars, cacheVars, commsVars>>
     \/ /\ scenario \in {"governance", "senders", "crashes"}
        /\ CommsNext /\ MailMoves /\ UNCHANGED <<moves, netVars, cacheVars, ticketVars>>
  /\ UNCHANGED scenario

ServiceSpec == ServiceInit /\ [][ServiceNext]_serviceVars
=============================================================================
