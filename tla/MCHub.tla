--------------------------------- MODULE MCHub ---------------------------------
(***************************************************************************)
(* Instances of the hub's modules for TLC, one run for all four.  They     *)
(* have no variable in common, so a behaviour moves one of them, its part, *)
(* and leaves the others in one initial state; the states of the run are   *)
(* the sum of theirs.  HubIngest is taken in two parts: batches and        *)
(* reports share only the keys, which neither of them changes.             *)
(*                                                                         *)
(* Keys, requests and calls are interchangeable.  The temporal property is *)
(* about the part "retention", whose states hold none of them, so the      *)
(* symmetry cannot hide a behaviour from it.                               *)
(***************************************************************************)
EXTENDS HubAuth, HubIngest, HubRetention, HubReads, TLC

Text(len, chars) == [len |-> len, chars |-> chars]
Message(len, chars) == [len |-> len, chars |-> chars, endsLine |-> TRUE]
shop == Text(4, {"a"})
ShopUpper == Text(4, {"a", "A"})
vps == Text(3, {"a"})
other == Text(5, {"a"})

\* An app, one whose name the table refuses, an agent twice, with different
\* host names, and a dashboard with the name of the agent.
NoRole == [agent |-> None, hostname |-> None, app |-> None, dashboard |-> None]
Commands == {
  [NoRole EXCEPT !.app = shop], [NoRole EXCEPT !.app = ShopUpper],
  [NoRole EXCEPT !.agent = vps], [NoRole EXCEPT !.agent = vps, !.hostname = other],
  [NoRole EXCEPT !.dashboard = vps], [NoRole EXCEPT !.agent = vps, !.app = shop]}

GoodEvent == [type |-> shop, user |-> None, ts |-> 0,
              payload |-> [object |-> TRUE, len |-> 2, chars |-> {"other"}]]
NulEvent == [GoodEvent EXCEPT !.payload.chars = {"other", "nul"}]
BadEvents == {
  [GoodEvent EXCEPT !.type = ShopUpper],
  [GoodEvent EXCEPT !.user = Text(129, {"a"})],
  [GoodEvent EXCEPT !.payload.len = 4097],
  [GoodEvent EXCEPT !.ts = MaxFutureSkew + 1]}
EventBatches ==
  {<<>>, <<GoodEvent, NulEvent>>, <<GoodEvent, GoodEvent, GoodEvent>>,
   <<GoodEvent, [GoodEvent EXCEPT !.user = Text(128, {"a", "other"})]>>}
    \cup {<<GoodEvent, e>> : e \in BadEvents} \cup {<<e, e>> : e \in BadEvents}

GoodLine == [container |-> shop, stream |-> "stdout", ms |-> 0, message |-> Message(9, {"a"})]
GoodEntry == [ms |-> None, level |-> "info", threat |-> "none", categories |-> {},
              client |-> None, path |-> None, noise |-> None, status |-> 0,
              response |-> None, service |-> shop, unit |-> vps, vhost |-> None,
              message |-> Message(20000, {"a"}), raw |-> None]
BadEntries == {
  [GoodEntry EXCEPT !.level = "grave"], [GoodEntry EXCEPT !.status = 600],
  [GoodEntry EXCEPT !.client = "unparsable"], [GoodEntry EXCEPT !.service.len = 0]}
EntryBatches ==
  {[lines |-> <<GoodLine>>, parsed |-> <<e>>] : e \in BadEntries \cup {GoodEntry}}
    \cup {[lines |-> <<[GoodLine EXCEPT !.stream = "tty"]>>, parsed |-> <<>>],
          [lines |-> <<[GoodLine EXCEPT !.message.chars = {"nul"}]>>, parsed |-> <<GoodEntry>>],
          [lines |-> <<GoodLine, GoodLine>>, parsed |-> <<GoodEntry>>]}

PointTimes == {-1, 1, 2}

Hub(days, metricDays) ==
  [enabled |-> TRUE, tls |-> FALSE, grpc |-> "tailscale", rest |-> "loopback",
   days |-> days, metricDays |-> metricDays]
HubConfigs == {Hub(1, 1), Hub(0, 7), [Hub(1, 0) EXCEPT !.rest = "public"]}

VARIABLE part

Handled == {handling[r].kind : r \in {q \in Call : handling[q] # None}}

mcVars == <<part, vars, ingestVars, retentionVars, readsVars>>

Init4 ==
  /\ part \in {"auth", "batches", "reports", "retention", "reads"}
  /\ Init /\ InitIngest /\ InitRetention /\ InitReads
  /\ part # "retention" => config = Hub(1, 1)
  /\ part # "reads" => \A e \in EventId : daysOld[e] = -1

Next4 ==
  /\ UNCHANGED part
  /\ \/ part = "auth" /\ Next /\ UNCHANGED <<ingestVars, retentionVars, readsVars>>
     \/ /\ part \in {"batches", "reports"}
        /\ NextIngest /\ UNCHANGED <<vars, retentionVars, readsVars>>
        /\ IF part = "batches" THEN clock' = 0 /\ Handled' \subseteq {"events", "logs"}
                              ELSE answer' = None /\ Handled' \subseteq {"seen", "point"}
     \/ part = "retention" /\ NextRetention /\ UNCHANGED <<vars, ingestVars, readsVars>>
     \/ part = "reads" /\ NextReads /\ UNCHANGED <<vars, ingestVars, retentionVars>>

Spec4 == Init4 /\ [][Next4]_mcVars /\ FairRetention

HubSymmetry == Permutations(Key) \cup Permutations(Request)
=============================================================================
