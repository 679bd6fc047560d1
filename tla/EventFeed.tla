-------------------------------- MODULE EventFeed --------------------------------
(* The events a browser polls: web_access.rs and ui/src/core/transport.ts. The      *)
(* server numbers what plugins and the manager publish and keeps the last few; the  *)
(* page asks for what follows its cursor and reloads its snapshots when told that   *)
(* something is missing. One page; events of other devices are not for it.          *)
EXTENDS Integers, Sequences, FiniteSets

CONSTANTS MaxEvents,            \* MAX_EVENTS
          FeedBudgets           \* bounds: [events, losses, connects, starts]

VARIABLES feedBudget,
          feed,    \* [sequence, items, run]: the buffer, and which run of sharing it is of
          page     \* [connected, run, cursor, resync, poll]: poll is the request under way
feedVars == <<feedBudget, feed, page>>

\* Ghost: numbers of the events for the page, of this run, that it knows nothing of.
VARIABLE unseen
allFeedVars == <<feedVars, unseen>>

NoPoll == [at |-> "none", after |-> 0, cursor |-> 0, missed |-> FALSE, events |-> {}]

FeedInit ==
    /\ feedBudget \in FeedBudgets
    /\ feed = [sequence |-> 0, items |-> <<>>, run |-> 1]
    /\ page = [connected |-> FALSE, run |-> 0, cursor |-> 0, resync |-> FALSE, poll |-> NoPoll]
    /\ unseen = {}

Uses(what) == feedBudget[what] > 0 /\ feedBudget' = [feedBudget EXCEPT ![what] = @ - 1]

(* ----------------------------------------------------------------- server *)
LastOf(items) == SubSeq(items, IF Len(items) > MaxEvents THEN 2 ELSE 1, Len(items))
Pushed(mine) == [feed EXCEPT !.sequence = @ + 1,
                             !.items = LastOf(Append(@, [id |-> feed.sequence + 1, mine |-> mine]))]
Publish(mine) ==
    /\ Uses("events")
    /\ feed' = Pushed(mine)
    /\ unseen' = IF mine THEN unseen \cup {feed.sequence + 1} ELSE unseen
    /\ UNCHANGED page

(* An event that is too long only takes a number.                                  *)
Overlong == [feed EXCEPT !.sequence = @ + 1]
PublishLong ==
    /\ Uses("events")
    /\ feed' = Overlong
    /\ unseen' = unseen \cup {feed.sequence + 1}
    /\ UNCHANGED page

(* since_filtered: a gap shows in the numbers that follow the cursor, at the end    *)
(* too, whoever the events are for.                                                *)
MutForgetsEnd(after) == LET ids == {feed.items[i].id : i \in DOMAIN feed.items}
                        IN after > feed.sequence \/ \E id \in ids : id > after + 1 /\ id - 1 \notin ids
Missed(after) ==
    LET ids == {feed.items[i].id : i \in DOMAIN feed.items}
    IN after > feed.sequence \/ \E id \in after + 1 .. feed.sequence : id \notin ids
Since(after) ==
    {feed.items[i].id : i \in {j \in DOMAIN feed.items : feed.items[j].id > after /\ feed.items[j].mine}}
Serve ==
    /\ page.poll.at = "asked"
    /\ page' = [page EXCEPT !.poll = [at |-> "answered", after |-> @.after, cursor |-> feed.sequence,
                                      missed |-> Missed(@.after), events |-> Since(@.after)]]
    /\ UNCHANGED <<feedBudget, feed, unseen>>

(* Sharing is stopped and started: the key may be the one the page has, but the     *)
(* numbers begin again.                                                            *)
StartSharing ==
    /\ Uses("starts")
    /\ feed' = [sequence |-> 0, items |-> <<>>, run |-> feed.run + 1]
    /\ unseen' = {}
    /\ UNCHANGED page

(* ------------------------------------------------------------------- page *)
(* connectWeb takes the cursor of the status; an older request is aborted.          *)
Connect ==
    /\ Uses("connects")
    /\ page' = [connected |-> TRUE, run |-> feed.run, cursor |-> feed.sequence, resync |-> FALSE,
                poll |-> NoPoll]
    /\ unseen' = {}
    /\ UNCHANGED feed

Poll ==
    /\ page.connected /\ page.poll.at = "none"
    /\ page' = [page EXCEPT !.poll = [NoPoll EXCEPT !.at = "asked", !.after = page.cursor]]
    /\ UNCHANGED <<feedBudget, feed, unseen>>

(* The whole batch is applied; snapshots are reloaded first when it says so, or     *)
(* when a poll was lost before.                                                    *)
Receive ==
    LET batch == page.poll
    IN /\ batch.at = "answered"
       /\ page' = [page EXCEPT !.cursor = batch.cursor, !.resync = FALSE, !.poll = NoPoll]
       /\ unseen' = IF batch.missed \/ page.resync THEN {id \in unseen : id > batch.cursor}
                    ELSE unseen \ batch.events
       /\ UNCHANGED <<feedBudget, feed>>

LosePoll ==
    /\ page.poll.at # "none" /\ Uses("losses")
    /\ page' = [page EXCEPT !.resync = TRUE, !.poll = NoPoll]
    /\ UNCHANGED <<feed, unseen>>

FeedNext ==
    \/ \E mine \in BOOLEAN : Publish(mine)
    \/ PublishLong \/ Serve \/ StartSharing \/ Connect \/ Poll \/ Receive \/ LosePoll
FeedSpec == FeedInit /\ [][FeedNext]_allFeedVars

(* What the page does not know of is ahead of its cursor: whatever was dropped from *)
(* the buffer, skipped for its length or lost with an answer, the page is told of   *)
(* the gap before it moves past it, as long as the same run of sharing lasts.       *)
NoSilentGap ==
    page.connected /\ page.run = feed.run => \A id \in unseen : id > page.cursor
===================================================================================
