------------------------------ MODULE Company ------------------------------
(***************************************************************************)
(* The company's wallets and availability as a fold over its events        *)
(* (backend/app/services/company.py).                                      *)
(*                                                                         *)
(* Callers build an event from the snapshot they hold, give it a sequence  *)
(* number, and fold it in later, or never, or twice, or in another order   *)
(* than they built it.  Each event records what its author saw (a balance  *)
(* or a status "before"), and the reducer refuses an event whose record    *)
(* does not match.  A snapshot can be rebuilt from the events alone, put   *)
(* in the order of their sequence numbers.                                 *)
(*                                                                         *)
(* An event is its content: its id is a hash of it, sequence included.     *)
(***************************************************************************)
EXTENDS Auction, FiniteSets, FiniteSetsExt

CONSTANTS
    Seed,           \* [agent -> its first balance]
    Reviewer,       \* "aegis"
    Rules,          \* the economy rules: [kind, amount, agents]
    Escape,         \* [engineer |-> rule, reviewer |-> rule]
    Tasks,          \* the tasks that may be auctioned
    Books,          \* the bids that may come in for a task
    Evidence,       \* the credibility evidence on file
    Learners,       \* bound: the agents memories are recorded for
    MaxEvents,      \* bound: events built other than skips
    MaxSkips        \* bound: skips built

\* The task of a status event that a cycle emitted.
NoTask == "no task"

IsRule(rule) == /\ rule.kind \in {"reward", "penalty"}
                /\ rule.amount \in Nat \ {0}
                /\ rule.agents \subseteq Agents

ASSUME SeedAssumption ==
    /\ Seed \in [Agents -> Nat]
    /\ Reviewer \in Agents \ Engineers
    /\ Learners \subseteq Agents
    /\ {MaxEvents, MaxSkips} \subseteq Nat

ASSUME RulesAssumption ==
    /\ \A rule \in Rules \union {Escape.engineer, Escape.reviewer} : IsRule(rule)
    /\ Escape.engineer.agents \subseteq Engineers

\* AuctionTask and Bid: what their fields are declared to hold.
ASSUME AuctionAssumption ==
    /\ \A task \in Tasks : {task.budget, task.floor} \subseteq Nat /\ task.id # NoTask
    /\ \A ref \in DOMAIN Evidence : Evidence[ref].score \in Nat
    /\ \A bids \in Books :
         /\ bids \in Seq(ToSet(bids))
         /\ \A bid \in ToSet(bids) : /\ {bid.amount, bid.credibility} \subseteq Nat
                                     /\ bid.refs \in Seq(ToSet(bid.refs)) \ {<<>>}
                                     /\ EvidenceScore(bid, Evidence) \in Nat

\* Adding one float to 0 and dividing by 1 leave it as it is.  Of the mean of
\* several nothing is assumed but that it is a float.
ASSUME MeanAssumption ==
    \A ref \in DOMAIN Evidence : Mean(<<Evidence[ref].score>>) = Evidence[ref].score

VARIABLES
    agents,     \* the snapshot: [agent -> [status, balance]]
    built,      \* the events callers have built
    applied     \* those folded into the snapshot

vars == <<agents, built, applied>>

InitialAgents ==
    [a \in Agents |-> [status |-> "available", balance |-> Seed[a]]]

Init ==
    /\ agents = InitialAgents
    /\ built = {}
    /\ applied = {}

-----------------------------------------------------------------------------
(* Events                                                                  *)

EconomyEvent(n, a, rule, delta, before) ==
    [type |-> "economy", seq |-> n, agent |-> a, rule |-> rule,
     delta |-> delta, before |-> before, after |-> before + delta]

StatusEvent(n, a, task, before, after) ==
    [type |-> "status", seq |-> n, agent |-> a, task |-> task,
     before |-> before, after |-> after]

AwardEvent(n, e, task)  == [type |-> "award", seq |-> n, agent |-> e, task |-> task]
SkipEvent(n, a)         == [type |-> "skip", seq |-> n, agent |-> a]
MemoryEvent(n, a)       == [type |-> "memory", seq |-> n, agent |-> a]

(***************************************************************************)
(* The reducer: what an event needs of the agents, and what it does.       *)
(***************************************************************************)
\* (a slip) a transaction is folded in whatever its author had seen.
AcceptsAnyBalance(s, ev) == ev.after >= 0

AcceptsTransaction(s, ev) ==
    /\ s[ev.agent].balance = ev.before
    /\ ev.after = s[ev.agent].balance + ev.delta
    /\ ev.after >= 0

\* (a slip) an engineer at work can be awarded another task.
AcceptsBusyWinner(s, ev) ==
    /\ ev.agent \in Engineers
    /\ s[ev.agent].balance # 0

AcceptsAward(s, ev) ==
    /\ ev.agent \in Engineers
    /\ s[ev.agent].status = "available"
    /\ s[ev.agent].balance # 0

AcceptsStatus(s, ev) ==
    /\ s[ev.agent].status = ev.before
    /\ ev.after # "dormant" => s[ev.agent].balance # 0

AcceptsSkip(s, ev) == s[ev.agent].balance = 0

Accepts(s, ev) ==
    /\ ev.type = "economy" => AcceptsTransaction(s, ev)
    /\ ev.type = "award"   => AcceptsAward(s, ev)
    /\ ev.type = "status"  => AcceptsStatus(s, ev)
    /\ ev.type = "skip"    => AcceptsSkip(s, ev)

After(s, ev) ==
    CASE ev.type = "economy" -> [s EXCEPT ![ev.agent].balance = ev.after]
      [] ev.type = "award"   -> [s EXCEPT ![ev.agent].status = "working"]
      [] ev.type = "status"  -> [s EXCEPT ![ev.agent].status = ev.after]
      [] OTHER               -> s

-----------------------------------------------------------------------------
(* Building events                                                         *)

Numbers(events) == {ev.seq : ev \in events}
OfType(type, events) == {ev \in events : ev.type = type}

\* Callers number the events they build one after the other.
NextNumber == 1 + Max(Numbers(built) \union {0})

Spent(events) == Cardinality(events \ OfType("skip", events))

Build(events) ==
    /\ Cardinality(OfType("skip", built \union events)) <= MaxSkips
    /\ Spent(built \union events) <= MaxEvents
    /\ built' = built \union events
    /\ UNCHANGED <<agents, applied>>

\* (a slip) a penalty takes its nominal amount.
FullDelta(rule, balance) ==
    IF rule.kind = "reward" THEN rule.amount ELSE -rule.amount

\* A penalty takes what is there, at most its nominal amount.
Delta(rule, balance) ==
    IF rule.kind = "reward" THEN rule.amount ELSE -Min({rule.amount, balance})

MakeEconomyEvent(n, a, rule) ==
    /\ a \in rule.agents
    /\ Build({EconomyEvent(n, a, rule, Delta(rule, agents[a].balance),
                           agents[a].balance)})

\* Both penalties of an escaped regression, the second on top of the first.
EscapedRegressionEvents(n, e) ==
    LET due  == Delta(Escape.engineer, agents[e].balance)
        due2 == Delta(Escape.reviewer, agents[Reviewer].balance)
    IN Build({EconomyEvent(n, e, Escape.engineer, due, agents[e].balance),
              EconomyEvent(n + 1, Reviewer, Escape.reviewer, due2,
                           agents[Reviewer].balance)})

MemoryUpdateEvent(n, a) == Build({MemoryEvent(n, a)})

\* The zero-balance rule: what a cycle says of one agent, not numbered yet.
CycleOf(a) ==
    IF agents[a].balance = 0
    THEN {SkipEvent(0, a)} \union
         (IF agents[a].status = "dormant" THEN {}
          ELSE {StatusEvent(0, a, NoTask, agents[a].status, "dormant")})
    ELSE IF agents[a].status = "dormant"
         THEN {StatusEvent(0, a, NoTask, "dormant", "available")}
         ELSE {}

\* The agents come in the order of the roster, and go to rest before they skip.
Earlier(x, y) ==
    \/ Position(x.agent) < Position(y.agent)
    \/ x.agent = y.agent /\ x.type = "status" /\ y.type = "skip"

CycleEvents(n) ==
    LET cycle == UNION {CycleOf(a) : a \in Agents}
        Number(ev) == n + Cardinality({x \in cycle : Earlier(x, ev)})
    IN /\ cycle # {}
       /\ Build({[ev EXCEPT !.seq = Number(ev)] : ev \in cycle})

\* Whoever is named as having completed a task becomes free again.
TaskCompletedEvent(n, e, task) ==
    Build({StatusEvent(n, e, task.id, agents[e].status,
               IF agents[e].balance = 0 THEN "dormant" ELSE "available")})

\* An auction over the snapshot, and the event of its award.  A task is put to
\* auction once.
AuctionAwardedEvent(n, task) ==
    /\ Spent(built) < MaxEvents
    /\ \A ev \in OfType("award", built) : ev.task # task.id
    /\ \E w \in UNION {Winners(task, bids, agents, Evidence) : bids \in Books} :
          Build({AwardEvent(n, w.engineer, task.id)})

(***************************************************************************)
(* Folding in                                                              *)
(***************************************************************************)
ApplyCompanyEvent(ev) ==
    /\ ev \in built \ applied
    /\ Accepts(agents, ev)
    /\ agents' = After(agents, ev)
    /\ applied' = applied \union {ev}
    /\ UNCHANGED built

-----------------------------------------------------------------------------
Awards(e)      == {ev \in applied : ev.type = "award" /\ ev.agent = e}
Completions(e) == {ev \in applied : /\ ev.type = "status" /\ ev.agent = e
                                    /\ ev.task # NoTask}
Open(e)        == {ev.task : ev \in Awards(e)} \ {ev.task : ev \in Completions(e)}

\* A caller reports the completion of a task its engineer was awarded; it may
\* report it again before the first report is folded in.
Next ==
    \/ LET n == NextNumber IN
        \/ \E rule \in Rules : \E a \in rule.agents : MakeEconomyEvent(n, a, rule)
        \/ \E e \in Escape.engineer.agents : EscapedRegressionEvents(n, e)
        \/ \E a \in Learners : MemoryUpdateEvent(n, a)
        \/ CycleEvents(n)
        \/ \E e \in Engineers, task \in Tasks :
              task.id \in Open(e) /\ TaskCompletedEvent(n, e, task)
        \/ \E task \in Tasks : AuctionAwardedEvent(n, task)
    \/ \E ev \in built : ApplyCompanyEvent(ev)

Spec == Init /\ [][Next]_vars

-----------------------------------------------------------------------------
(* Properties                                                              *)

EventTypes == {"economy", "status", "award", "skip", "memory"}

\* A snapshot holds each agent with a balance that is a natural number, no event
\* records another one, and what was folded in was built before.
TypeOK ==
    /\ agents \in [Agents -> [status : Statuses, balance : Nat]]
    /\ \A ev \in built : /\ ev.type \in EventTypes
                         /\ ev.seq \in Nat \ {0} /\ ev.agent \in Agents
                         /\ ev.type = "economy" => {ev.before, ev.after} \subseteq Nat
    /\ applied \subseteq built

(***************************************************************************)
(* reconstruct_company: sort by sequence, refuse a number used twice, fold *)
(* from the seeds.                                                         *)
(***************************************************************************)
Refused == [a \in Agents |-> [status |-> "refused", balance |-> 0]]

Latest(events) == CHOOSE x \in events : \A y \in events : y.seq <= x.seq

ReplayStep(ev, s) ==
    IF s # Refused /\ Accepts(s, ev) THEN After(s, ev) ELSE Refused

Reconstruct(events) ==
    IF Cardinality(Numbers(events)) # Cardinality(events)
    THEN Refused
    ELSE MapThenFoldSet(ReplayStep, InitialAgents, LAMBDA ev : ev, Latest, events)

\* Replay.  Rebuilding from the events that were folded in, in the order of
\* their numbers, either is refused or gives the snapshot, although they may
\* have been folded in in another order.
ReplayAgrees == Reconstruct(applied) \in {agents, Refused}

\* The doc's rule for the auction, for any bids and whoever is free just now:
\* the winner is the lowest-cost bid that is for the task, by an available and
\* funded engineer with the capabilities asked for, within the budget, at or
\* above the threshold, and whose claim is reached by the mean of its evidence,
\* all of it its own and on file; equal cost goes to credibility, then to that
\* mean, then to the id; and when a complete set of bids has such a bid, there
\* is a winner.  The mean is the float the code computes, so that a claim equal
\* to the exact mean of several scores may be refused; with one reference, as
\* _auction_for draws up its bids, no winner claims more than the score on file.
\* (An auction looks at the snapshot only: it is enough to look where every
\* event is folded in.)
AwardIsBest == built = applied =>
    \A task \in Tasks, bids \in Books :
        LET Backing(b) == Mean(ScoresAt(b, DOMAIN b.refs, Evidence))
            Fit(b) ==
                /\ b.task = task.id /\ b.amount <= task.budget
                /\ agents[b.engineer].status = "available"
                /\ agents[b.engineer].balance > 0
                /\ task.needs \ Capabilities[b.engineer] = {}
                /\ \A i \in DOMAIN b.refs :
                      /\ b.refs[i] \in DOMAIN Evidence
                      /\ Evidence[b.refs[i]].agent = b.engineer
                /\ task.floor <= b.credibility
                /\ b.credibility <= Backing(b)
            Bidders == {bids[i].engineer : i \in DOMAIN bids}
            fit     == {b \in ToSet(bids) : Fit(b)}
            won     == Winners(task, bids, agents, Evidence)
        IN /\ won \subseteq fit /\ Cardinality(won) <= 1
           /\ Bidders = Engineers /\ Len(bids) = Cardinality(Engineers) /\ fit # {}
                => won # {}
           /\ \A w \in won :
                Len(w.refs) = 1 => w.credibility <= Evidence[w.refs[1]].score
           /\ \A w \in won, b \in fit \ won :
                /\ w.amount <= b.amount
                /\ w.amount = b.amount => w.credibility >= b.credibility
                /\ w.amount = b.amount /\ w.credibility = b.credibility =>
                     /\ Backing(w) >= Backing(b)
                     /\ Backing(w) = Backing(b)
                           => Position(w.engineer) < Position(b.engineer)

\* Occupation.  An engineer that is free for an award has finished what it was
\* awarded, unless the zero-balance rule put it to rest in the middle of it or
\* a completion was reported more than once.
FreeMeansFinished ==
    \A e \in Engineers :
        agents[e].status = "available" /\ Open(e) # {} =>
            \/ \E ev \in applied : /\ ev.type = "status" /\ ev.agent = e
                                   /\ ev.before = "working" /\ ev.after = "dormant"
            \/ \E x, y \in Completions(e) : x # y /\ x.task = y.task
=============================================================================
