--------------------------- MODULE Company_proofs ---------------------------
(***************************************************************************)
(* The proofs about Company: the invariant, what a replay finds, what an   *)
(* award says, and what it means that an engineer is free.                 *)
(***************************************************************************)
EXTENDS CompanyInv, Ledger_proofs

-----------------------------------------------------------------------------
(***************************************************************************)
(* The roster                                                              *)
(***************************************************************************)
LEMMA RosterFacts ==
    /\ IsFiniteSet(Agents) /\ IsFiniteSet(Engineers)
    /\ Engineers \subseteq Agents
    /\ \A a \in Agents : Position(a) \in Nat
    /\ \A a, b \in Agents : Position(a) = Position(b) => a = b
<1> USE RosterAssumption DEF Agents, ToSet
<1>1. Len(Roster) \in Nat /\ DOMAIN Roster = 1..Len(Roster)
  OBVIOUS
<1>2. IsFiniteSet(1..Len(Roster))
  BY <1>1, FS_Interval
<1>3. Roster \in Surjection(1..Len(Roster), Agents)
  BY <1>1 DEF Surjection
<1>4. IsFiniteSet(Agents)
  BY <1>2, <1>3, FS_Surjection
<1>5. \A a \in Agents : Position(a) \in DOMAIN Roster /\ Roster[Position(a)] = a
  BY DEF Position
<1>6. Engineers \subseteq Agents
  OBVIOUS
<1>7. IsFiniteSet(Engineers)
  BY <1>4, <1>6, FS_Subset
<1> QED
  BY <1>1, <1>4, <1>5, <1>6, <1>7

-----------------------------------------------------------------------------
(***************************************************************************)
(* Gains                                                                   *)
(***************************************************************************)
LEMMA GainType ==
    ASSUME NEW ev, SoundEvent(ev), NEW q \in Measures
    PROVE  Gain(ev, q) \in Int
<1>1. \A truth : Unit(truth) \in {0, 1}
  BY DEF Unit
<1>2. Unit(Enters(ev) = q[2]) - Unit(Leaves(ev) = q[2]) \in Int
  BY <1>1
<1>3. ev.type = "economy" => ev.delta \in Int
  BY DEF SoundEvent, SoundTransaction
<1> QED
  BY <1>2, <1>3 DEF Gain

\* Two functions that agree on a set have the same sum over it.
LEMMA SumsAgree ==
    ASSUME NEW D, NEW E, NEW f, NEW h, Summable(f, D), Summable(h, E),
           NEW g, Totals(g, f, D), NEW k, Totals(k, h, E),
           D \subseteq E, \A x \in D : f[x] = h[x]
    PROVE  g[D] = k[D]
<1> DEFINE F == {s \in SUBSET D : g[s] = k[s]}
<1>1. ASSUME NEW s \in SUBSET D, \A x \in s : s \ {x} \in F
      PROVE  g[s] = k[s]
  <2>1. g[s] = SumStep(f, g, s) /\ k[s] = SumStep(h, k, s)
    BY DEF Totals
  <2>2. CASE s = {}
    BY <2>1, <2>2 DEF SumStep
  <2>3. CASE s # {}
    <3>1. Chosen(s) \in s
      BY <2>3, ChosenIn
    <3>2. h[Chosen(s)] = f[Chosen(s)] /\ g[s \ {Chosen(s)}] = k[s \ {Chosen(s)}]
      BY <1>1, <3>1
    <3> QED
      BY <2>1, <2>3, <3>2 DEF SumStep
  <2> QED
    BY <2>2, <2>3
<1>2. F = SUBSET D
  <2>1. F \in SUBSET SUBSET D
    OBVIOUS
  <2>2. \A s \in SUBSET D : (\A x \in s : s \ {x} \in F) => s \in F
    BY <1>1
  <2>3. IsFiniteSet(D)
    BY DEF Summable
  <2> HIDE DEF F
  <2> QED
    BY <2>1, <2>2, <2>3, SubsetFamily
<1> QED
  BY <1>2

LEMMA GainedNothing ==
    ASSUME NEW q
    PROVE  Gained({}, q) = 0
<1>1. SumFunction([d \in {} |-> 0]) = 0
  BY FS_EmptySet, SumOfZeros
<1>2. [ev \in {} |-> Gain(ev, q)] = [d \in {} |-> 0]
  OBVIOUS
<1> QED
  BY <1>1, <1>2 DEF Gained

LEMMA GainedMore ==
    ASSUME NEW S, IsFiniteSet(S), NEW ev, ev \notin S,
           \A x \in S \union {ev} : SoundEvent(x), NEW q \in Measures
    PROVE  /\ Gained(S, q) \in Int
           /\ Gained(S \union {ev}, q) = Gained(S, q) + Gain(ev, q)
<1> DEFINE E == S \union {ev}
           f == [x \in S |-> Gain(x, q)]
           h == [x \in E |-> Gain(x, q)]
<1>1. IsFiniteSet(E)
  BY FS_AddElement
<1>2. \A x \in E : Gain(x, q) \in Int
  BY GainType
<1>3. Summable(f, S) /\ DOMAIN f = S
  BY <1>2 DEF Summable
<1>4. Summable(h, E) /\ DOMAIN h = E
  BY <1>1, <1>2 DEF Summable
<1>5. (\A x \in S : f[x] = h[x]) /\ h[ev] = Gain(ev, q)
  OBVIOUS
<1>6. S \subseteq E /\ ev \in E /\ E \ {ev} = S
  OBVIOUS
<1>7. SumFunction(f) = Gained(S, q) /\ SumFunction(h) = Gained(E, q)
  BY DEF Gained
<1> HIDE DEF f, h, E
<1>8. PICK g : Totals(g, f, S) /\ SumFunctionOnSet(f, S) = g[S]
  BY <1>3, SumRecursion
<1>9. PICK k : Totals(k, h, E) /\ SumFunctionOnSet(h, E) = k[E]
  BY <1>4, SumRecursion
<1>10. k[E] = h[ev] + k[E \ {ev}]
  <2>1. E \in SUBSET E
    OBVIOUS
  <2> QED
    BY <2>1, <1>4, <1>6, <1>9, SumAnyElement
<1>11. g[S] = k[S]
  BY <1>3, <1>4, <1>5, <1>6, <1>8, <1>9, SumsAgree
<1>12. SumFunction(f) = g[S] /\ SumFunction(h) = k[E]
  BY <1>3, <1>4, <1>8, <1>9 DEF SumFunction
<1>13. g[S] \in Int /\ Gain(ev, q) \in Int
  BY <1>2, <1>6, <1>8 DEF Totals
<1>14. k[E] = Gain(ev, q) + g[S]
  BY <1>5, <1>6, <1>10, <1>11
<1>15. Gained(S, q) = g[S] /\ Gained(E, q) = k[E]
  BY <1>7, <1>12
<1> QED
  BY <1>13, <1>14, <1>15 DEF E

\* An event that a snapshot accepts takes it to a snapshot, and each measure by
\* what the event says.
LEMMA AfterSnapshot ==
    ASSUME NEW s \in Snapshots, NEW ev, SoundEvent(ev), Accepts(s, ev)
    PROVE  After(s, ev) \in Snapshots
<1> USE DEF Snapshots
<1>1. ev.agent \in Agents /\ ev.type \in EventTypes
  BY DEF SoundEvent
<1>2. CASE ev.type = "economy"
  <2>1. ev.after \in Nat
    BY <1>2 DEF SoundEvent, SoundTransaction
  <2>2. After(s, ev) = [s EXCEPT ![ev.agent].balance = ev.after]
    BY <1>2 DEF After
  <2> QED
    BY <1>1, <2>1, <2>2
<1>3. CASE ev.type = "award"
  <2>1. After(s, ev) = [s EXCEPT ![ev.agent].status = "working"]
    BY <1>3 DEF After
  <2> QED
    BY <1>1, <2>1 DEF Statuses
<1>4. CASE ev.type = "status"
  <2>1. ev.after \in Statuses
    BY <1>4 DEF SoundEvent, SoundStatus
  <2>2. After(s, ev) = [s EXCEPT ![ev.agent].status = ev.after]
    BY <1>4 DEF After
  <2> QED
    BY <1>1, <2>1, <2>2
<1>5. CASE ev.type \in {"skip", "memory"}
  BY <1>5 DEF After
<1> QED
  BY <1>1, <1>2, <1>3, <1>4, <1>5 DEF EventTypes

LEMMA AfterMeasures ==
    ASSUME NEW s \in Snapshots, NEW ev, SoundEvent(ev), Accepts(s, ev),
           NEW q \in Measures
    PROVE  Value(s, q) \in Int /\ Value(After(s, ev), q) = Value(s, q) + Gain(ev, q)
<1> DEFINE a == q[1]
           t == After(s, ev)
<1>1. a \in Agents /\ (q[2] = "balance" \/ q[2] \in Statuses)
  BY DEF Measures
<1>2. ev.agent \in Agents /\ ev.type \in EventTypes
  BY DEF SoundEvent
<1>3. s[a].balance \in Nat
  BY <1>1 DEF Snapshots
<1>4. \A truth : Unit(truth) \in {0, 1}
  BY DEF Unit
<1>5. Value(s, q) \in Int
  BY <1>3, <1>4 DEF Value
<1>6. CASE ev.agent # a
  <2>1. t[a] = s[a]
    BY <1>1, <1>2, <1>6 DEF After, Snapshots, EventTypes
  <2>2. Value(t, q) = Value(s, q)
    BY <2>1 DEF Value
  <2>3. Gain(ev, q) = 0
    BY <1>6 DEF Gain
  <2> QED
    BY <1>5, <2>2, <2>3
<1>7. CASE ev.agent = a /\ ev.type = "economy"
  <2>1. /\ s[a].balance = ev.before /\ ev.after = ev.before + ev.delta
        /\ ev.delta \in Int
    BY <1>7 DEF Accepts, AcceptsTransaction, SoundEvent, SoundTransaction
  <2>2. t[a].balance = ev.after /\ t[a].status = s[a].status
    BY <1>1, <1>7 DEF After, Snapshots
  <2>3. CASE q[2] = "balance"
    <3>1. Gain(ev, q) = ev.delta /\ Value(t, q) = ev.after /\ Value(s, q) = ev.before
      BY <1>7, <2>1, <2>2, <2>3 DEF Gain, Value
    <3> QED
      BY <1>5, <2>1, <3>1
  <2>4. CASE q[2] # "balance"
    <3>1. Gain(ev, q) = 0 /\ Value(t, q) = Value(s, q)
      BY <1>7, <2>2, <2>4 DEF Gain, Value
    <3> QED
      BY <1>5, <3>1
  <2> QED
    BY <2>3, <2>4
<1>8. CASE ev.agent = a /\ ev.type \in {"award", "status"}
  <2>1. s[a].status = Leaves(ev)
    BY <1>8 DEF Accepts, AcceptsAward, AcceptsStatus, Leaves
  <2>2. t[a].status = Enters(ev) /\ t[a].balance = s[a].balance
    BY <1>1, <1>8 DEF After, Enters, Snapshots
  <2>3. CASE q[2] = "balance"
    <3>1. Gain(ev, q) = 0 /\ Value(t, q) = Value(s, q)
      BY <1>8, <2>2, <2>3 DEF Gain, Value
    <3> QED
      BY <1>5, <3>1
  <2>4. CASE q[2] # "balance"
    <3>1. Gain(ev, q) = Unit(Enters(ev) = q[2]) - Unit(Leaves(ev) = q[2])
      BY <1>8, <2>4 DEF Gain
    <3>2. Value(t, q) = Unit(Enters(ev) = q[2]) /\ Value(s, q) = Unit(Leaves(ev) = q[2])
      BY <2>1, <2>2, <2>4 DEF Value
    <3> DEFINE x == Unit(Enters(ev) = q[2])
               y == Unit(Leaves(ev) = q[2])
    <3>3. x \in Int /\ y \in Int
      BY DEF Unit
    <3>4. Gain(ev, q) = x - y /\ Value(t, q) = x /\ Value(s, q) = y
      BY <3>1, <3>2
    <3> HIDE DEF t, x, y
    <3>5. Value(t, q) = Value(s, q) + Gain(ev, q)
      BY <3>3, <3>4
    <3> QED
      BY <1>5, <3>5 DEF t
  <2> QED
    BY <2>3, <2>4
<1>9. CASE ev.type \in {"skip", "memory"}
  <2>1. t = s
    BY <1>9 DEF After
  <2>2. Gain(ev, q) = 0
    BY <1>9 DEF Gain
  <2>3. Value(t, q) = Value(s, q)
    BY <2>1, Zenon
  <2> HIDE DEF t
  <2>4. Value(t, q) = Value(s, q) + Gain(ev, q)
    BY <1>5, <2>2, <2>3
  <2> QED
    BY <1>5, <2>4 DEF t
<1> QED
  BY <1>2, <1>5, <1>6, <1>7, <1>8, <1>9 DEF EventTypes

\* So does the sum over the events that were folded in.
LEMMA AfterMatches ==
    ASSUME NEW s \in Snapshots, NEW S, IsFiniteSet(S), Matches(s, S),
           NEW ev, ev \notin S, \A x \in S \union {ev} : SoundEvent(x),
           Accepts(s, ev)
    PROVE  Matches(After(s, ev), S \union {ev})
<1> SUFFICES ASSUME NEW q \in Measures
             PROVE  Value(After(s, ev), q)
                      = Value(InitialAgents, q) + Gained(S \union {ev}, q)
  BY DEF Matches
<1>1. Value(s, q) = Value(InitialAgents, q) + Gained(S, q)
  BY DEF Matches
<1>2. Value(s, q) \in Int /\ Value(After(s, ev), q) = Value(s, q) + Gain(ev, q)
  BY AfterMeasures
<1>3. Gained(S, q) \in Int /\ Gained(S \union {ev}, q) = Gained(S, q) + Gain(ev, q)
  BY GainedMore
<1>4. Gain(ev, q) \in Int
  BY GainType
<1>5. Value(InitialAgents, q) \in Int
  <2>1. q[1] \in Agents
    BY DEF Measures
  <2>2. InitialAgents[q[1]].balance \in Nat
    BY <2>1, SeedAssumption DEF InitialAgents
  <2> QED
    BY <2>2 DEF Value, Unit
<1>6. \A i, g, n \in Int : (i + g) + n = i + (g + n)
  OBVIOUS
<1> QED
  BY <1>1, <1>2, <1>3, <1>4, <1>5, <1>6

\* A set of events leads to one snapshot at most, in whatever order.
LEMMA OneSnapshot ==
    ASSUME NEW s \in Snapshots, NEW t \in Snapshots, NEW S,
           Matches(s, S), Matches(t, S)
    PROVE  s = t
<1>1. \A q \in Measures : Value(s, q) = Value(t, q)
  BY DEF Matches
<1>2. ASSUME NEW a \in Agents
      PROVE  s[a] = t[a]
  <2>1. s[a].balance = t[a].balance
    <3>1. <<a, "balance">> \in Measures
      BY DEF Measures
    <3> QED
      BY <1>1, <3>1 DEF Value
  <2>2. s[a].status = t[a].status
    <3> DEFINE v == s[a].status
    <3>1. v \in Statuses /\ v # "balance"
      BY DEF Snapshots, Statuses
    <3>2. <<a, v>> \in Measures
      BY <3>1 DEF Measures
    <3>3. Unit(s[a].status = v) = Unit(t[a].status = v)
      BY <1>1, <3>1, <3>2 DEF Value
    <3> QED
      BY <3>3 DEF Unit
  <2> QED
    BY <2>1, <2>2 DEF Snapshots
<1> QED
  BY <1>2 DEF Snapshots

-----------------------------------------------------------------------------
(***************************************************************************)
(* Building events                                                         *)
(***************************************************************************)
LEMMA InitInv == Init => IInv
<1> SUFFICES ASSUME Init PROVE IInv
  OBVIOUS
<1> USE DEF Init
<1>1. EventsSound
  <2>1. agents \in Snapshots
    BY SeedAssumption DEF InitialAgents, Snapshots, Statuses
  <2> QED
    BY <2>1, FS_EmptySet DEF EventsSound
<1>2. OccupationInv
  BY DEF OccupationInv, Occupied, Open, Awards
<1>3. Matches(agents, applied)
  <2> SUFFICES ASSUME NEW q \in Measures
               PROVE  Value(agents, q) = Value(InitialAgents, q) + Gained(applied, q)
    BY DEF Matches
  <2>1. Gained(applied, q) = 0
    BY GainedNothing
  <2>2. Value(InitialAgents, q) \in Int
    <3>1. q[1] \in Agents
      BY DEF Measures
    <3>2. InitialAgents[q[1]].balance \in Nat
      BY <3>1, SeedAssumption DEF InitialAgents
    <3> QED
      BY <3>2 DEF Value, Unit
  <2> QED
    BY <2>1, <2>2
<1> QED
  BY <1>1, <1>2, <1>3 DEF IInv

\* Building sound events keeps the invariant: nothing is folded in.
LEMMA BuildInv ==
    ASSUME IInv, NEW E, IsFiniteSet(E),
           \A ev \in E : SoundEvent(ev) /\ SoundCompletion(ev),
           Build(E)
    PROVE  IInv'
<1>1. built' = built \union E /\ agents' = agents /\ applied' = applied
  BY DEF Build
<1>2. EventsSound'
  <2>1. IsFiniteSet(built')
    BY <1>1, FS_Union DEF IInv, EventsSound
  <2>2. \A ev \in built' : SoundEvent(ev) /\ SoundCompletion(ev)'
    BY <1>1 DEF IInv, EventsSound, SoundCompletion, Awards
  <2>3. \A ev \in built' : SoundEvent(ev)'
    BY <2>2 DEF SoundEvent, SoundStatus, SoundTransaction
  <2> QED
    BY <1>1, <2>1, <2>2, <2>3 DEF IInv, EventsSound, Snapshots
<1>3. OccupationInv'
  BY <1>1 DEF IInv, OccupationInv, Occupied, RestedAtWork, CompletedTwice,
              Open, Awards, Completions
<1>4. Matches(agents, applied)'
  BY <1>1 DEF IInv, Matches, Gained, Value
<1> QED
  BY <1>2, <1>3, <1>4 DEF IInv

LEMMA NextNumberType ==
    ASSUME IInv
    PROVE  NextNumber \in Nat \ {0}
<1> DEFINE f == [ev \in built |-> ev.seq]
           N == Numbers(built) \union {0}
<1>1. IsFiniteSet({f[ev] : ev \in built})
  BY ImageFinite DEF IInv, EventsSound
<1>2. {f[ev] : ev \in built} = Numbers(built)
  BY DEF Numbers
<1>3. IsFiniteSet(N)
  BY <1>1, <1>2, FS_AddElement
<1>4. N \in SUBSET Nat
  BY DEF IInv, EventsSound, SoundEvent, Numbers
<1>5. N # {} /\ 0 \in N /\ N \in SUBSET Int
  BY <1>4
<1> HIDE DEF N
<1>6. Max(N) \in N
  BY <1>3, <1>5, MaxOfNumbers
<1> QED
  BY <1>4, <1>6 DEF NextNumber, N

\* A transaction is sound: what a penalty takes is there.
LEMMA DeltaFacts ==
    ASSUME NEW rule, IsRule(rule), NEW balance \in Nat
    PROVE  /\ Delta(rule, balance) \in Int
           /\ balance + Delta(rule, balance) \in Nat
<1>1. rule.amount \in Nat
  BY DEF IsRule
<1>2. CASE rule.kind = "reward"
  BY <1>1, <1>2 DEF Delta
<1>3. CASE rule.kind # "reward"
  <2> DEFINE S == {rule.amount, balance}
  <2>1. \E x \in S : \A y \in S : x =< y
    BY <1>1
  <2>2. Min(S) \in S /\ \A y \in S : Min(S) =< y
    BY <2>1 DEF Min
  <2>3. Min(S) \in Nat /\ Min(S) <= balance
    BY <1>1, <2>2
  <2>4. Delta(rule, balance) = -Min(S)
    BY <1>3 DEF Delta
  <2> HIDE DEF S
  <2> QED
    BY <2>3, <2>4
<1> QED
  BY <1>2, <1>3

LEMMA EconomyEventSound ==
    ASSUME IInv, NEW n \in Nat \ {0}, NEW a \in Agents, NEW rule, IsRule(rule)
    PROVE  LET ev == EconomyEvent(n, a, rule, Delta(rule, agents[a].balance),
                                  agents[a].balance)
           IN SoundEvent(ev) /\ SoundCompletion(ev)
<1> DEFINE b == agents[a].balance
           d == Delta(rule, b)
           ev == EconomyEvent(n, a, rule, d, b)
<1>1. b \in Nat
  BY DEF IInv, EventsSound, Snapshots
<1>2. d \in Int /\ b + d \in Nat
  BY <1>1, DeltaFacts
<1>3. /\ ev.type = "economy" /\ ev.seq = n /\ ev.agent = a /\ ev.before = b
      /\ ev.after = b + d /\ ev.delta = d
  BY DEF EconomyEvent
<1> HIDE DEF ev, d, b
<1>4. SoundTransaction(ev)
  BY <1>1, <1>2, <1>3 DEF SoundTransaction
<1>5. SoundEvent(ev)
  BY <1>3, <1>4 DEF SoundEvent, EventTypes
<1>6. SoundCompletion(ev)
  BY <1>3 DEF SoundCompletion
<1> QED
  BY <1>5, <1>6 DEF ev, d, b

LEMMA MakeEconomyEventInv ==
    ASSUME IInv, NEW n \in Nat \ {0}, NEW rule \in Rules, NEW a \in rule.agents,
           MakeEconomyEvent(n, a, rule)
    PROVE  IInv'
<1> DEFINE ev == EconomyEvent(n, a, rule, Delta(rule, agents[a].balance),
                              agents[a].balance)
<1>1. IsRule(rule) /\ a \in Agents
  BY RulesAssumption DEF IsRule
<1>2. SoundEvent(ev) /\ SoundCompletion(ev)
  BY <1>1, EconomyEventSound
<1>3. Build({ev})
  BY DEF MakeEconomyEvent
<1> HIDE DEF ev
<1>4. IsFiniteSet({ev})
  BY FS_Singleton
<1> QED
  BY <1>2, <1>3, <1>4, BuildInv

LEMMA EscapedRegressionInv ==
    ASSUME IInv, NEW n \in Nat \ {0}, NEW e \in Escape.engineer.agents,
           EscapedRegressionEvents(n, e)
    PROVE  IInv'
<1> DEFINE x == EconomyEvent(n, e, Escape.engineer,
                    Delta(Escape.engineer, agents[e].balance), agents[e].balance)
           y == EconomyEvent(n + 1, Reviewer, Escape.reviewer,
                    Delta(Escape.reviewer, agents[Reviewer].balance),
                    agents[Reviewer].balance)
<1>1. /\ IsRule(Escape.engineer) /\ IsRule(Escape.reviewer)
      /\ e \in Agents /\ Reviewer \in Agents /\ n + 1 \in Nat \ {0}
  BY RulesAssumption, SeedAssumption, RosterFacts
<1>2. SoundEvent(x) /\ SoundCompletion(x)
  BY <1>1, EconomyEventSound
<1>3. SoundEvent(y) /\ SoundCompletion(y)
  BY <1>1, EconomyEventSound
<1>4. Build({x, y})
  BY DEF EscapedRegressionEvents
<1> HIDE DEF x, y
<1>5. IsFiniteSet({x, y})
  <2>1. IsFiniteSet({x} \union {y})
    BY FS_Singleton, FS_Union
  <2>2. {x, y} = {x} \union {y}
    OBVIOUS
  <2> QED
    BY <2>1, <2>2
<1> QED
  BY <1>2, <1>3, <1>4, <1>5, BuildInv

LEMMA MemoryUpdateInv ==
    ASSUME IInv, NEW n \in Nat \ {0}, NEW a \in Learners, MemoryUpdateEvent(n, a)
    PROVE  IInv'
<1> DEFINE ev == MemoryEvent(n, a)
<1>1. SoundEvent(ev) /\ SoundCompletion(ev)
  BY SeedAssumption DEF MemoryEvent, SoundEvent, SoundCompletion, EventTypes
<1>2. Build({ev})
  BY DEF MemoryUpdateEvent
<1> HIDE DEF ev
<1>3. IsFiniteSet({ev})
  BY FS_Singleton
<1> QED
  BY <1>1, <1>2, <1>3, BuildInv

LEMMA TaskCompletedInv ==
    ASSUME IInv, NEW n \in Nat \ {0}, NEW e \in Engineers, NEW task \in Tasks,
           task.id \in Open(e), TaskCompletedEvent(n, e, task)
    PROVE  IInv'
<1> DEFINE after == IF agents[e].balance = 0 THEN "dormant" ELSE "available"
           ev == StatusEvent(n, e, task.id, agents[e].status, after)
<1>1. /\ ev.type = "status" /\ ev.seq = n /\ ev.agent = e /\ ev.task = task.id
      /\ ev.before = agents[e].status /\ ev.after = after
  BY DEF StatusEvent
<1>2. agents[e].status \in Statuses /\ after \in Statuses /\ e \in Agents
  BY RosterFacts DEF IInv, EventsSound, Snapshots, Statuses
<1>3. Build({ev})
  BY DEF TaskCompletedEvent
<1>4. task.id # NoTask
  BY AuctionAssumption
<1> HIDE DEF ev
<1>5. SoundEvent(ev)
  BY <1>1, <1>2, <1>4 DEF SoundEvent, SoundStatus, EventTypes
<1>6. SoundCompletion(ev)
  BY <1>1 DEF SoundCompletion, Open
<1>7. IsFiniteSet({ev})
  BY FS_Singleton
<1> QED
  BY <1>3, <1>5, <1>6, <1>7, BuildInv

LEMMA AuctionAwardedInv ==
    ASSUME IInv, NEW n \in Nat \ {0}, NEW task \in Tasks,
           AuctionAwardedEvent(n, task)
    PROVE  IInv'
<1>1. PICK bids \in Books : \E w \in Winners(task, bids, agents, Evidence) :
         Build({AwardEvent(n, w.engineer, task.id)})
  BY DEF AuctionAwardedEvent
<1>2. PICK w \in Winners(task, bids, agents, Evidence) :
         Build({AwardEvent(n, w.engineer, task.id)})
  BY <1>1
<1> DEFINE ev == AwardEvent(n, w.engineer, task.id)
<1>3. w \in ToSet(bids) /\ Complete(bids)
  BY DEF Winners, EligibleBids
<1>4. w.engineer \in Agents
  BY <1>3, RosterFacts DEF Complete, ToSet
<1>5. SoundEvent(ev) /\ SoundCompletion(ev)
  BY <1>4 DEF AwardEvent, SoundEvent, SoundCompletion, EventTypes
<1>6. Build({ev})
  BY <1>2
<1> HIDE DEF ev
<1>7. IsFiniteSet({ev})
  BY FS_Singleton
<1> QED
  BY <1>5, <1>6, <1>7, BuildInv

\* What a cycle says of one agent: at most two events, and sound ones.
LEMMA CycleOfFacts ==
    ASSUME IInv, NEW a \in Agents
    PROVE  /\ IsFiniteSet(CycleOf(a))
           /\ \A ev \in CycleOf(a), k \in Nat \ {0} :
                /\ SoundEvent([ev EXCEPT !.seq = k])
                /\ SoundCompletion([ev EXCEPT !.seq = k])
<1> DEFINE before == agents[a].status
           rest == StatusEvent(0, a, NoTask, before, "dormant")
           skip == SkipEvent(0, a)
           wake == StatusEvent(0, a, NoTask, "dormant", "available")
<1>1. before \in Statuses
  BY DEF IInv, EventsSound, Snapshots
<1>2. CycleOf(a) \subseteq {rest, skip, wake}
  BY DEF CycleOf
<1>3. ASSUME rest \in CycleOf(a)
      PROVE  before # "dormant"
  BY <1>3, SMT DEF CycleOf, StatusEvent, SkipEvent
<1>4. ASSUME NEW k \in Nat \ {0}, NEW ev \in CycleOf(a)
      PROVE  /\ SoundEvent([ev EXCEPT !.seq = k])
             /\ SoundCompletion([ev EXCEPT !.seq = k])
  <2>1. CASE ev = skip
    <3>1. [ev EXCEPT !.seq = k] = SkipEvent(k, a)
      BY <2>1 DEF SkipEvent
    <3>2. SoundEvent(SkipEvent(k, a)) /\ SoundCompletion(SkipEvent(k, a))
      BY DEF SkipEvent, SoundEvent, SoundCompletion, EventTypes
    <3> QED
      BY <3>1, <3>2
  <2>2. ASSUME NEW from \in Statuses, NEW to \in Statuses,
               to = (IF from = "dormant" THEN "available" ELSE "dormant"),
               ev = StatusEvent(0, a, NoTask, from, to)
        PROVE  /\ SoundEvent([ev EXCEPT !.seq = k])
               /\ SoundCompletion([ev EXCEPT !.seq = k])
    <3> DEFINE x == StatusEvent(k, a, NoTask, from, to)
    <3>1. [ev EXCEPT !.seq = k] = x
      BY <2>2 DEF StatusEvent
    <3>2. /\ x.type = "status" /\ x.seq = k /\ x.agent = a /\ x.task = NoTask
          /\ x.before = from /\ x.after = to
      BY DEF StatusEvent
    <3> HIDE DEF x
    <3>3. SoundEvent(x) /\ SoundCompletion(x)
      BY <2>2, <3>2 DEF SoundEvent, SoundStatus, SoundCompletion, EventTypes
    <3> QED
      BY <3>1, <3>3
  <2>3. CASE ev = rest
    <3>1. before # "dormant"
      BY <1>3, <2>3
    <3>2. "dormant" \in Statuses
      BY DEF Statuses
    <3> QED
      BY <1>1, <2>2, <2>3, <3>1, <3>2
  <2>4. CASE ev = wake
    <3>1. "dormant" \in Statuses /\ "available" \in Statuses
      BY DEF Statuses
    <3> QED
      BY <2>2, <2>4, <3>1
  <2> QED
    BY <1>2, <2>1, <2>3, <2>4
<1>5. IsFiniteSet({rest, skip, wake})
  <2>1. {rest, skip, wake} = ({rest} \union {skip}) \union {wake}
    OBVIOUS
  <2> HIDE DEF rest, skip, wake
  <2>2. IsFiniteSet(({rest} \union {skip}) \union {wake})
    BY FS_Singleton, FS_AddElement
  <2> QED
    BY <2>1, <2>2
<1>6. IsFiniteSet(CycleOf(a))
  BY <1>2, <1>5, FS_Subset
<1> QED
  BY <1>4, <1>6

LEMMA CycleInv ==
    ASSUME IInv, NEW n \in Nat \ {0}, CycleEvents(n)
    PROVE  IInv'
<1> DEFINE f == [a \in Agents |-> CycleOf(a)]
           cycle == UNION {CycleOf(a) : a \in Agents}
           Number(ev) == n + Cardinality({x \in cycle : Earlier(x, ev)})
           g == [ev \in cycle |-> [ev EXCEPT !.seq = Number(ev)]]
           E == {g[ev] : ev \in cycle}
<1>1. IsFiniteSet({f[a] : a \in Agents})
  <2>1. DOMAIN f = Agents /\ f = [a \in Agents |-> f[a]] /\ IsFiniteSet(Agents)
    BY RosterFacts
  <2> HIDE DEF f
  <2> QED
    BY <2>1, ImageFinite
<1>2. IsFiniteSet(cycle)
  <2>1. \A T \in {f[a] : a \in Agents} : IsFiniteSet(T)
    BY CycleOfFacts
  <2>2. cycle = UNION {f[a] : a \in Agents}
    OBVIOUS
  <2> QED
    BY <1>1, <2>1, <2>2, FS_UNION
<1>3. Build(E)
  BY DEF CycleEvents
<1>4. \A ev \in cycle : \E a \in Agents : ev \in CycleOf(a)
  OBVIOUS
<1>5. ASSUME NEW ev \in cycle
      PROVE  Number(ev) \in Nat \ {0} /\ g[ev] = [ev EXCEPT !.seq = Number(ev)]
  <2> DEFINE S == {x \in cycle : Earlier(x, ev)}
  <2>1. S \subseteq cycle
    OBVIOUS
  <2> HIDE DEF S, cycle
  <2>2. Cardinality(S) \in Nat
    BY <1>2, <2>1, FS_Subset, FS_CardinalityType
  <2>3. n + Cardinality(S) \in Nat \ {0}
    BY <2>2
  <2> QED
    BY <2>3 DEF S
<1>6. IsFiniteSet(E)
  <2>1. DOMAIN g = cycle /\ g = [ev \in cycle |-> g[ev]]
    OBVIOUS
  <2> HIDE DEF cycle, g
  <2> QED
    BY <1>2, <2>1, ImageFinite
<1> HIDE DEF cycle, Number, g
<1>7. ASSUME NEW ev \in cycle
      PROVE  SoundEvent(g[ev]) /\ SoundCompletion(g[ev])
  <2>1. PICK a \in Agents : ev \in CycleOf(a)
    BY <1>4
  <2>2. Number(ev) \in Nat \ {0} /\ g[ev] = [ev EXCEPT !.seq = Number(ev)]
    BY <1>5
  <2>3. /\ SoundEvent([ev EXCEPT !.seq = Number(ev)])
        /\ SoundCompletion([ev EXCEPT !.seq = Number(ev)])
    BY <2>1, <2>2, CycleOfFacts
  <2> QED
    BY <2>2, <2>3
<1>8. \A ev \in E : SoundEvent(ev) /\ SoundCompletion(ev)
  BY <1>7
<1> HIDE DEF E
<1> QED
  BY <1>3, <1>6, <1>8, BuildInv

-----------------------------------------------------------------------------
(***************************************************************************)
(* Folding in                                                              *)
(***************************************************************************)
\* What folding in an event does to who is at what.
LEMMA AppliedMore ==
    ASSUME IInv, NEW ev \in built, ApplyCompanyEvent(ev), NEW e \in Engineers
    PROVE  /\ Awards(e)' = Awards(e) \union
                 {x \in {ev} : x.type = "award" /\ x.agent = e}
           /\ Completions(e)' = Completions(e) \union
                 {x \in {ev} : x.type = "status" /\ x.agent = e /\ x.task # NoTask}
           /\ RestedAtWork(e) => RestedAtWork(e)'
           /\ CompletedTwice(e) => CompletedTwice(e)'
<1>1. applied' = applied \union {ev}
  BY DEF ApplyCompanyEvent
<1> QED
  BY <1>1 DEF Awards, Completions, RestedAtWork, CompletedTwice

LEMMA ApplyOccupied ==
    ASSUME IInv, NEW ev \in built, ApplyCompanyEvent(ev), NEW e \in Engineers
    PROVE  Occupied(e)'
<1>1. /\ ev \notin applied /\ Accepts(agents, ev) /\ agents' = After(agents, ev)
      /\ applied' = applied \union {ev}
  BY DEF ApplyCompanyEvent
<1>2. agents \in Snapshots /\ SoundEvent(ev) /\ SoundCompletion(ev) /\ e \in Agents
  BY RosterFacts DEF IInv, EventsSound
<1>3. Occupied(e)
  BY DEF IInv, OccupationInv
<1> DEFINE A == {x \in {ev} : x.type = "award" /\ x.agent = e}
           C == {x \in {ev} : x.type = "status" /\ x.agent = e /\ x.task # NoTask}
<1>4. Awards(e)' = Awards(e) \union A /\ Completions(e)' = Completions(e) \union C
  BY AppliedMore
<1>5. /\ ev.agent = e /\ ev.type = "award" => A = {ev} /\ C = {}
      /\ ev.agent = e /\ ev.type = "status" => A = {}
      /\ ev.agent = e /\ ev.type = "status" /\ ev.task # NoTask => C = {ev}
      /\ ev.agent # e \/ ev.type \notin {"award", "status"} => A = {} /\ C = {}
  OBVIOUS
<1> HIDE DEF A, C
<1>6. CASE RestedAtWork(e) \/ CompletedTwice(e)
  BY <1>6, AppliedMore DEF Occupied
<1>7. CASE ~RestedAtWork(e) /\ ~CompletedTwice(e)
  <2>1. \/ agents[e].status = "working" /\ \A x, y \in Open(e) : x = y
        \/ Open(e) = {}
    BY <1>3, <1>7 DEF Occupied
  <2>2. CASE ev.agent # e \/ ev.type \notin {"award", "status"}
    <3>1. Awards(e)' = Awards(e) /\ Completions(e)' = Completions(e)
      BY <1>4, <1>5, <2>2
    <3>2. Open(e)' = Open(e)
      BY <3>1 DEF Open
    <3>3. agents'[e].status = agents[e].status
      BY <1>1, <1>2, <2>2 DEF After, Snapshots, SoundEvent
    <3> QED
      BY <2>1, <3>2, <3>3 DEF Occupied
  <2>3. CASE ev.agent = e /\ ev.type = "award"
    <3>1. agents[e].status = "available" /\ agents'[e].status = "working"
      BY <1>1, <1>2, <2>3 DEF Accepts, AcceptsAward, After, Snapshots
    <3>2. Open(e) = {}
      BY <2>1, <3>1
    <3>3. Awards(e)' = Awards(e) \union {ev} /\ Completions(e)' = Completions(e)
      BY <1>4, <1>5, <2>3
    <3>4. Open(e)' \subseteq {ev.task}
      BY <3>2, <3>3 DEF Open
    <3> QED
      BY <3>1, <3>4 DEF Occupied
  <2>4. CASE ev.agent = e /\ ev.type = "status"
    <3>1. agents[e].status = ev.before
      BY <1>1, <2>4 DEF Accepts, AcceptsStatus
    <3>2. Awards(e)' = Awards(e)
      BY <1>4, <1>5, <2>4
    <3>3. CASE ev.before # "working"
      <4>1. Open(e) = {}
        BY <2>1, <3>1, <3>3
      <4>2. Completions(e) \subseteq Completions(e)'
        BY AppliedMore
      <4>3. Open(e)' = {}
        BY <3>2, <4>1, <4>2 DEF Open
      <4> QED
        BY <4>3 DEF Occupied
    <3>4. CASE ev.before = "working" /\ ev.task = NoTask
      <4>1. ev.after = "dormant"
        BY <1>2, <2>4, <3>4 DEF SoundEvent, SoundStatus
      <4>2. RestedAtWork(e)'
        BY <1>1, <2>4, <3>4, <4>1 DEF RestedAtWork
      <4> QED
        BY <4>2 DEF Occupied
    <3>5. CASE ev.before = "working" /\ ev.task # NoTask
      <4>1. Completions(e)' = Completions(e) \union {ev}
        BY <1>4, <1>5, <2>4, <3>5
      <4>2. ev.task \in {x.task : x \in Awards(e)}
        BY <1>2, <2>4, <3>5 DEF SoundCompletion
      <4>3. CASE ev.task \in Open(e)
        <5>1. Open(e) \subseteq {ev.task}
          BY <2>1, <4>3
        <5>2. Open(e)' = {}
          BY <3>2, <4>1, <5>1 DEF Open
        <5> QED
          BY <5>2 DEF Occupied
      <4>4. CASE ev.task \notin Open(e)
        <5>1. PICK y \in Completions(e) : y.task = ev.task
          BY <4>2, <4>4 DEF Open
        <5>2. y # ev
          BY <1>1, <5>1 DEF Completions
        <5>3. CompletedTwice(e)'
          BY <4>1, <5>1, <5>2 DEF CompletedTwice
        <5> QED
          BY <5>3 DEF Occupied
      <4> QED
        BY <4>3, <4>4
    <3> QED
      BY <3>3, <3>4, <3>5
  <2> QED
    BY <2>2, <2>3, <2>4
<1> QED
  BY <1>6, <1>7

LEMMA ApplyInv ==
    ASSUME IInv, NEW ev \in built, ApplyCompanyEvent(ev)
    PROVE  IInv'
<1>1. /\ ev \notin applied /\ Accepts(agents, ev) /\ agents' = After(agents, ev)
      /\ applied' = applied \union {ev} /\ built' = built
  BY DEF ApplyCompanyEvent
<1>2. /\ IsFiniteSet(built) /\ applied \subseteq built /\ agents \in Snapshots
      /\ \A x \in built : SoundEvent(x) /\ SoundCompletion(x)
  BY DEF IInv, EventsSound
<1>3. EventsSound'
  <2>1. agents' \in Snapshots
    BY <1>1, <1>2, AfterSnapshot
  <2>2. \A x \in built' : SoundEvent(x)'
    BY <1>1, <1>2 DEF SoundEvent, SoundStatus, SoundTransaction
  <2>3. \A x \in built' : SoundCompletion(x)'
    <3>1. \A a : Awards(a) \subseteq Awards(a)'
      BY <1>1 DEF Awards
    <3> QED
      BY <1>1, <1>2, <3>1 DEF SoundCompletion
  <2> QED
    BY <1>1, <1>2, <2>1, <2>2, <2>3 DEF EventsSound, Snapshots
<1>4. OccupationInv'
  BY ApplyOccupied DEF OccupationInv
<1>5. Matches(agents, applied)'
  <2>1. IsFiniteSet(applied)
    BY <1>2, FS_Subset
  <2>2. \A x \in applied \union {ev} : SoundEvent(x)
    BY <1>2
  <2>3. Matches(agents, applied)
    BY DEF IInv
  <2>4. Matches(After(agents, ev), applied \union {ev})
    BY <1>1, <1>2, <2>1, <2>2, <2>3, AfterMatches
  <2> QED
    BY <1>1, <2>4 DEF Matches, Value, Gained
<1> QED
  BY <1>3, <1>4, <1>5 DEF IInv

LEMMA NextInv == IInv /\ [Next]_vars => IInv'
<1> SUFFICES ASSUME IInv, [Next]_vars PROVE IInv'
  OBVIOUS
<1> DEFINE n == NextNumber
<1>1. n \in Nat \ {0}
  BY NextNumberType
<1> HIDE DEF n
<1>2. ASSUME NEW rule \in Rules, NEW a \in rule.agents, MakeEconomyEvent(n, a, rule)
      PROVE  IInv'
  BY <1>1, <1>2, MakeEconomyEventInv
<1>3. ASSUME NEW e \in Escape.engineer.agents, EscapedRegressionEvents(n, e)
      PROVE  IInv'
  BY <1>1, <1>3, EscapedRegressionInv
<1>4. ASSUME NEW a \in Learners, MemoryUpdateEvent(n, a)
      PROVE  IInv'
  BY <1>1, <1>4, MemoryUpdateInv
<1>5. ASSUME CycleEvents(n)
      PROVE  IInv'
  BY <1>1, <1>5, CycleInv
<1>6. ASSUME NEW e \in Engineers, NEW task \in Tasks, task.id \in Open(e),
             TaskCompletedEvent(n, e, task)
      PROVE  IInv'
  BY <1>1, <1>6, TaskCompletedInv
<1>7. ASSUME NEW task \in Tasks, AuctionAwardedEvent(n, task)
      PROVE  IInv'
  BY <1>1, <1>7, AuctionAwardedInv
<1>8. ASSUME NEW ev \in built, ApplyCompanyEvent(ev)
      PROVE  IInv'
  BY <1>8, ApplyInv
<1>9. CASE UNCHANGED vars
  <2>1. agents' = agents /\ built' = built /\ applied' = applied
    BY <1>9 DEF vars
  <2>2. EventsSound'
    BY <2>1 DEF IInv, EventsSound, SoundEvent, SoundStatus, SoundTransaction,
                SoundCompletion, Snapshots, Awards
  <2>3. OccupationInv'
    BY <2>1 DEF IInv, OccupationInv, Occupied, RestedAtWork, CompletedTwice,
                Open, Awards, Completions
  <2>4. Matches(agents, applied)'
    BY <2>1 DEF IInv, Matches, Gained, Value
  <2> QED
    BY <2>2, <2>3, <2>4 DEF IInv
<1>10. CASE Next
  BY <1>10, <1>2, <1>3, <1>4, <1>5, <1>6, <1>7, <1>8 DEF Next, n
<1> QED
  BY <1>9, <1>10

\* The invariant holds in every reachable state.
THEOREM Invariance == Spec => []IInv
BY InitInv, NextInv, PTL DEF Spec

-----------------------------------------------------------------------------
(***************************************************************************)
(* What it says                                                            *)
(***************************************************************************)
\* Every snapshot holds natural balances and known statuses, and every event
\* that was built records natural balances (apply_company_event's own checks
\* never have to refuse an event for a negative balance).
THEOREM TypeCorrect == Spec => []TypeOK
<1>1. IInv => TypeOK
  BY DEF IInv, EventsSound, Snapshots, SoundEvent, SoundTransaction, TypeOK
<1> QED
  BY <1>1, Invariance, PTL

\* An engineer that is free has finished what it was awarded, unless a cycle or
\* a completion at zero balance put it to rest at work, or a completion was
\* folded in twice.
THEOREM FreeEngineersFinished == Spec => []FreeMeansFinished
<1>1. IInv => FreeMeansFinished
  <2> SUFFICES ASSUME IInv, NEW e \in Engineers,
                      agents[e].status = "available", Open(e) # {}
               PROVE  RestedAtWork(e) \/ CompletedTwice(e)
    BY DEF FreeMeansFinished, RestedAtWork, CompletedTwice
  <2> QED
    BY DEF IInv, OccupationInv, Occupied
<1> QED
  BY <1>1, Invariance, PTL

-----------------------------------------------------------------------------
(***************************************************************************)
(* Replay                                                                  *)
(***************************************************************************)
Outcomes == Snapshots \union {Refused}

\* One step of the replay of a set of events: the latest one comes last.
ReplayOf(g, s) ==
    IF s = {} THEN InitialAgents ELSE ReplayStep(Latest(s), g[s \ {Latest(s)}])

LEMMA ReplayUnfolds ==
    ASSUME NEW S
    PROVE  MapThenFoldSet(ReplayStep, InitialAgents, LAMBDA ev : ev, Latest, S)
             = (CHOOSE g : g = [s \in SUBSET S |-> ReplayOf(g, s)])[S]
BY DEF MapThenFoldSet, ReplayOf

LEMMA LatestIn ==
    ASSUME NEW S, IsFiniteSet(S), S # {}, \A ev \in S : SoundEvent(ev)
    PROVE  Latest(S) \in S
<1> DEFINE f == [ev \in S |-> ev.seq]
<1>1. \A ev \in S : f[ev] = ev.seq /\ f[ev] \in Int
  BY DEF SoundEvent
<1> HIDE DEF f
<1>2. \E x \in S : \A y \in S : f[y] <= f[x]
  BY <1>1, GreatestExists
<1>3. \E x \in S : \A y \in S : y.seq <= x.seq
  BY <1>1, <1>2
<1> QED
  BY <1>3 DEF Latest

LEMMA ReplayStepType ==
    ASSUME NEW ev, SoundEvent(ev), NEW s \in Outcomes
    PROVE  ReplayStep(ev, s) \in Outcomes
<1>1. CASE s # Refused /\ Accepts(s, ev)
  <2>1. s \in Snapshots
    BY <1>1 DEF Outcomes
  <2>2. After(s, ev) \in Snapshots
    BY <1>1, <2>1, AfterSnapshot
  <2> QED
    BY <1>1, <2>2 DEF ReplayStep, Outcomes
<1>2. CASE ~(s # Refused /\ Accepts(s, ev))
  BY <1>2 DEF ReplayStep, Outcomes
<1> QED
  BY <1>1, <1>2

LEMMA InitialSnapshot == InitialAgents \in Snapshots
BY SeedAssumption DEF InitialAgents, Snapshots, Statuses

\* There is a function that replays every subset of a finite set of events.
LEMMA ReplayExists ==
    ASSUME NEW D, IsFiniteSet(D), \A ev \in D : SoundEvent(ev)
    PROVE  \E g \in [SUBSET D -> Outcomes] : \A s \in SUBSET D : g[s] = ReplayOf(g, s)
<1> DEFINE Upto(n) == {s \in SUBSET D : Cardinality(s) <= n}
           T == {n \in Nat : \E g \in [Upto(n) -> Outcomes] :
                                \A s \in Upto(n) : g[s] = ReplayOf(g, s)}
<1>1. \A s \in SUBSET D : IsFiniteSet(s) /\ Cardinality(s) \in Nat
  BY FS_Subset, FS_CardinalityType
<1>2. InitialAgents \in Outcomes
  BY InitialSnapshot DEF Outcomes
<1>3. 0 \in T
  <2> DEFINE g == [s \in Upto(0) |-> InitialAgents]
  <2>1. \A s \in Upto(0) : s = {}
    BY <1>1, FS_EmptySet
  <2>2. \A s \in Upto(0) : g[s] = ReplayOf(g, s)
    BY <2>1 DEF ReplayOf
  <2>3. g \in [Upto(0) -> Outcomes]
    BY <1>2
  <2> HIDE DEF g, Upto
  <2> QED
    BY <2>2, <2>3
<1>4. ASSUME NEW n \in T
      PROVE  n + 1 \in T
  <2>1. PICK g \in [Upto(n) -> Outcomes] : \A s \in Upto(n) : g[s] = ReplayOf(g, s)
    OBVIOUS
  <2> DEFINE h == [s \in Upto(n + 1) |->
                     IF Cardinality(s) <= n THEN g[s] ELSE ReplayOf(g, s)]
  <2>2. n \in Nat
    OBVIOUS
  <2>3. ASSUME NEW s \in Upto(n + 1), s # {}
        PROVE  /\ Latest(s) \in D /\ s \ {Latest(s)} \in Upto(n)
               /\ s \ {Latest(s)} \in Upto(n + 1)
               /\ g[s \ {Latest(s)}] \in Outcomes
               /\ h[s \ {Latest(s)}] = g[s \ {Latest(s)}]
    <3>1. s \in SUBSET D /\ Cardinality(s) <= n + 1 /\ \A ev \in s : SoundEvent(ev)
      OBVIOUS
    <3>2. Latest(s) \in s
      BY <1>1, <2>3, <3>1, LatestIn
    <3>3. Cardinality(s \ {Latest(s)}) = Cardinality(s) - 1 /\ Cardinality(s) \in Nat
      BY <1>1, <3>1, <3>2, FS_RemoveElement
    <3>4. s \ {Latest(s)} \in Upto(n) /\ s \ {Latest(s)} \in Upto(n + 1)
      BY <2>2, <3>1, <3>3
    <3>5. Cardinality(s \ {Latest(s)}) <= n
      BY <3>4
    <3> QED
      BY <2>1, <3>1, <3>2, <3>4, <3>5
  <2>4. \A s \in Upto(n + 1) : ReplayOf(g, s) \in Outcomes /\ ReplayOf(h, s) = ReplayOf(g, s)
    <3> HIDE DEF h, Upto
    <3> QED
      BY <1>2, <2>3, ReplayStepType DEF ReplayOf
  <2>5. \A s \in Upto(n + 1) : Cardinality(s) <= n => s \in Upto(n)
    OBVIOUS
  <2>6. h \in [Upto(n + 1) -> Outcomes]
    BY <2>1, <2>4, <2>5
  <2>7. \A s \in Upto(n + 1) : h[s] = ReplayOf(h, s)
    BY <2>1, <2>4, <2>5
  <2>8. n + 1 \in Nat
    BY <2>2
  <2> QED
    BY <2>6, <2>7, <2>8
<1>5. T = Nat
  <2> HIDE DEF T
  <2> QED
    BY <1>3, <1>4, NatSets DEF T
<1>6. Cardinality(D) \in T
  BY <1>1, <1>5
<1>7. Upto(Cardinality(D)) = SUBSET D
  BY <1>1, FS_Subset
<1>8. PICK g \in [SUBSET D -> Outcomes] : \A s \in SUBSET D : g[s] = ReplayOf(g, s)
  BY <1>6, <1>7
<1> QED
  BY <1>8

\* A replay is refused, or its result matches the events that were replayed.
LEMMA ReplayMatches ==
    ASSUME NEW D, IsFiniteSet(D), \A ev \in D : SoundEvent(ev)
    PROVE  \/ Reconstruct(D) = Refused
           \/ Reconstruct(D) \in Snapshots /\ Matches(Reconstruct(D), D)
<1> DEFINE g == CHOOSE h : h = [s \in SUBSET D |-> ReplayOf(h, s)]
<1>1. \E h : h = [s \in SUBSET D |-> ReplayOf(h, s)]
  <2>1. PICK h \in [SUBSET D -> Outcomes] : \A s \in SUBSET D : h[s] = ReplayOf(h, s)
    BY ReplayExists
  <2>2. h = [s \in SUBSET D |-> ReplayOf(h, s)]
    BY <2>1
  <2> QED
    BY <2>2
<1>2. g = [s \in SUBSET D |-> ReplayOf(g, s)]
  BY <1>1
<1>3. Reconstruct(D) \in {Refused, g[D]}
  BY ReplayUnfolds DEF Reconstruct
<1> HIDE DEF g
<1>4. \A s \in SUBSET D : g[s] = ReplayOf(g, s)
  BY <1>2
<1> DEFINE F == {s \in SUBSET D : \/ g[s] = Refused
                                  \/ g[s] \in Snapshots /\ Matches(g[s], s)}
<1>5. ASSUME NEW s \in SUBSET D, \A x \in s : s \ {x} \in F
      PROVE  s \in F
  <2>1. CASE s = {}
    <3>1. g[s] = InitialAgents
      BY <1>4, <2>1 DEF ReplayOf
    <3>2. Matches(InitialAgents, {})
      <4> SUFFICES ASSUME NEW q \in Measures
                   PROVE  Value(InitialAgents, q)
                            = Value(InitialAgents, q) + Gained({}, q)
        BY DEF Matches
      <4>1. q[1] \in Agents
        BY DEF Measures
      <4>2. InitialAgents[q[1]].balance \in Nat
        BY <4>1, InitialSnapshot DEF Snapshots
      <4>3. Value(InitialAgents, q) \in Int
        BY <4>2 DEF Value, Unit
      <4>4. Gained({}, q) = 0
        BY GainedNothing
      <4> QED
        BY <4>3, <4>4
    <3> QED
      BY <2>1, <3>1, <3>2, InitialSnapshot
  <2>2. CASE s # {}
    <3> DEFINE ev == Latest(s)
               rest == s \ {ev}
    <3>1. IsFiniteSet(s) /\ IsFiniteSet(rest)
      BY FS_Subset
    <3>2. ev \in s /\ SoundEvent(ev)
      BY <2>2, <3>1, LatestIn
    <3>3. rest \in F
      BY <1>5, <3>2
    <3>4. g[s] = ReplayStep(ev, g[rest])
      BY <1>4, <2>2 DEF ReplayOf
    <3>5. ev \notin rest /\ rest \union {ev} = s
      BY <3>2
    <3> HIDE DEF ev, rest
    <3>6. CASE g[rest] # Refused /\ Accepts(g[rest], ev)
      <4>1. g[rest] \in Snapshots /\ Matches(g[rest], rest)
        BY <3>3, <3>6
      <4>2. g[s] = After(g[rest], ev)
        BY <3>4, <3>6 DEF ReplayStep
      <4>3. After(g[rest], ev) \in Snapshots
        BY <3>2, <3>6, <4>1, AfterSnapshot
      <4>4. \A x \in rest \union {ev} : SoundEvent(x)
        BY <3>5
      <4>5. Matches(After(g[rest], ev), rest \union {ev})
        BY <3>1, <3>5, <3>6, <4>1, <4>4, AfterMatches
      <4> QED
        BY <3>5, <4>2, <4>3, <4>5
    <3>7. CASE ~(g[rest] # Refused /\ Accepts(g[rest], ev))
      BY <3>4, <3>7 DEF ReplayStep
    <3> QED
      BY <3>6, <3>7
  <2> QED
    BY <2>1, <2>2
<1>6. F = SUBSET D
  <2>1. F \in SUBSET SUBSET D
    OBVIOUS
  <2>2. \A s \in SUBSET D : (\A x \in s : s \ {x} \in F) => s \in F
    BY <1>5
  <2> HIDE DEF F
  <2> QED
    BY <2>1, <2>2, SubsetFamily
<1>7. D \in F
  BY <1>6
<1> QED
  BY <1>3, <1>7

\* The snapshot that reconstruct_company builds from the events that were folded
\* in is the snapshot itself, or the replay is refused, for any order in which
\* callers folded their events in.
THEOREM ReplaysAgree == Spec => []ReplayAgrees
<1>1. IInv => ReplayAgrees
  <2> SUFFICES ASSUME IInv, Reconstruct(applied) # Refused
               PROVE  Reconstruct(applied) = agents
    BY DEF ReplayAgrees
  <2>1. IsFiniteSet(applied)
    BY FS_Subset DEF IInv, EventsSound
  <2>2. agents \in Snapshots /\ Matches(agents, applied)
        /\ \A ev \in applied : SoundEvent(ev)
    BY DEF IInv, EventsSound
  <2>3. Reconstruct(applied) \in Snapshots /\ Matches(Reconstruct(applied), applied)
    BY <2>1, <2>2, ReplayMatches
  <2> QED
    BY <2>2, <2>3, OneSnapshot
<1> QED
  BY <1>1, Invariance, PTL

-----------------------------------------------------------------------------
(***************************************************************************)
(* The auction                                                             *)
(***************************************************************************)
\* What AwardIsBest says of a bid.
Backing(bid) == Mean(ScoresAt(bid, DOMAIN bid.refs, Evidence))

Fits(task, bid) ==
    /\ bid.task = task.id /\ bid.amount <= task.budget
    /\ agents[bid.engineer].status = "available"
    /\ agents[bid.engineer].balance > 0
    /\ task.needs \ Capabilities[bid.engineer] = {}
    /\ \A i \in DOMAIN bid.refs :
          /\ bid.refs[i] \in DOMAIN Evidence
          /\ Evidence[bid.refs[i]].agent = bid.engineer
    /\ task.floor <= bid.credibility
    /\ bid.credibility <= Backing(bid)

\* A bid that comes in.
LEMMA BidFacts ==
    ASSUME NEW bids \in Books, NEW bid \in ToSet(bids)
    PROVE  /\ bid.amount \in Nat /\ bid.credibility \in Nat
           /\ Len(bid.refs) \in Nat \ {0} /\ DOMAIN bid.refs = 1..Len(bid.refs)
<1>1. /\ {bid.amount, bid.credibility} \subseteq Nat
      /\ bid.refs \in Seq(ToSet(bid.refs)) \ {<<>>}
  BY AuctionAssumption
<1> DEFINE r == bid.refs
           S == ToSet(bid.refs)
<1>2. r \in Seq(S) /\ r # <<>>
  BY <1>1
<1> HIDE DEF r, S
<1>3. Len(r) \in Nat \ {0} /\ DOMAIN r = 1..Len(r)
  BY <1>2
<1> QED
  BY <1>1, <1>3 DEF r

\* A bid whose references are all its own is assessed over all of them.
LEMMA OwnBid ==
    ASSUME NEW bids \in Books, NEW bid \in ToSet(bids),
           \A i \in DOMAIN bid.refs : Own(bid, bid.refs[i], Evidence)
    PROVE  EvidenceScore(bid, Evidence) = Backing(bid) /\ Backing(bid) \in Nat
<1>1. Supporting(bid, Evidence) = DOMAIN bid.refs
  BY DEF Supporting
<1>2. DOMAIN bid.refs # {}
  <2>1. Len(bid.refs) \in Nat \ {0} /\ DOMAIN bid.refs = 1..Len(bid.refs)
    BY BidFacts, Zenon
  <2>2. 1 \in 1..Len(bid.refs)
    BY <2>1
  <2> QED
    BY <2>1, <2>2, Zenon
<1>3. EvidenceScore(bid, Evidence) = Backing(bid)
  BY <1>1, <1>2, Zenon DEF EvidenceScore, Backing
<1>4. EvidenceScore(bid, Evidence) \in Nat
  BY AuctionAssumption, Zenon
<1> QED
  BY <1>3, <1>4, Zenon

\* A single reference is as good as its score.
LEMMA OneReference ==
    ASSUME NEW bids \in Books, NEW bid \in ToSet(bids), Len(bid.refs) = 1,
           \A i \in DOMAIN bid.refs : bid.refs[i] \in DOMAIN Evidence
    PROVE  Backing(bid) = Evidence[bid.refs[1]].score
<1> DEFINE scores == ScoresAt(bid, DOMAIN bid.refs, Evidence)
<1>1. DOMAIN bid.refs = 1..1 /\ bid.refs[1] \in DOMAIN Evidence
  BY BidFacts
<1>2. scores = <<Evidence[bid.refs[1]].score>>
  BY <1>1 DEF ScoresAt
<1>3. Mean(<<Evidence[bid.refs[1]].score>>) = Evidence[bid.refs[1]].score
  BY <1>1, MeanAssumption
<1> QED
  BY <1>2, <1>3 DEF Backing

\* run_auction finds no reason against a bid exactly when it fits.
LEMMA EligibleFits ==
    ASSUME IInv, NEW task \in Tasks, NEW bids \in Books, NEW bid \in ToSet(bids),
           bid.engineer \in Agents
    PROVE  Eligible(task, bid, agents, Evidence) <=> Fits(task, bid)
<1>1. agents[bid.engineer].balance \in Nat
  BY DEF IInv, EventsSound, Snapshots
<1>2. bid.amount \in Nat /\ bid.credibility \in Nat
  BY BidFacts
<1>3. task.budget \in Nat /\ task.floor \in Nat
  BY AuctionAssumption
<1> DEFINE Owns == \A i \in DOMAIN bid.refs : Own(bid, bid.refs[i], Evidence)
<1>4. Owns <=> \A i \in DOMAIN bid.refs :
                  /\ bid.refs[i] \in DOMAIN Evidence
                  /\ Evidence[bid.refs[i]].agent = bid.engineer
  BY DEF Own, OnFile
<1>5. ASSUME Owns
      PROVE  EvidenceScore(bid, Evidence) >= bid.credibility
               <=> bid.credibility <= Backing(bid)
  <2>1. EvidenceScore(bid, Evidence) = Backing(bid) /\ Backing(bid) \in Nat
    BY <1>5, OwnBid
  <2> QED
    BY <1>2, <2>1
<1> HIDE DEF Owns
<1>6. Eligible(task, bid, agents, Evidence) <=>
        /\ bid.task = task.id
        /\ agents[bid.engineer].status = "available"
        /\ agents[bid.engineer].balance # 0
        /\ task.needs \subseteq Capabilities[bid.engineer]
        /\ bid.amount <= task.budget
        /\ bid.credibility >= task.floor
        /\ Owns
        /\ EvidenceScore(bid, Evidence) >= bid.credibility
  BY DEF Eligible, Owns
<1>7. Fits(task, bid) <=>
        /\ bid.task = task.id
        /\ agents[bid.engineer].status = "available"
        /\ agents[bid.engineer].balance > 0
        /\ task.needs \ Capabilities[bid.engineer] = {}
        /\ bid.amount <= task.budget
        /\ task.floor <= bid.credibility
        /\ Owns
        /\ bid.credibility <= Backing(bid)
  BY <1>4 DEF Fits
<1>8. agents[bid.engineer].balance # 0 <=> agents[bid.engineer].balance > 0
  BY <1>1
<1>9. bid.credibility >= task.floor <=> task.floor <= bid.credibility
  BY <1>2, <1>3
<1>10. /\ task.needs \subseteq Capabilities[bid.engineer]
          <=> task.needs \ Capabilities[bid.engineer] = {}
  OBVIOUS
<1> QED
  BY <1>5, <1>6, <1>7, <1>8, <1>9, <1>10

(***************************************************************************)
(* The order of eligible bids: a strict total order, so it has a least one *)
(***************************************************************************)
\* What an eligible bid of a complete set of bids is known to be.
Ranked(bids, bid) ==
    /\ bid \in ToSet(bids)
    /\ bid.engineer \in Agents
    /\ \A i \in DOMAIN bid.refs : Own(bid, bid.refs[i], Evidence)

LEMMA RankedFacts ==
    ASSUME NEW bids \in Books, NEW x, Ranked(bids, x)
    PROVE  /\ x.amount \in Nat /\ x.credibility \in Nat
           /\ EvidenceScore(x, Evidence) = Backing(x) /\ Backing(x) \in Nat
           /\ Position(x.engineer) \in Nat
  BY BidFacts, OwnBid, RosterFacts DEF Ranked

LEMMA AheadMeans ==
    ASSUME NEW bids \in Books, NEW x, Ranked(bids, x), NEW y, Ranked(bids, y)
    PROVE  Ahead(x, y, Evidence) <=>
             \/ x.amount < y.amount
             \/ /\ x.amount = y.amount
                /\ \/ x.credibility > y.credibility
                   \/ /\ x.credibility = y.credibility
                      /\ \/ Backing(x) > Backing(y)
                         \/ /\ Backing(x) = Backing(y)
                            /\ Position(x.engineer) < Position(y.engineer)
  BY RankedFacts DEF Ahead

\* Of two bids of different engineers one is ahead, and not both.
LEMMA AheadTotal ==
    ASSUME NEW bids \in Books, NEW x, Ranked(bids, x), NEW y, Ranked(bids, y),
           x.engineer # y.engineer
    PROVE  Ahead(x, y, Evidence) <=> ~Ahead(y, x, Evidence)
<1>1. Position(x.engineer) # Position(y.engineer)
  BY RosterFacts DEF Ranked
<1> QED
  BY <1>1, RankedFacts, AheadMeans

LEMMA AheadTransitive ==
    ASSUME NEW bids \in Books, NEW x, Ranked(bids, x), NEW y, Ranked(bids, y),
           NEW z, Ranked(bids, z), Ahead(x, y, Evidence), Ahead(y, z, Evidence)
    PROVE  Ahead(x, z, Evidence)
<1>1. /\ x.amount \in Nat /\ y.amount \in Nat /\ z.amount \in Nat
      /\ x.credibility \in Nat /\ y.credibility \in Nat /\ z.credibility \in Nat
      /\ Backing(x) \in Nat /\ Backing(y) \in Nat /\ Backing(z) \in Nat
      /\ Position(x.engineer) \in Nat /\ Position(y.engineer) \in Nat
      /\ Position(z.engineer) \in Nat
  BY RankedFacts
<1> QED
  BY <1>1, AheadMeans

\* Among bids of different engineers one is ahead of all the others.
LEMMA AheadOfAll ==
    ASSUME NEW bids \in Books, NEW S, IsFiniteSet(S), S # {},
           \A x \in S : Ranked(bids, x),
           \A x, y \in S : x # y => x.engineer # y.engineer
    PROVE  \E w \in S : \A b \in S \ {w} : Ahead(w, b, Evidence)
<1> DEFINE F == {s \in SUBSET S : s # {} =>
                    \E w \in s : \A b \in s \ {w} : Ahead(w, b, Evidence)}
<1>1. ASSUME NEW s \in SUBSET S, \A x \in s : s \ {x} \in F, s # {}
      PROVE  \E w \in s : \A b \in s \ {w} : Ahead(w, b, Evidence)
  <2>1. PICK x \in s : TRUE
    BY <1>1
  <2>2. CASE s \ {x} = {}
    BY <2>1, <2>2
  <2>3. CASE s \ {x} # {}
    <3>1. PICK m \in s \ {x} : \A b \in (s \ {x}) \ {m} : Ahead(m, b, Evidence)
      BY <1>1, <2>1, <2>3
    <3>2. /\ Ranked(bids, x) /\ Ranked(bids, m) /\ x # m
          /\ x.engineer # m.engineer
      BY <2>1, <3>1
    <3>3. CASE Ahead(m, x, Evidence)
      BY <3>1, <3>3
    <3>4. CASE ~Ahead(m, x, Evidence)
      <4>1. Ahead(x, m, Evidence)
        BY <3>2, <3>4, AheadTotal
      <4>2. ASSUME NEW b \in s \ {x}
            PROVE  Ahead(x, b, Evidence)
        <5>1. Ranked(bids, b)
          OBVIOUS
        <5>2. CASE b = m
          BY <4>1, <5>2
        <5>3. CASE b # m
          BY <3>1, <3>2, <4>1, <5>1, <5>3, AheadTransitive
        <5> QED
          BY <5>2, <5>3
      <4> QED
        BY <2>1, <4>2
    <3> QED
      BY <3>3, <3>4
  <2> QED
    BY <2>2, <2>3
<1>2. F = SUBSET S
  <2>1. F \in SUBSET SUBSET S
    OBVIOUS
  <2>2. \A s \in SUBSET S : (\A x \in s : s \ {x} \in F) => s \in F
    BY <1>1
  <2> HIDE DEF F
  <2> QED
    BY <2>1, <2>2, SubsetFamily
<1> QED
  BY <1>2

\* Bids by all engineers, and as many as there are engineers, are one from each.
LEMMA CompleteBids ==
    ASSUME NEW bids \in Books, {bids[i].engineer : i \in DOMAIN bids} = Engineers,
           Len(bids) = Cardinality(Engineers)
    PROVE  Complete(bids)
<1>1. Len(bids) \in Nat /\ DOMAIN bids = 1..Len(bids)
  <2>1. bids \in Seq(ToSet(bids))
    BY AuctionAssumption
  <2> DEFINE T == ToSet(bids)
  <2>2. bids \in Seq(T)
    BY <2>1
  <2> HIDE DEF T
  <2> QED
    BY <2>2
<1> DEFINE D == 1..Len(bids)
           f == [i \in D |-> bids[i].engineer]
<1>2. IsFiniteSet(D) /\ Cardinality(D) = Len(bids)
  BY <1>1, FS_Interval
<1>3. f \in Surjection(D, Engineers)
  BY <1>1 DEF Surjection
<1>4. f \in Injection(D, Engineers)
  BY <1>2, <1>3, FS_SurjSameCardinalityImpliesInj
<1>5. \A i, j \in D : f[i] = f[j] => i = j
  BY <1>4 DEF Injection, IsInjective
<1> QED
  BY <1>1, <1>5 DEF Complete

LEMMA BidsFinite ==
    ASSUME NEW bids \in Books
    PROVE  IsFiniteSet(ToSet(bids))
<1> DEFINE T == ToSet(bids)
<1>1. bids \in Seq(T)
  BY AuctionAssumption
<1>2. T = {bids[i] : i \in DOMAIN bids}
  BY DEF ToSet
<1> HIDE DEF T
<1>3. Len(bids) \in Nat /\ DOMAIN bids = 1..Len(bids) /\ bids \in [1..Len(bids) -> T]
  BY <1>1
<1>4. IsFiniteSet(1..Len(bids))
  BY <1>3, FS_Interval
<1>5. bids \in Surjection(1..Len(bids), T)
  BY <1>2, <1>3 DEF Surjection
<1>6. IsFiniteSet(T)
  BY <1>4, <1>5, FS_Surjection
<1> QED
  BY <1>6 DEF T

\* An award goes to the best of the bids that fit, whatever bids came in and
\* whatever state the company is in; and a complete set of bids with one that
\* fits has a winner.
THEOREM AwardsAreBest == Spec => []AwardIsBest
<1>1. ASSUME IInv, NEW task \in Tasks, NEW bids \in Books,
             {bids[i].engineer : i \in DOMAIN bids} \subseteq Agents
      PROVE  EligibleBids(task, bids, agents, Evidence)
               = {b \in ToSet(bids) : Fits(task, b)}
  <2>1. ASSUME NEW b \in ToSet(bids)
        PROVE  Eligible(task, b, agents, Evidence) <=> Fits(task, b)
    <3>1. b.engineer \in Agents
      BY <1>1 DEF ToSet
    <3> QED
      BY <1>1, <3>1, EligibleFits
  <2> QED
    BY <2>1 DEF EligibleBids
<1>2. ASSUME IInv, NEW task \in Tasks, NEW bids \in Books, Complete(bids)
      PROVE  LET fit == {b \in ToSet(bids) : Fits(task, b)}
             IN /\ \A b \in fit : Ranked(bids, b)
                /\ \A x, y \in fit : x # y => x.engineer # y.engineer
                /\ IsFiniteSet(fit)
                /\ EligibleBids(task, bids, agents, Evidence) = fit
  <2> DEFINE fit == {b \in ToSet(bids) : Fits(task, b)}
  <2>1. {bids[i].engineer : i \in DOMAIN bids} \subseteq Agents
    BY <1>2, RosterFacts DEF Complete
  <2>2. \A b \in fit : Ranked(bids, b)
    BY <2>1 DEF Fits, Ranked, Own, OnFile, ToSet
  <2>3. \A x, y \in fit : x # y => x.engineer # y.engineer
    BY <1>2 DEF Complete, ToSet
  <2>4. IsFiniteSet(fit)
    BY BidsFinite, FS_Subset
  <2>5. EligibleBids(task, bids, agents, Evidence) = fit
    BY <1>1, <1>2, <2>1
  <2> QED
    BY <2>2, <2>3, <2>4, <2>5
<1>3. ASSUME IInv, NEW task \in Tasks, NEW bids \in Books
      PROVE  LET fit == {b \in ToSet(bids) : Fits(task, b)}
                 won == Winners(task, bids, agents, Evidence)
             IN /\ won \subseteq fit
                /\ Cardinality(won) <= 1
                /\ /\ {bids[i].engineer : i \in DOMAIN bids} = Engineers
                   /\ Len(bids) = Cardinality(Engineers) /\ fit # {}
                   => won # {}
                /\ \A w \in won :
                     Len(w.refs) = 1 => w.credibility <= Evidence[w.refs[1]].score
                /\ \A w \in won, b \in fit \ won :
                     /\ w.amount <= b.amount
                     /\ w.amount = b.amount => w.credibility >= b.credibility
                     /\ w.amount = b.amount /\ w.credibility = b.credibility =>
                          /\ Backing(w) >= Backing(b)
                          /\ Backing(w) = Backing(b)
                                => Position(w.engineer) < Position(b.engineer)
  <2> DEFINE fit == {b \in ToSet(bids) : Fits(task, b)}
             won == Winners(task, bids, agents, Evidence)
  <2>1. ASSUME Complete(bids)
        PROVE  /\ won = {w \in fit : \A b \in fit \ {w} : Ahead(w, b, Evidence)}
               /\ \A b \in fit : Ranked(bids, b)
               /\ \A x, y \in fit : x # y => x.engineer # y.engineer
               /\ IsFiniteSet(fit)
    BY <1>2, <1>3, <2>1 DEF Winners
  <2>2. won # {} => Complete(bids)
    BY DEF Winners
  <2> HIDE DEF fit, won
  <2>3. won \subseteq fit
    BY <2>1, <2>2
  <2>4. Cardinality(won) <= 1
    <3>1. CASE won = {}
      BY <3>1, FS_EmptySet
    <3>2. CASE won # {}
      <4>1. PICK w \in won : TRUE
        BY <3>2
      <4>2. ASSUME NEW v \in won, v # w
            PROVE  FALSE
        <5>1. /\ Ahead(w, v, Evidence) /\ Ahead(v, w, Evidence)
              /\ Ranked(bids, v) /\ Ranked(bids, w) /\ v.engineer # w.engineer
          BY <2>1, <2>2, <3>2, <4>1, <4>2
        <5> QED
          BY <5>1, AheadTotal
      <4>3. won = {w}
        BY <4>1, <4>2
      <4>4. Cardinality({w}) = 1
        BY FS_Singleton, Zenon
      <4> QED
        BY <4>3, <4>4
    <3> QED
      BY <3>1, <3>2
  <2>5. ASSUME {bids[i].engineer : i \in DOMAIN bids} = Engineers,
               Len(bids) = Cardinality(Engineers), fit # {}
        PROVE  won # {}
    <3>1. Complete(bids)
      BY <2>5, CompleteBids
    <3>2. \E w \in fit : \A b \in fit \ {w} : Ahead(w, b, Evidence)
      BY <2>1, <2>5, <3>1, AheadOfAll
    <3> QED
      BY <2>1, <3>1, <3>2
  <2>6. ASSUME NEW w \in won, NEW b \in fit \ won
        PROVE  /\ w.amount <= b.amount
               /\ w.amount = b.amount => w.credibility >= b.credibility
               /\ w.amount = b.amount /\ w.credibility = b.credibility =>
                    /\ Backing(w) >= Backing(b)
                    /\ Backing(w) = Backing(b)
                          => Position(w.engineer) < Position(b.engineer)
    <3>1. Ahead(w, b, Evidence) /\ Ranked(bids, w) /\ Ranked(bids, b)
      BY <2>1, <2>2, <2>6
    <3>2. /\ w.amount \in Nat /\ w.credibility \in Nat /\ Backing(w) \in Nat
          /\ b.amount \in Nat /\ b.credibility \in Nat /\ Backing(b) \in Nat
      BY <3>1, RankedFacts, Zenon
    <3>3. \/ w.amount < b.amount
          \/ /\ w.amount = b.amount
             /\ \/ w.credibility > b.credibility
                \/ /\ w.credibility = b.credibility
                   /\ \/ Backing(w) > Backing(b)
                      \/ /\ Backing(w) = Backing(b)
                         /\ Position(w.engineer) < Position(b.engineer)
      BY <3>1, AheadMeans, Zenon
    <3> QED
      BY <3>2, <3>3
  <2>7. ASSUME NEW w \in won, Len(w.refs) = 1
        PROVE  w.credibility <= Evidence[w.refs[1]].score
    <3>1. w \in ToSet(bids) /\ Fits(task, w)
      BY <2>3 DEF fit
    <3>2. Backing(w) = Evidence[w.refs[1]].score
      BY <2>7, <3>1, OneReference DEF Fits
    <3> QED
      BY <3>1, <3>2 DEF Fits
  <2> QED
    BY <2>3, <2>4, <2>5, <2>6, <2>7 DEF fit, won
<1>4. IInv => AwardIsBest
  BY <1>3 DEF AwardIsBest, Fits, Backing
<1> QED
  BY <1>4, Invariance, PTL

=============================================================================
