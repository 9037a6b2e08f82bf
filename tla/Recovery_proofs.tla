--------------------------- MODULE Recovery_proofs ---------------------------
(***************************************************************************)
(* The proofs about Recovery: what one more event does to the folds over a *)
(* run's events, that each operation keeps the invariant, and what the     *)
(* invariant says of runs, of the pulse and of proposals.                  *)
(***************************************************************************)
EXTENDS RecoveryInv, Ledger_proofs, SequenceTheorems

(***************************************************************************)
(* One more event                                                          *)
(***************************************************************************)
LEMMA AppendFacts ==
    ASSUME NEW q \in Seq(Events), NEW e \in Events
    PROVE  /\ q \o <<e>> = Append(q, e) /\ Append(q, e) \in Seq(Events)
           /\ Len(q) \in Nat /\ DOMAIN q = 1..Len(q)
           /\ Len(Append(q, e)) = Len(q) + 1
           /\ DOMAIN Append(q, e) = 1..(Len(q) + 1)
           /\ Append(q, e)[Len(q) + 1] = e
           /\ \A k \in DOMAIN q : Append(q, e)[k] = q[k]
OBVIOUS

\* Where the events of some types stand: finitely many places, the last of
\* which is one of them.
LEMMA MarksFacts ==
    ASSUME NEW q \in Seq(Events), NEW T
    PROVE  /\ Marks(q, T) \subseteq 1..Len(q) /\ Marks(q, T) \subseteq DOMAIN q
           /\ Len(q) \in Nat /\ IsFiniteSet(Marks(q, T))
           /\ \A k \in Marks(q, T) : q[k].type \in T
           /\ Marks(q, T) # {} => Max(Marks(q, T)) \in Marks(q, T)
           /\ \A k \in Marks(q, T) : k <= Max(Marks(q, T))
           /\ Marks(q, T) # {} => LastMark(q, T) \in T
<1>1. DOMAIN q = 1..Len(q) /\ Len(q) \in Nat
  OBVIOUS
<1>2. IsFiniteSet(1..Len(q))
  BY <1>1, FS_Interval
<1>3. Marks(q, T) \subseteq 1..Len(q) /\ \A k \in Marks(q, T) : q[k].type \in T
  BY <1>1 DEF Marks
<1>4. IsFiniteSet(Marks(q, T)) /\ Marks(q, T) \in SUBSET Int
  BY <1>1, <1>2, <1>3, FS_Subset
<1>5. Marks(q, T) # {} =>
         Max(Marks(q, T)) \in Marks(q, T) /\ \A k \in Marks(q, T) : k <= Max(Marks(q, T))
  BY <1>4, MaxOfNumbers
<1> QED
  BY <1>1, <1>3, <1>4, <1>5 DEF LastMark

\* The last of some numbers.
LEMMA MaxIs ==
    ASSUME NEW S \in SUBSET Nat, NEW m \in S, \A k \in S : k <= m
    PROVE  Max(S) = m
<1>1. \A k \in S : m >= k
  OBVIOUS
<1>2. Max(S) \in S /\ \A k \in S : Max(S) >= k
  BY <1>1 DEF Max
<1>3. Max(S) \in Nat /\ m \in Nat /\ Max(S) <= m /\ Max(S) >= m
  BY <1>2
<1> HIDE DEF Max
<1> QED
  BY <1>3

LEMMA MarksAppend ==
    ASSUME NEW q \in Seq(Events), NEW e \in Events, NEW T
    PROVE  /\ e.type \in T =>
                /\ Marks(Append(q, e), T) = Marks(q, T) \union {Len(q) + 1}
                /\ LastMark(Append(q, e), T) = e.type
           /\ e.type \notin T =>
                /\ Marks(Append(q, e), T) = Marks(q, T)
                /\ Marks(q, T) # {} => LastMark(Append(q, e), T) = LastMark(q, T)
<1> DEFINE a == Append(q, e)
           n == Len(q) + 1
<1>1. /\ Len(q) \in Nat /\ DOMAIN q = 1..Len(q) /\ DOMAIN a = 1..n /\ a[n] = e
      /\ \A k \in DOMAIN q : a[k] = q[k]
  BY AppendFacts
<1> HIDE DEF a
<1>2. DOMAIN a = DOMAIN q \union {n} /\ n \notin DOMAIN q
  BY <1>1
<1>3. e.type \in T => Marks(a, T) = Marks(q, T) \union {n}
  BY <1>1, <1>2 DEF Marks
<1>4. e.type \notin T => Marks(a, T) = Marks(q, T)
  BY <1>1, <1>2 DEF Marks
<1>5. Marks(q, T) \subseteq 1..Len(q)
  BY MarksFacts
<1>6. ASSUME e.type \in T
      PROVE  LastMark(a, T) = e.type
  <2>1. Marks(a, T) \in SUBSET Nat /\ n \in Marks(a, T) /\ \A k \in Marks(a, T) : k <= n
    BY <1>1, <1>3, <1>5, <1>6
  <2>2. Max(Marks(a, T)) = n
    <3> DEFINE S == Marks(a, T)
    <3> HIDE DEF S, n
    <3> QED
      BY <2>1, MaxIs DEF S
  <2> QED
    BY <1>1, <2>2 DEF LastMark
<1>7. ASSUME e.type \notin T, Marks(q, T) # {}
      PROVE  LastMark(a, T) = LastMark(q, T)
  <2>1. Max(Marks(q, T)) \in DOMAIN q
    BY <1>7, MarksFacts
  <2> QED
    BY <1>1, <1>4, <1>7, <2>1 DEF LastMark
<1> QED
  BY <1>3, <1>4, <1>6, <1>7 DEF a

LEMMA CountAppend ==
    ASSUME NEW q \in Seq(Events), NEW e \in Events, NEW type
    PROVE  /\ Count(q, type) \in Nat
           /\ e.type = type => Count(Append(q, e), type) = Count(q, type) + 1
           /\ e.type # type => Count(Append(q, e), type) = Count(q, type)
<1> DEFINE M == Marks(q, {type})
<1>1. IsFiniteSet(M) /\ Len(q) \in Nat /\ M \subseteq 1..Len(q)
  BY MarksFacts
<1>2. Len(q) + 1 \notin M
  <2>1. Len(q) + 1 \notin 1..Len(q)
    BY <1>1
  <2> HIDE DEF M
  <2> QED
    BY <1>1, <2>1
<1>3. Cardinality(M) \in Nat
  BY <1>1, FS_CardinalityType
<1>4. Cardinality(M \union {Len(q) + 1}) = Cardinality(M) + 1
  BY <1>1, <1>2, FS_AddElement
<1>5. e.type = type => Marks(Append(q, e), {type}) = M \union {Len(q) + 1}
  BY MarksAppend
<1>6. e.type # type => Marks(Append(q, e), {type}) = M
  BY MarksAppend
<1> QED
  BY <1>3, <1>4, <1>5, <1>6 DEF Count

\* What a run's status, its release and its last alarm become.
LEMMA StatusAppend ==
    ASSUME NEW q \in Seq(Events), NEW e \in Events
    PROVE  /\ e.type \in DOMAIN StatusOf => StatusIn(Append(q, e)) = StatusOf[e.type]
           /\ e.type \notin DOMAIN StatusOf => StatusIn(Append(q, e)) = StatusIn(q)
<1> DEFINE T == DOMAIN StatusOf
<1> HIDE DEF T
<1>1. e.type \in T => /\ Marks(Append(q, e), T) = Marks(q, T) \union {Len(q) + 1}
                      /\ LastMark(Append(q, e), T) = e.type
  BY MarksAppend
<1>2. e.type \notin T => /\ Marks(Append(q, e), T) = Marks(q, T)
                         /\ Marks(q, T) # {} => LastMark(Append(q, e), T) = LastMark(q, T)
  BY MarksAppend
<1>3. \A s : StatusIn(s) = IF Marks(s, T) = {} THEN "queued" ELSE StatusOf[LastMark(s, T)]
  BY DEF StatusIn, T
<1> HIDE DEF StatusOf
<1>4. CASE e.type \in T
  BY <1>1, <1>3, <1>4 DEF T
<1>5. CASE e.type \notin T
  BY <1>2, <1>3, <1>5 DEF T
<1> QED
  BY <1>4, <1>5

LEMMA VersionAppend ==
    ASSUME NEW q \in Seq(Events), NEW e \in Events
    PROVE  /\ e.type \in ReleaseEvents =>
                VersionIn(Append(q, e)) =
                   IF e.type = "regression.injected" THEN "bad" ELSE "stable"
           /\ e.type \notin ReleaseEvents => VersionIn(Append(q, e)) = VersionIn(q)
<1>1. e.type \in ReleaseEvents =>
         /\ Marks(Append(q, e), ReleaseEvents) = Marks(q, ReleaseEvents) \union {Len(q) + 1}
         /\ LastMark(Append(q, e), ReleaseEvents) = e.type
  BY MarksAppend
<1>2. e.type \notin ReleaseEvents =>
         /\ Marks(Append(q, e), ReleaseEvents) = Marks(q, ReleaseEvents)
         /\ Marks(q, ReleaseEvents) # {} =>
              LastMark(Append(q, e), ReleaseEvents) = LastMark(q, ReleaseEvents)
  BY MarksAppend
<1>3. CASE e.type \in ReleaseEvents
  BY <1>1, <1>3 DEF VersionIn
<1>4. CASE e.type \notin ReleaseEvents
  BY <1>2, <1>4 DEF VersionIn
<1> QED
  BY <1>3, <1>4

LEMMA AlertedAppend ==
    ASSUME NEW q \in Seq(Events), NEW e \in Events
    PROVE  /\ e.type \in AlarmEvents =>
                (AlertedIn(Append(q, e)) <=> e.type = "monitor.alert")
           /\ e.type \notin AlarmEvents => (AlertedIn(Append(q, e)) <=> AlertedIn(q))
<1>1. e.type \in AlarmEvents =>
         /\ Marks(Append(q, e), AlarmEvents) = Marks(q, AlarmEvents) \union {Len(q) + 1}
         /\ LastMark(Append(q, e), AlarmEvents) = e.type
  BY MarksAppend
<1>2. e.type \notin AlarmEvents =>
         /\ Marks(Append(q, e), AlarmEvents) = Marks(q, AlarmEvents)
         /\ Marks(q, AlarmEvents) # {} =>
              LastMark(Append(q, e), AlarmEvents) = LastMark(q, AlarmEvents)
  BY MarksAppend
<1>3. CASE e.type \in AlarmEvents
  BY <1>1, <1>3 DEF AlertedIn
<1>4. CASE e.type \notin AlarmEvents
  BY <1>2, <1>4 DEF AlertedIn
<1> QED
  BY <1>3, <1>4

-----------------------------------------------------------------------------
(***************************************************************************)
(* What may be recorded of a run, by where the run stands                  *)
(***************************************************************************)
IncidentStep(q, e) ==
    \/ e.type \notin DOMAIN StatusOf \union ReleaseEvents \union HealthEvents
    \/ e.type = "run.started" /\ StatusIn(q) = "queued"
    \/ /\ e.type \in {"run.failed", "deployment.succeeded", "monitor.healthy"}
       /\ StatusIn(q) = "running"
    \/ e.type = "run.completed" /\ StatusIn(q) = "running" /\ VersionIn(q) = "stable"
    \/ e.type = "regression.injected" /\ StatusIn(q) \in {"completed", "recovered"}
    \/ /\ e.type \in {"monitor.alert", "rollback.started", "rollback.completed"}
       /\ StatusIn(q) = "degraded"

LEMMA StatusTypes ==
    /\ DOMAIN StatusOf =
          {"run.started", "run.completed", "run.failed", "regression.injected",
           "monitor.alert", "rollback.started", "rollback.completed"}
    /\ StatusOf["run.started"] = "running" /\ StatusOf["run.completed"] = "completed"
    /\ StatusOf["run.failed"] = "failed" /\ StatusOf["regression.injected"] = "degraded"
    /\ StatusOf["monitor.alert"] = "degraded" /\ StatusOf["rollback.started"] = "degraded"
    /\ StatusOf["rollback.completed"] = "recovered"
BY DEF StatusOf

\* Such an event leaves a run's status, release and incidents in agreement.
LEMMA IncidentAppend ==
    ASSUME NEW q \in Seq(Events), NEW e \in Events, IncidentInv(q), IncidentStep(q, e)
    PROVE  IncidentInv(Append(q, e))
<1> DEFINE a == Append(q, e)
           injected(s) == Count(s, "regression.injected")
           answered(s) == Count(s, "rollback.completed")
<1>1. /\ e.type \in DOMAIN StatusOf => StatusIn(a) = StatusOf[e.type]
      /\ e.type \notin DOMAIN StatusOf => StatusIn(a) = StatusIn(q)
  BY StatusAppend
<1>2. /\ e.type \in ReleaseEvents =>
           VersionIn(a) = IF e.type = "regression.injected" THEN "bad" ELSE "stable"
      /\ e.type \notin ReleaseEvents => VersionIn(a) = VersionIn(q)
  BY VersionAppend
<1>3. /\ injected(q) \in Nat /\ answered(q) \in Nat
      /\ injected(a) = IF e.type = "regression.injected" THEN injected(q) + 1
                       ELSE injected(q)
      /\ answered(a) = IF e.type = "rollback.completed" THEN answered(q) + 1
                       ELSE answered(q)
  BY CountAppend
<1>4. /\ StatusIn(q) \in {"completed", "recovered"} => VersionIn(q) = "stable"
      /\ StatusIn(q) = "degraded" => VersionIn(q) = "bad"
      /\ injected(q) = answered(q) + IF StatusIn(q) = "degraded" THEN 1 ELSE 0
  BY DEF IncidentInv
<1> HIDE DEF a, injected, answered
<1> USE StatusTypes DEF ReleaseEvents
<1>5. SUFFICES /\ StatusIn(a) \in {"completed", "recovered"} => VersionIn(a) = "stable"
               /\ StatusIn(a) = "degraded" => VersionIn(a) = "bad"
               /\ injected(a) = answered(a) + IF StatusIn(a) = "degraded" THEN 1 ELSE 0
  BY DEF IncidentInv, a, injected, answered
<1>6. CASE e.type \notin DOMAIN StatusOf \union ReleaseEvents \union HealthEvents
  BY <1>1, <1>2, <1>3, <1>4, <1>6
<1>7. CASE e.type = "run.started" /\ StatusIn(q) = "queued"
  BY <1>1, <1>2, <1>3, <1>4, <1>7
<1>8. CASE /\ e.type \in {"run.failed", "deployment.succeeded", "monitor.healthy"}
           /\ StatusIn(q) = "running"
  BY <1>1, <1>2, <1>3, <1>4, <1>8
<1>9. CASE e.type = "run.completed" /\ StatusIn(q) = "running" /\ VersionIn(q) = "stable"
  BY <1>1, <1>2, <1>3, <1>4, <1>9
<1>10. CASE e.type = "regression.injected" /\ StatusIn(q) \in {"completed", "recovered"}
  BY <1>1, <1>2, <1>3, <1>4, <1>10
<1>11. CASE /\ e.type \in {"monitor.alert", "rollback.started", "rollback.completed"}
            /\ StatusIn(q) = "degraded"
  BY <1>1, <1>2, <1>3, <1>4, <1>11
<1> QED
  BY <1>6, <1>7, <1>8, <1>9, <1>10, <1>11 DEF IncidentStep

(***************************************************************************)
(* What may be recorded of a proposal                                      *)
(***************************************************************************)
PolicyStep(r, q, e) ==
    /\ e.type = "policy.proposed" =>
          e.policy = <<r, 1 + Count(q, "policy.proposed")>>
    /\ e.type \in Decisions =>
          /\ \A j \in Marks(q, Decisions) : q[j].policy # e.policy
          /\ \E i \in Marks(q, {"policy.proposed"}) :
                /\ q[i].policy = e.policy
                /\ e.type = "policy.approved" => FullCoverage > q[i].baseline
    /\ e.type = "policy.activated" =>
          /\ \A j \in Marks(q, {"policy.activated"}) : q[j].policy # e.policy
          /\ \E i \in Marks(q, {"policy.approved"}) : q[i].policy = e.policy

\* An event that is new of its kind to its proposal keeps the kind unique.
LEMMA OncePerPolicyAppend ==
    ASSUME NEW q \in Seq(Events), NEW e \in Events, NEW T, OncePerPolicy(q, T),
           e.type \in T => \A j \in Marks(q, T) : q[j].policy # e.policy
    PROVE  OncePerPolicy(Append(q, e), T)
<1> DEFINE a == Append(q, e)
           n == Len(q) + 1
<1>1. a[n] = e /\ \A k \in Marks(q, T) : a[k] = q[k]
  BY AppendFacts, MarksFacts
<1>2. CASE e.type \in T
  <2>1. Marks(a, T) = Marks(q, T) \union {n}
    BY <1>2, MarksAppend
  <2> HIDE DEF a, n
  <2> QED
    BY <1>1, <1>2, <2>1 DEF OncePerPolicy, a
<1>3. CASE e.type \notin T
  <2>1. Marks(a, T) = Marks(q, T)
    BY <1>3, MarksAppend
  <2> HIDE DEF a, n
  <2> QED
    BY <1>1, <2>1 DEF OncePerPolicy, a
<1> QED
  BY <1>2, <1>3

\* Such an event keeps what is true of a run's proposals.
LEMMA PolicyAppend ==
    ASSUME NEW r, NEW q \in Seq(Events), NEW e \in Events,
           PolicyInv(r, q), PolicyStep(r, q, e)
    PROVE  PolicyInv(r, Append(q, e))
<1> DEFINE a == Append(q, e)
           n == Len(q) + 1
           P(s) == Marks(s, {"policy.proposed"})
           A(s) == Marks(s, {"policy.approved"})
           D(s) == Marks(s, Decisions)
           V(s) == Marks(s, {"policy.activated"})
           N(s) == Count(s, "policy.proposed")
<1>1. a[n] = e /\ Len(q) \in Nat /\ \A k \in DOMAIN q : a[k] = q[k]
  BY AppendFacts
<1>2. /\ P(q) \subseteq DOMAIN q /\ A(q) \subseteq DOMAIN q /\ D(q) \subseteq DOMAIN q
      /\ V(q) \subseteq DOMAIN q /\ DOMAIN q = 1..Len(q)
  BY MarksFacts
<1>3. \A k \in DOMAIN q : k < n
  BY <1>1, <1>2
<1>4. P(a) = IF e.type = "policy.proposed" THEN P(q) \union {n} ELSE P(q)
  BY MarksAppend
<1>5. A(a) = IF e.type = "policy.approved" THEN A(q) \union {n} ELSE A(q)
  BY MarksAppend
<1>6. D(a) = IF e.type \in Decisions THEN D(q) \union {n} ELSE D(q)
  BY MarksAppend
<1>7. V(a) = IF e.type = "policy.activated" THEN V(q) \union {n} ELSE V(q)
  BY MarksAppend
<1>8. /\ N(q) \in Nat
      /\ N(a) = IF e.type = "policy.proposed" THEN N(q) + 1 ELSE N(q)
  BY CountAppend
<1>9. /\ \A k \in P(q) : \E m \in 1..N(q) : q[k].policy = <<r, m>>
      /\ \A j \in D(q) : \E i \in P(q) :
            /\ i < j /\ q[i].policy = q[j].policy
            /\ q[j].type = "policy.approved" => FullCoverage > q[i].baseline
      /\ \A k \in V(q) : \E j \in A(q) : j < k /\ q[j].policy = q[k].policy
  BY DEF PolicyInv
<1>10. /\ e.type = "policy.proposed" => e.policy = <<r, 1 + N(q)>>
       /\ e.type \in Decisions =>
            \E i \in P(q) : /\ q[i].policy = e.policy
                            /\ e.type = "policy.approved" => FullCoverage > q[i].baseline
       /\ e.type = "policy.activated" => \E i \in A(q) : q[i].policy = e.policy
  BY DEF PolicyStep
<1>11. /\ OncePerPolicy(a, {"policy.proposed"}) /\ OncePerPolicy(a, Decisions)
       /\ OncePerPolicy(a, {"policy.activated"})
  <2>1. /\ OncePerPolicy(q, {"policy.proposed"}) /\ OncePerPolicy(q, Decisions)
        /\ OncePerPolicy(q, {"policy.activated"})
    BY DEF PolicyInv
  <2>2. e.type = "policy.proposed" => \A j \in P(q) : q[j].policy # e.policy
    BY <1>8, <1>9, <1>10
  <2>3. /\ e.type \in Decisions => \A j \in D(q) : q[j].policy # e.policy
        /\ e.type = "policy.activated" => \A j \in V(q) : q[j].policy # e.policy
    BY DEF PolicyStep
  <2> QED
    BY <2>1, <2>2, <2>3, OncePerPolicyAppend
<1> HIDE DEF a, n, P, A, D, V, N
<1>12. \A k \in P(a) : \E m \in 1..N(a) : a[k].policy = <<r, m>>
  <2> SUFFICES ASSUME NEW k \in P(a)
               PROVE  \E m \in 1..N(a) : a[k].policy = <<r, m>>
    OBVIOUS
  <2>1. CASE k \in P(q)
    <3>1. PICK m \in 1..N(q) : q[k].policy = <<r, m>>
      BY <1>9, <2>1
    <3>2. m \in 1..N(a) /\ a[k].policy = <<r, m>>
      BY <1>1, <1>2, <1>8, <2>1, <3>1
    <3> QED
      BY <3>2
  <2>2. CASE k \notin P(q)
    <3>1. k = n /\ e.type = "policy.proposed"
      BY <1>4, <2>2
    <3>2. 1 + N(q) \in 1..N(a) /\ a[k].policy = <<r, 1 + N(q)>>
      BY <1>1, <1>8, <1>10, <3>1
    <3> QED
      BY <3>2
  <2> QED
    BY <2>1, <2>2
<1>13. \A j \in D(a) : \E i \in P(a) :
          /\ i < j /\ a[i].policy = a[j].policy
          /\ a[j].type = "policy.approved" => FullCoverage > a[i].baseline
  BY <1>1, <1>2, <1>3, <1>4, <1>6, <1>9, <1>10
<1>14. \A k \in V(a) : \E j \in A(a) : j < k /\ a[j].policy = a[k].policy
  BY <1>1, <1>2, <1>3, <1>5, <1>7, <1>9, <1>10
<1> QED
  BY <1>11, <1>12, <1>13, <1>14 DEF PolicyInv, a, P, A, D, V, N

-----------------------------------------------------------------------------
(***************************************************************************)
(* What recording an event does to a journal                               *)
(***************************************************************************)
After(journal, r, e) == [journal EXCEPT ![r] = Append(@, e)]

LastAfter(last, r, e) ==
    IF e.type \in HealthEvents THEN [run |-> r, type |-> e.type] ELSE last

\* An event of a proposal names one of its run's.
NamesPolicyOf(r, e) ==
    e.type \in PolicyMarks => e.policy \in Policies /\ e.policy[1] = r

LEMMA AfterTypes ==
    ASSUME NEW journal, NEW last, JournalTypes(journal, last),
           NEW r \in Runs, NEW e \in Events, NamesPolicyOf(r, e)
    PROVE  /\ JournalTypes(After(journal, r, e), LastAfter(last, r, e))
           /\ After(journal, r, e)[r] = Append(journal[r], e)
           /\ \A s \in Runs \ {r} : After(journal, r, e)[s] = journal[s]
<1> DEFINE after == After(journal, r, e)
           q == journal[r]
<1>1. journal \in [Runs -> Seq(Events)]
  BY DEF JournalTypes
<1>2. q \in Seq(Events)
  BY <1>1
<1>3. Append(q, e) \in Seq(Events) /\ Append(q, e)[Len(q) + 1] = e
      /\ \A k \in DOMAIN q : Append(q, e)[k] = q[k]
  BY <1>2, AppendFacts
<1>4. after[r] = Append(q, e) /\ \A s \in Runs \ {r} : after[s] = journal[s]
  BY <1>1 DEF After
<1>5. after \in [Runs -> Seq(Events)]
  BY <1>1, <1>3 DEF After
<1>6. ASSUME NEW s \in Runs, NEW k \in Marks(after[s], PolicyMarks)
      PROVE  after[s][k].policy \in Policies /\ after[s][k].policy[1] = s
  <2>1. CASE s # r
    BY <1>4, <1>6, <2>1 DEF JournalTypes
  <2>2. CASE s = r
    <3>1. Marks(Append(q, e), PolicyMarks) =
            IF e.type \in PolicyMarks THEN Marks(q, PolicyMarks) \union {Len(q) + 1}
            ELSE Marks(q, PolicyMarks)
      BY <1>2, MarksAppend
    <3>2. Marks(q, PolicyMarks) \subseteq DOMAIN q
      BY <1>2, MarksFacts
    <3>3. k \in Marks(Append(q, e), PolicyMarks) /\ after[s] = Append(q, e)
      BY <1>4, <1>6, <2>2
    <3>4. CASE k \in Marks(q, PolicyMarks)
      BY <1>3, <2>2, <3>2, <3>3, <3>4 DEF JournalTypes
    <3>5. CASE k = Len(q) + 1 /\ e.type \in PolicyMarks
      BY <1>3, <2>2, <3>3, <3>5 DEF NamesPolicyOf
    <3> HIDE DEF after, q
    <3> QED
      BY <3>1, <3>3, <3>4, <3>5
  <2> QED
    BY <2>1, <2>2
<1>7. LastAfter(last, r, e) \in [run : Runs \union {NoRun}, type : HealthEvents \union {"none"}]
  BY DEF JournalTypes, LastAfter
<1> QED
  BY <1>4, <1>5, <1>6, <1>7 DEF JournalTypes

\* The pulse still tells the incidents.
LEMMA AfterPulse ==
    ASSUME NEW journal, NEW last, JournalTypes(journal, last),
           NEW r \in Runs, NEW e \in Events, NamesPolicyOf(r, e),
           PulseInv(journal, last), IncidentStep(journal[r], e)
    PROVE  PulseInv(After(journal, r, e), LastAfter(last, r, e))
<1> DEFINE after == After(journal, r, e)
           q == journal[r]
           latest == LastAfter(last, r, e)
           alarms == {"fault.injected", "monitor.alert"}
<1>1. after[r] = Append(q, e) /\ \A s \in Runs \ {r} : after[s] = journal[s]
  BY AfterTypes
<1>2. q \in Seq(Events)
  BY DEF JournalTypes
<1>3. /\ e.type \in DOMAIN StatusOf => StatusIn(after[r]) = StatusOf[e.type]
      /\ e.type \notin DOMAIN StatusOf => StatusIn(after[r]) = StatusIn(q)
  BY <1>1, <1>2, StatusAppend
<1>4. /\ e.type \in AlarmEvents => (AlertedIn(after[r]) <=> e.type = "monitor.alert")
      /\ e.type \notin AlarmEvents => (AlertedIn(after[r]) <=> AlertedIn(q))
  BY <1>1, <1>2, AlertedAppend
<1>5. /\ last.type \in alarms => last.run \in Runs /\ StatusIn(journal[last.run]) = "degraded"
      /\ \A s \in Runs : StatusIn(journal[s]) = "degraded" /\ AlertedIn(journal[s])
                            /\ last.run = s => last.type \in alarms
  BY DEF PulseInv
<1>6. IncidentStep(q, e)
  OBVIOUS
<1>7. CASE e.type \in HealthEvents
  <2>1. latest = [run |-> r, type |-> e.type]
    BY <1>7 DEF LastAfter
  <2>2. latest.run = r /\ latest.type = e.type
    BY <2>1
  <2>3. e.type \in alarms <=> StatusIn(after[r]) = "degraded"
    BY <1>3, <1>6, <1>7, StatusTypes DEF IncidentStep, HealthEvents, ReleaseEvents
  <2> HIDE DEF after, latest, q
  <2> QED
    BY <2>2, <2>3 DEF PulseInv, after, latest
<1>8. CASE e.type \notin HealthEvents
  <2>1. latest = last
    BY <1>8 DEF LastAfter
  <2>2. StatusIn(q) = "degraded" => StatusIn(after[r]) = "degraded"
    BY <1>3, <1>6, <1>8, StatusTypes DEF IncidentStep, HealthEvents, ReleaseEvents
  <2>3. StatusIn(after[r]) = "degraded" /\ AlertedIn(after[r]) =>
           StatusIn(q) = "degraded" /\ AlertedIn(q)
    BY <1>3, <1>4, <1>6, <1>8, StatusTypes
       DEF IncidentStep, HealthEvents, ReleaseEvents, AlarmEvents
  <2>4. \A s \in Runs : StatusIn(journal[s]) = "degraded" => StatusIn(after[s]) = "degraded"
    <3> HIDE DEF after
    <3> QED
      BY <1>1, <2>2
  <2>5. \A s \in Runs : StatusIn(after[s]) = "degraded" /\ AlertedIn(after[s]) =>
           StatusIn(journal[s]) = "degraded" /\ AlertedIn(journal[s])
    <3> HIDE DEF after
    <3> QED
      BY <1>1, <2>3
  <2> HIDE DEF after, latest
  <2>6. last.type \in alarms => last.run \in Runs /\ StatusIn(after[last.run]) = "degraded"
    BY <1>5, <2>4
  <2>7. \A s \in Runs : StatusIn(after[s]) = "degraded" /\ AlertedIn(after[s]) /\ last.run = s
           => last.type \in alarms
    BY <1>5, <2>5
  <2>8. PulseInv(after, last)
    BY <2>6, <2>7 DEF PulseInv
  <2> QED
    BY <2>1, <2>8 DEF after, latest
<1> QED
  BY <1>7, <1>8

LEMMA AfterHistories ==
    ASSUME NEW journal, NEW last, JournalTypes(journal, last),
           NEW r \in Runs, NEW e \in Events, NamesPolicyOf(r, e),
           Histories(journal, last),
           IncidentStep(journal[r], e), PolicyStep(r, journal[r], e)
    PROVE  Histories(After(journal, r, e), LastAfter(last, r, e))
<1>1. PulseInv(After(journal, r, e), LastAfter(last, r, e))
  BY AfterPulse DEF Histories
<1>2. journal[r] \in Seq(Events) /\ IncidentInv(journal[r]) /\ PolicyInv(r, journal[r])
  BY DEF JournalTypes, Histories
<1>3. IncidentInv(Append(journal[r], e)) /\ PolicyInv(r, Append(journal[r], e))
  BY <1>2, IncidentAppend, PolicyAppend
<1>4. /\ After(journal, r, e)[r] = Append(journal[r], e)
      /\ \A s \in Runs \ {r} : After(journal, r, e)[s] = journal[s]
  BY AfterTypes
<1> QED
  BY <1>1, <1>3, <1>4 DEF Histories

-----------------------------------------------------------------------------
(***************************************************************************)
(* Recording one, two or three events                                      *)
(***************************************************************************)
Logged(r, events) == [log EXCEPT ![r] = @ \o events]

LEMMA RecordNothing ==
    ASSUME log \in [Runs -> Seq(Events)], NEW r \in Runs
    PROVE  Logged(r, <<>>) = log /\ PulseAfter(r, <<>>) = pulse
<1>1. log[r] \in Seq(Events)
  OBVIOUS
<1>2. log[r] \o <<>> = log[r]
  BY <1>1, ConcatEmptySeq
<1>3. Marks(<<>>, HealthEvents) = {}
  BY DEF Marks
<1> QED
  BY <1>2, <1>3 DEF Logged, PulseAfter

LEMMA RecordMore ==
    ASSUME log \in [Runs -> Seq(Events)], NEW r \in Runs,
           NEW s \in Seq(Events), NEW e \in Events
    PROVE  /\ Logged(r, Append(s, e)) = After(Logged(r, s), r, e)
           /\ PulseAfter(r, Append(s, e)) = LastAfter(PulseAfter(r, s), r, e)
<1>1. log[r] \in Seq(Events)
  OBVIOUS
<1>2. log[r] \o Append(s, e) = Append(log[r] \o s, e)
  BY <1>1
<1>3. Logged(r, Append(s, e)) = After(Logged(r, s), r, e)
  BY <1>2 DEF Logged, After
<1>4. /\ e.type \in HealthEvents =>
           /\ Marks(Append(s, e), HealthEvents) = Marks(s, HealthEvents) \union {Len(s) + 1}
           /\ LastMark(Append(s, e), HealthEvents) = e.type
      /\ e.type \notin HealthEvents =>
           /\ Marks(Append(s, e), HealthEvents) = Marks(s, HealthEvents)
           /\ Marks(s, HealthEvents) # {} =>
                LastMark(Append(s, e), HealthEvents) = LastMark(s, HealthEvents)
  BY MarksAppend
<1>5. CASE e.type \in HealthEvents
  BY <1>3, <1>4, <1>5 DEF PulseAfter, LastAfter
<1>6. CASE e.type \notin HealthEvents
  BY <1>3, <1>4, <1>6 DEF PulseAfter, LastAfter
<1> QED
  BY <1>5, <1>6

LEMMA RecordUnfolds ==
    ASSUME log \in [Runs -> Seq(Events)], NEW r \in Runs,
           NEW a \in Events, NEW b \in Events, NEW c \in Events
    PROVE  LET log1 == After(log, r, a)
               log2 == After(log1, r, b)
               last1 == LastAfter(pulse, r, a)
               last2 == LastAfter(last1, r, b)
           IN  /\ Record(r, <<a>>) => log' = log1 /\ pulse' = last1
               /\ Record(r, <<a, b>>) => log' = log2 /\ pulse' = last2
               /\ Record(r, <<a, b, c>>) =>
                    log' = After(log2, r, c) /\ pulse' = LastAfter(last2, r, c)
<1>1. /\ <<>> \in Seq(Events) /\ <<a>> \in Seq(Events) /\ <<a, b>> \in Seq(Events)
      /\ Append(<<>>, a) = <<a>> /\ Append(<<a>>, b) = <<a, b>>
      /\ Append(<<a, b>>, c) = <<a, b, c>>
  <2>1. <<>> \in Seq(Events) /\ <<a>> \in Seq(Events) /\ <<a, b>> \in Seq(Events)
    OBVIOUS
  <2>2. Append(<<>>, a) = <<a>>
    OBVIOUS
  <2>3. Append(<<a>>, b) = <<a, b>>
    <3> DEFINE s == Append(<<a>>, b)
               t == <<a, b>>
    <3>1. s \in Seq(Events) /\ Len(s) = 2 /\ s[1] = a /\ s[2] = b
      BY <2>1
    <3>2. t \in Seq(Events) /\ Len(t) = 2 /\ t[1] = a /\ t[2] = b
      BY <2>1
    <3> HIDE DEF s, t
    <3>3. \A i \in 1..Len(s) : s[i] = t[i]
      BY <3>1, <3>2
    <3>4. s = t
      BY <3>1, <3>2, <3>3, SeqEqual
    <3> QED
      BY <3>4 DEF s, t
  <2>4. Append(<<a, b>>, c) = <<a, b, c>>
    <3> DEFINE s == Append(<<a, b>>, c)
               t == <<a, b, c>>
    <3>1. s \in Seq(Events) /\ Len(s) = 3 /\ s[1] = a /\ s[2] = b /\ s[3] = c
      BY <2>1
    <3>2. t \in Seq(Events) /\ Len(t) = 3 /\ t[1] = a /\ t[2] = b /\ t[3] = c
      OBVIOUS
    <3> HIDE DEF s, t
    <3>3. \A i \in 1..Len(s) : s[i] = t[i]
      BY <3>1, <3>2
    <3>4. s = t
      BY <3>1, <3>2, <3>3, SeqEqual
    <3> QED
      BY <3>4 DEF s, t
  <2> QED
    BY <2>1, <2>2, <2>3, <2>4
<1>2. \A s \in Seq(Events), e \in Events :
        /\ Logged(r, Append(s, e)) = After(Logged(r, s), r, e)
        /\ PulseAfter(r, Append(s, e)) = LastAfter(PulseAfter(r, s), r, e)
  BY RecordMore, Zenon
<1>3. Logged(r, <<a>>) = After(log, r, a) /\ PulseAfter(r, <<a>>) = LastAfter(pulse, r, a)
  BY <1>1, <1>2, RecordNothing, Zenon
<1>4. /\ Logged(r, <<a, b>>) = After(Logged(r, <<a>>), r, b)
      /\ PulseAfter(r, <<a, b>>) = LastAfter(PulseAfter(r, <<a>>), r, b)
  BY <1>1, <1>2, Zenon
<1>5. /\ Logged(r, <<a, b, c>>) = After(Logged(r, <<a, b>>), r, c)
      /\ PulseAfter(r, <<a, b, c>>) = LastAfter(PulseAfter(r, <<a, b>>), r, c)
  BY <1>1, <1>2, Zenon
<1>6. \A s : Record(r, s) => log' = Logged(r, s) /\ pulse' = PulseAfter(r, s)
  BY DEF Record, Logged
<1> QED
  BY <1>3, <1>4, <1>5, <1>6

\* Journals only grow, so queries return everything of the earlier ones.
LEMMA ShortBefore ==
    ASSUME NEW journal, NEW last, JournalTypes(journal, last),
           NEW r \in Runs, NEW e \in Events
    PROVE  \A s \in Runs : Len(journal[s]) <= Len(After(journal, r, e)[s])
<1>1. journal \in [Runs -> Seq(Events)]
  BY DEF JournalTypes
<1>2. ASSUME NEW s \in Runs
      PROVE  Len(journal[s]) <= Len(After(journal, r, e)[s])
  <2>1. journal[s] \in Seq(Events)
    BY <1>1
  <2>2. Len(Append(journal[s], e)) = Len(journal[s]) + 1 /\ Len(journal[s]) \in Nat
    BY <2>1, AppendFacts
  <2>3. After(journal, r, e)[s] = IF s = r THEN Append(journal[s], e) ELSE journal[s]
    BY <1>1 DEF After
  <2> QED
    BY <2>2, <2>3
<1> QED
  BY <1>2

LEMMA RecordOne ==
    ASSUME TypeInv, NEW r \in Runs, NEW e \in Events, NamesPolicyOf(r, e), Record(r, <<e>>)
    PROVE  /\ JournalTypes(log', pulse')
           /\ log'[r] = Append(log[r], e) /\ log[r] \in Seq(Events)
           /\ \A s \in Runs \ {r} : log'[s] = log[s]
           /\ Short' => Short
           /\ Histories(log, pulse) /\ IncidentStep(log[r], e) /\ PolicyStep(r, log[r], e)
                => Histories(log', pulse')
<1>1. JournalTypes(log, pulse) /\ log \in [Runs -> Seq(Events)]
  BY DEF TypeInv, JournalTypes
<1>2. log' = After(log, r, e) /\ pulse' = LastAfter(pulse, r, e)
  BY <1>1, RecordUnfolds
<1>3. /\ JournalTypes(After(log, r, e), LastAfter(pulse, r, e))
      /\ After(log, r, e)[r] = Append(log[r], e)
      /\ \A s \in Runs \ {r} : After(log, r, e)[s] = log[s]
  BY <1>1, AfterTypes
<1>4. \A s \in Runs : Len(log[s]) <= Len(log'[s]) /\ Len(log[s]) \in Nat /\ Len(log'[s]) \in Nat
  <2>1. log' \in [Runs -> Seq(Events)]
    BY <1>2, <1>3 DEF JournalTypes
  <2> QED
    BY <1>1, <1>2, <2>1, ShortBefore
<1>5. Short' => Short
  BY <1>4, RecoveryAssumption DEF Short
<1>6. Histories(log, pulse) /\ IncidentStep(log[r], e) /\ PolicyStep(r, log[r], e)
        => Histories(After(log, r, e), LastAfter(pulse, r, e))
  BY <1>1, AfterHistories
<1> QED
  BY <1>1, <1>2, <1>3, <1>5, <1>6

\* The same for an event that says nothing of a proposal.
LEMMA AfterPlain ==
    ASSUME NEW journal, NEW last, JournalTypes(journal, last),
           NEW r \in Runs, NEW e \in Events, e.type \notin PolicyMarks
    PROVE  LET after == After(journal, r, e)
               latest == LastAfter(last, r, e)
           IN  /\ JournalTypes(after, latest)
               /\ after[r] = Append(journal[r], e)
               /\ \A s \in Runs \ {r} : after[s] = journal[s]
               /\ \A s \in Runs : Len(journal[s]) <= Len(after[s]) /\ Len(journal[s]) \in Nat
               /\ Histories(journal, last) /\ IncidentStep(journal[r], e)
                    => Histories(after, latest)
<1>1. NamesPolicyOf(r, e) /\ PolicyStep(r, journal[r], e)
  BY DEF NamesPolicyOf, PolicyStep, PolicyMarks, Decisions
<1>2. \A s \in Runs : Len(journal[s]) \in Nat
  BY DEF JournalTypes
<1> QED
  BY <1>1, <1>2, AfterTypes, AfterHistories, ShortBefore

LEMMA RecordTwo ==
    ASSUME TypeInv, NEW r \in Runs, NEW a \in Events, NEW b \in Events,
           {a.type, b.type} \intersect PolicyMarks = {}, Record(r, <<a, b>>)
    PROVE  /\ JournalTypes(log', pulse')
           /\ log'[r] = Append(Append(log[r], a), b) /\ log[r] \in Seq(Events)
           /\ \A s \in Runs \ {r} : log'[s] = log[s]
           /\ Short' => Short
           /\ Histories(log, pulse) /\ IncidentStep(log[r], a)
                /\ IncidentStep(Append(log[r], a), b) => Histories(log', pulse')
<1> DEFINE log1 == After(log, r, a)
           last1 == LastAfter(pulse, r, a)
<1>1. JournalTypes(log, pulse) /\ log \in [Runs -> Seq(Events)]
  BY DEF TypeInv, JournalTypes
<1>2. log' = After(log1, r, b) /\ pulse' = LastAfter(last1, r, b)
  BY <1>1, RecordUnfolds
<1>3. /\ JournalTypes(log1, last1)
      /\ log1[r] = Append(log[r], a)
      /\ \A s \in Runs \ {r} : log1[s] = log[s]
      /\ \A s \in Runs : Len(log[s]) <= Len(log1[s]) /\ Len(log[s]) \in Nat
      /\ Histories(log, pulse) /\ IncidentStep(log[r], a) => Histories(log1, last1)
  BY <1>1, AfterPlain
<1> HIDE DEF log1, last1
<1>. DEFINE log2 == After(log1, r, b)
            last2 == LastAfter(last1, r, b)
<1>7. /\ JournalTypes(log2, last2)
      /\ log2[r] = Append(log1[r], b)
      /\ \A s \in Runs \ {r} : log2[s] = log1[s]
      /\ \A s \in Runs : Len(log1[s]) <= Len(log2[s]) /\ Len(log1[s]) \in Nat
      /\ Histories(log1, last1) /\ IncidentStep(log1[r], b) => Histories(log2, last2)
  BY <1>3, AfterPlain
<1> HIDE DEF log2, last2
<1>4. /\ JournalTypes(log', pulse')
      /\ log'[r] = Append(log1[r], b)
      /\ \A s \in Runs \ {r} : log'[s] = log1[s]
      /\ \A s \in Runs : Len(log1[s]) <= Len(log'[s]) /\ Len(log1[s]) \in Nat
      /\ Histories(log1, last1) /\ IncidentStep(log1[r], b) => Histories(log', pulse')
  <2>1. log' = log2 /\ pulse' = last2
    BY <1>2 DEF log2, last2
  <2> QED
    BY <1>7, <2>1, Zenon
<1>5. \A s \in Runs : Len(log'[s]) \in Nat
  BY <1>4 DEF JournalTypes
<1>6. Short' => Short
  <2>1. \A s \in Runs : /\ Len(log[s]) <= Len(log1[s]) /\ Len(log[s]) \in Nat
                        /\ Len(log1[s]) <= Len(log'[s]) /\ Len(log1[s]) \in Nat
    BY <1>3, <1>4, Zenon
  <2>2. \A s \in Runs : Len(log[s]) <= Len(log'[s])
    BY <2>1, <1>5
  <2> QED
    BY <2>1, <2>2, <1>5, RecoveryAssumption DEF Short
<1> QED
  BY <1>1, <1>3, <1>4, <1>6

LEMMA RecordThree ==
    ASSUME TypeInv, NEW r \in Runs, NEW a \in Events, NEW b \in Events, NEW c \in Events,
           {a.type, b.type, c.type} \intersect PolicyMarks = {}, Record(r, <<a, b, c>>)
    PROVE  /\ JournalTypes(log', pulse')
           /\ Short' => Short
           /\ Histories(log, pulse) /\ IncidentStep(log[r], a)
                /\ IncidentStep(Append(log[r], a), b)
                /\ IncidentStep(Append(Append(log[r], a), b), c) => Histories(log', pulse')
<1> DEFINE log1 == After(log, r, a)
           last1 == LastAfter(pulse, r, a)
           log2 == After(log1, r, b)
           last2 == LastAfter(last1, r, b)
<1>1. JournalTypes(log, pulse) /\ log \in [Runs -> Seq(Events)]
  BY DEF TypeInv, JournalTypes
<1>2. log' = After(log2, r, c) /\ pulse' = LastAfter(last2, r, c)
  BY <1>1, RecordUnfolds
<1>3. /\ JournalTypes(log1, last1)
      /\ log1[r] = Append(log[r], a)
      /\ \A s \in Runs : Len(log[s]) <= Len(log1[s]) /\ Len(log[s]) \in Nat
      /\ Histories(log, pulse) /\ IncidentStep(log[r], a) => Histories(log1, last1)
  BY <1>1, AfterPlain
<1>4. /\ JournalTypes(log2, last2)
      /\ log2[r] = Append(log1[r], b)
      /\ \A s \in Runs : Len(log1[s]) <= Len(log2[s]) /\ Len(log1[s]) \in Nat
      /\ Histories(log1, last1) /\ IncidentStep(log1[r], b) => Histories(log2, last2)
  <2> HIDE DEF log1, last1
  <2> QED
    BY <1>3, AfterPlain
<1> HIDE DEF log1, last1, log2, last2
<1>5. /\ JournalTypes(log', pulse')
      /\ \A s \in Runs : Len(log2[s]) <= Len(log'[s]) /\ Len(log2[s]) \in Nat
      /\ Histories(log2, last2) /\ IncidentStep(log2[r], c) => Histories(log', pulse')
  BY <1>2, <1>4, AfterPlain
<1>6. \A s \in Runs : Len(log'[s]) \in Nat
  BY <1>5 DEF JournalTypes
<1>7. Short' => Short
  <2>1. \A s \in Runs : /\ Len(log[s]) <= Len(log1[s]) /\ Len(log[s]) \in Nat
                        /\ Len(log1[s]) <= Len(log2[s]) /\ Len(log1[s]) \in Nat
                        /\ Len(log2[s]) <= Len(log'[s]) /\ Len(log2[s]) \in Nat
    BY <1>3, <1>4, <1>5, Zenon
  <2>2. \A s \in Runs : Len(log[s]) <= Len(log'[s])
    BY <2>1, <1>6
  <2> QED
    BY <2>1, <2>2, <1>6, RecoveryAssumption DEF Short
<1> QED
  BY <1>3, <1>4, <1>5, <1>7

-----------------------------------------------------------------------------
(***************************************************************************)
(* The operations                                                          *)
(***************************************************************************)
LEMMA EventFacts ==
    ASSUME NEW type \in EventTypes, NEW p \in Policies \union {NoPolicy}
    PROVE  /\ Event(type) \in Events /\ Event(type).type = type
           /\ About(type, p) \in Events /\ About(type, p).type = type
           /\ About(type, p).policy = p
BY DEF Event, About, Events, FullCoverage

LEMMA OpFacts ==
    ASSUME NEW step \in Ops, NEW r \in Runs \union {NoRun}, NEW p \in Policies \union {NoPolicy}
    PROVE  /\ OpAt(step, r, p) \in Operations /\ OpAt(step, r, p).step = step
           /\ OpAt(step, r, p).run = r /\ OpAt(step, r, p).policy = p
           /\ NoOp \in Operations /\ NoOp.step = "none"
BY DEF OpAt, NoOp, Operations, Ops, FullCoverage, Debtors

\* The operation that goes on to its next step.
LEMMA ThenFacts ==
    ASSUME TypeInv, NEW step \in Ops, Then(step)
    PROVE  /\ op' \in Operations /\ op'.step = step
           /\ op'.run = op.run /\ op'.policy = op.policy
BY DEF TypeInv, Then, Operations

LEMMA ViewFacts ==
    ASSUME TypeInv, Short, NEW r \in Runs
    PROVE  View(r) = log[r] /\ Status(r) = StatusIn(log[r])
BY DEF Short, View, Status

LEMMA RecordPlain ==
    ASSUME IInv, NEW r \in Runs, NEW e \in Events, e.type \notin PolicyMarks,
           Record(r, <<e>>)
    PROVE  /\ JournalTypes(log', pulse')
           /\ log'[r] = Append(log[r], e) /\ log[r] \in Seq(Events)
           /\ \A s \in Runs \ {r} : log'[s] = log[s]
           /\ Short' => /\ Short /\ HistoryInv
                        /\ IncidentStep(log[r], e) => Histories(log', pulse')
<1>1. NamesPolicyOf(r, e) /\ PolicyStep(r, log[r], e) /\ TypeInv
  BY DEF NamesPolicyOf, PolicyStep, PolicyMarks, Decisions, IInv
<1> QED
  BY <1>1, RecordOne DEF IInv, HistoryInv

LEMMA StartDeliveryInv ==
    ASSUME IInv, NEW r \in Runs, StartDelivery(r)
    PROVE  IInv'
<1> DEFINE a == Event("run.started")
           b == Event("policy.inherited")
<1>1. /\ a \in Events /\ b \in Events /\ a.type = "run.started" /\ b.type = "policy.inherited"
  BY EventFacts DEF EventTypes, StatusOf
<1>2. TypeInv
  BY DEF IInv
<1>3. /\ op' \in Operations /\ op'.step = "deliver" /\ op'.run = r
      /\ balance' = balance /\ crashes' = crashes
  BY OpFacts DEF StartDelivery, Ops
<1>4. Record(r, <<a>>) \/ Record(r, <<a, b>>)
  BY DEF StartDelivery
<1>5. a.type \notin PolicyMarks /\ {a.type, b.type} \intersect PolicyMarks = {}
  BY <1>1 DEF PolicyMarks
<1>6. Status(r) = "queued"
  BY DEF StartDelivery
<1> HIDE DEF a, b
<1>7. CASE Record(r, <<a>>)
  <2>1. /\ JournalTypes(log', pulse')
        /\ log'[r] = Append(log[r], a) /\ log[r] \in Seq(Events)
        /\ Short' => /\ Short /\ HistoryInv
                     /\ IncidentStep(log[r], a) => Histories(log', pulse')
    BY <1>1, <1>5, <1>7, RecordPlain
  <2>2. TypeInv'
    BY <1>2, <1>3, <2>1 DEF TypeInv
  <2>3. ASSUME Short'
        PROVE  HistoryInv'
    <3>1. StatusIn(log[r]) = "queued"
      BY <1>2, <1>6, <2>1, <2>3, ViewFacts
    <3>2. Histories(log', pulse')
      BY <1>1, <2>1, <2>3, <3>1 DEF IncidentStep
    <3>3. StatusIn(log'[r]) = "running"
      BY <1>1, <2>1, StatusAppend, StatusTypes
    <3> QED
      BY <1>3, <3>2, <3>3 DEF HistoryInv, OperationInv
  <2> QED
    BY <2>2, <2>3 DEF IInv
<1>8. CASE Record(r, <<a, b>>)
  <2>1. /\ JournalTypes(log', pulse')
        /\ log'[r] = Append(Append(log[r], a), b) /\ log[r] \in Seq(Events)
        /\ Short' => Short
        /\ Histories(log, pulse) /\ IncidentStep(log[r], a)
             /\ IncidentStep(Append(log[r], a), b) => Histories(log', pulse')
    BY <1>1, <1>2, <1>5, <1>8, RecordTwo
  <2>2. TypeInv'
    BY <1>2, <1>3, <2>1 DEF TypeInv
  <2>3. ASSUME Short'
        PROVE  HistoryInv'
    <3>1. StatusIn(log[r]) = "queued" /\ HistoryInv
      BY <1>2, <1>6, <2>1, <2>3, ViewFacts DEF IInv
    <3>2. IncidentStep(log[r], a) /\ IncidentStep(Append(log[r], a), b)
      BY <1>1, <3>1, StatusTypes DEF IncidentStep, ReleaseEvents, HealthEvents
    <3>3. Append(log[r], a) \in Seq(Events)
      BY <1>1, <2>1, AppendFacts
    <3>4. StatusIn(Append(log[r], a)) = "running"
      BY <1>1, <2>1, StatusAppend, StatusTypes
    <3>5. StatusIn(log'[r]) = "running"
      BY <1>1, <2>1, <3>3, <3>4, StatusAppend, StatusTypes
    <3> QED
      BY <1>3, <2>1, <3>1, <3>2, <3>5 DEF HistoryInv, OperationInv
  <2> QED
    BY <2>2, <2>3 DEF IInv
<1> QED
  BY <1>4, <1>7, <1>8

\* An operation that records one event of a run, which may be recorded of it, and
\* goes on with the run or returns.
LEMMA PlainInv ==
    ASSUME IInv, NEW r \in Runs, NEW e \in Events, e.type \notin PolicyMarks,
           Record(r, <<e>>),
           balance' \in [Accounts -> Nat], crashes' \in 0..MaxCrashes,
           op' \in Operations, op'.step # "none" => op'.run = r,
           op'.step \notin {"deliver", "propose", "activate"},
           op'.step \in {"alert", "restore"} =>
              e.type \in DOMAIN StatusOf /\ StatusOf[e.type] = "degraded",
           Short /\ HistoryInv => IncidentStep(log[r], e)
    PROVE  IInv'
<1>1. /\ JournalTypes(log', pulse')
      /\ log'[r] = Append(log[r], e) /\ log[r] \in Seq(Events)
      /\ Short' => /\ Short /\ HistoryInv
                   /\ IncidentStep(log[r], e) => Histories(log', pulse')
  BY RecordPlain
<1>2. TypeInv'
  BY <1>1 DEF TypeInv
<1>3. ASSUME Short'
      PROVE  HistoryInv'
  <2>1. Histories(log', pulse')
    BY <1>1, <1>3
  <2>2. op'.step \in {"alert", "restore"} => StatusIn(log'[op'.run]) = "degraded"
    <3> SUFFICES ASSUME op'.step \in {"alert", "restore"}
                 PROVE  StatusIn(log'[op'.run]) = "degraded"
      OBVIOUS
    <3>1. op'.run = r /\ e.type \in DOMAIN StatusOf /\ StatusOf[e.type] = "degraded"
      OBVIOUS
    <3>2. StatusIn(Append(log[r], e)) = "degraded"
      BY <1>1, <3>1, StatusAppend
    <3>3. log'[op'.run] = Append(log[r], e)
      BY <1>1, <3>1
    <3> QED
      BY <3>2, <3>3
  <2> QED
    BY <2>1, <2>2 DEF HistoryInv, OperationInv
<1> QED
  BY <1>2, <1>3 DEF IInv

\* What holds of the types whenever a thread holds the run lock.
LEMMA RunningFacts ==
    ASSUME IInv
    PROVE  /\ TypeInv /\ op \in Operations
           /\ balance \in [Accounts -> Nat] /\ crashes \in 0..MaxCrashes
           /\ op.step # "none" => op.run \in Runs
           /\ Short /\ HistoryInv => OperationInv
BY DEF IInv, TypeInv, HistoryInv

LEMMA EndDeliveryInv ==
    ASSUME IInv, EndDelivery
    PROVE  IInv'
<1> DEFINE a == Event("deployment.succeeded")
           b == Event("monitor.healthy")
           c == Event("run.completed")
           f == Event("run.failed")
           r == op.run
<1>1. /\ a \in Events /\ a.type = "deployment.succeeded"
      /\ b \in Events /\ b.type = "monitor.healthy"
      /\ c \in Events /\ c.type = "run.completed"
      /\ f \in Events /\ f.type = "run.failed"
  BY EventFacts DEF EventTypes, StatusOf, ReleaseEvents, HealthEvents
<1>2. /\ r \in Runs /\ op.step = "deliver" /\ TypeInv
      /\ op' \in Operations /\ op'.step = "none"
      /\ balance' \in [Accounts -> Nat] /\ crashes' \in 0..MaxCrashes
  BY RunningFacts, OpFacts DEF EndDelivery, At, Return, Ops
<1>3. Short /\ HistoryInv => StatusIn(log[r]) = "running"
  BY <1>2, RunningFacts DEF OperationInv
<1>4. Record(r, <<a, b, c>>) \/ Record(r, <<f>>)
  BY DEF EndDelivery
<1>5. {a.type, b.type, c.type} \intersect PolicyMarks = {} /\ f.type \notin PolicyMarks
  BY <1>1 DEF PolicyMarks
<1> HIDE DEF a, b, c, f, r
<1>6. CASE Record(r, <<f>>)
  <2>1. Short /\ HistoryInv => IncidentStep(log[r], f)
    BY <1>1, <1>3 DEF IncidentStep
  <2> QED
    BY <1>1, <1>2, <1>5, <1>6, <2>1, PlainInv
<1>7. CASE Record(r, <<a, b, c>>)
  <2>1. /\ JournalTypes(log', pulse')
        /\ Short' => Short
        /\ Histories(log, pulse) /\ IncidentStep(log[r], a)
             /\ IncidentStep(Append(log[r], a), b)
             /\ IncidentStep(Append(Append(log[r], a), b), c) => Histories(log', pulse')
    BY <1>1, <1>2, <1>5, <1>7, RecordThree
  <2>2. TypeInv'
    BY <1>2, <2>1 DEF TypeInv
  <2>3. ASSUME Short'
        PROVE  HistoryInv'
    <3> DEFINE q1 == Append(log[r], a)
               q2 == Append(q1, b)
    <3>1. Short /\ HistoryInv /\ Histories(log, pulse)
      BY <2>1, <2>3 DEF IInv, HistoryInv
    <3>2. log[r] \in Seq(Events)
      BY <1>2 DEF TypeInv, JournalTypes
    <3>3. q1 \in Seq(Events)
      BY <1>1, <3>2, AppendFacts
    <3>4. StatusIn(q1) = "running" /\ VersionIn(q1) = "stable"
      BY <1>1, <1>3, <3>1, <3>2, StatusAppend, VersionAppend, StatusTypes DEF ReleaseEvents
    <3> HIDE DEF q1
    <3>5. StatusIn(q2) = "running" /\ VersionIn(q2) = "stable"
      BY <1>1, <3>3, <3>4, StatusAppend, VersionAppend, StatusTypes DEF ReleaseEvents
    <3> HIDE DEF q2
    <3>6. IncidentStep(log[r], a) /\ IncidentStep(q1, b) /\ IncidentStep(q2, c)
      BY <1>1, <1>3, <3>1, <3>4, <3>5 DEF IncidentStep
    <3>7. Histories(log', pulse')
      BY <2>1, <3>1, <3>6 DEF q1, q2
    <3> QED
      BY <1>2, <3>7 DEF HistoryInv, OperationInv
  <2> QED
    BY <2>2, <2>3 DEF IInv
<1> QED
  BY <1>4, <1>6, <1>7

LEMMA InjectRegressionInv ==
    ASSUME IInv, NEW r \in Runs, InjectRegression(r)
    PROVE  IInv'
<1> DEFINE e == Event("regression.injected")
<1>1. e \in Events /\ e.type = "regression.injected" /\ e.type \notin PolicyMarks
  BY EventFacts, StatusTypes DEF EventTypes, PolicyMarks
<1>2. /\ op' \in Operations /\ op'.step = "alert" /\ op'.run = r
      /\ balance' \in [Accounts -> Nat] /\ crashes' \in 0..MaxCrashes
  BY RunningFacts, OpFacts DEF InjectRegression, Ops
<1>3. Record(r, <<e>>) /\ Status(r) \in {"completed", "recovered"}
  BY DEF InjectRegression
<1> HIDE DEF e
<1>4. Short /\ HistoryInv => IncidentStep(log[r], e)
  BY <1>1, <1>3, RunningFacts, ViewFacts DEF IncidentStep
<1> QED
  BY <1>1, <1>2, <1>3, <1>4, StatusTypes, PlainInv

LEMMA StartRollbackInv ==
    ASSUME IInv, NEW r \in Runs, StartRollback(r)
    PROVE  IInv'
<1> DEFINE e == Event("rollback.started")
<1>1. e \in Events /\ e.type = "rollback.started" /\ e.type \notin PolicyMarks
  BY EventFacts, StatusTypes DEF EventTypes, PolicyMarks
<1>2. /\ op' \in Operations /\ op'.step = "restore" /\ op'.run = r
      /\ balance' \in [Accounts -> Nat] /\ crashes' \in 0..MaxCrashes
  BY RunningFacts, OpFacts DEF StartRollback, Ops
<1>3. Record(r, <<e>>) /\ Status(r) = "degraded"
  BY DEF StartRollback
<1> HIDE DEF e
<1>4. Short /\ HistoryInv => IncidentStep(log[r], e)
  BY <1>1, <1>3, RunningFacts, ViewFacts DEF IncidentStep
<1> QED
  BY <1>1, <1>2, <1>3, <1>4, StatusTypes, PlainInv

LEMMA RaiseAlertInv ==
    ASSUME IInv, RaiseAlert
    PROVE  IInv'
<1> DEFINE e == Event("monitor.alert")
<1>1. e \in Events /\ e.type = "monitor.alert" /\ e.type \notin PolicyMarks
  BY EventFacts, StatusTypes DEF EventTypes, PolicyMarks
<1>2. /\ op.run \in Runs /\ op.step = "alert"
      /\ op' \in Operations /\ op'.step = "charge" /\ op'.run = op.run
      /\ balance' \in [Accounts -> Nat] /\ crashes' \in 0..MaxCrashes
  BY RunningFacts, ThenFacts DEF RaiseAlert, At, Ops
<1>3. Record(op.run, <<e>>)
  BY DEF RaiseAlert
<1> HIDE DEF e
<1>4. Short /\ HistoryInv => IncidentStep(log[op.run], e)
  BY <1>1, <1>2, RunningFacts DEF IncidentStep, OperationInv
<1> QED
  BY <1>1, <1>2, <1>3, <1>4, PlainInv

LEMMA RestoreInv ==
    ASSUME IInv, Restore
    PROVE  IInv'
<1> DEFINE e == Event("rollback.completed")
<1>1. e \in Events /\ e.type = "rollback.completed" /\ e.type \notin PolicyMarks
  BY EventFacts, StatusTypes DEF EventTypes, PolicyMarks
<1>2. /\ op.run \in Runs /\ op.step = "restore"
      /\ op' \in Operations /\ op'.step = "analyze" /\ op'.run = op.run
      /\ balance' \in [Accounts -> Nat] /\ crashes' \in 0..MaxCrashes
  BY RunningFacts, ThenFacts DEF Restore, At, Ops
<1>3. Record(op.run, <<e>>)
  BY DEF Restore
<1> HIDE DEF e
<1>4. Short /\ HistoryInv => IncidentStep(log[op.run], e)
  BY <1>1, <1>2, RunningFacts DEF IncidentStep, OperationInv
<1> QED
  BY <1>1, <1>2, <1>3, <1>4, PlainInv

LEMMA AnalyzeInv ==
    ASSUME IInv, Analyze
    PROVE  IInv'
<1> DEFINE e == Event("incident.analyzed")
<1>1. e \in Events /\ e.type = "incident.analyzed" /\ e.type \notin PolicyMarks
  BY EventFacts DEF EventTypes, PolicyMarks
<1>2. /\ op.run \in Runs /\ op.step = "analyze"
      /\ op' \in Operations /\ op'.step = "benchmark" /\ op'.run = op.run
      /\ balance' \in [Accounts -> Nat] /\ crashes' \in 0..MaxCrashes
  BY RunningFacts, ThenFacts DEF Analyze, At, Ops
<1>3. Record(op.run, <<e>>)
  BY DEF Analyze
<1> HIDE DEF e
<1>4. IncidentStep(log[op.run], e)
  BY <1>1, StatusTypes DEF IncidentStep, ReleaseEvents, HealthEvents
<1> QED
  BY <1>1, <1>2, <1>3, <1>4, PlainInv

LEMMA ScheduleInv ==
    ASSUME IInv, Schedule
    PROVE  IInv'
<1> DEFINE e == About("self_improvement.scheduled", op.policy)
<1>1. /\ op.run \in Runs /\ op.policy \in Policies \union {NoPolicy}
      /\ op' \in Operations /\ op'.step = "none"
      /\ balance' \in [Accounts -> Nat] /\ crashes' \in 0..MaxCrashes
  BY RunningFacts, OpFacts DEF Schedule, At, Ops, Return, Operations
<1>2. e \in Events /\ e.type = "self_improvement.scheduled"
  BY <1>1, EventFacts DEF EventTypes
<1>3. Record(op.run, <<e>>)
  BY DEF Schedule
<1> HIDE DEF e
<1>4. e.type \notin PolicyMarks
  BY <1>2 DEF PolicyMarks
<1>5. IncidentStep(log[op.run], e)
  BY <1>2, StatusTypes DEF IncidentStep, ReleaseEvents, HealthEvents
<1> QED
  BY <1>1, <1>2, <1>3, <1>4, <1>5, PlainInv

\* An operation that records nothing.
LEMMA QuietInv ==
    ASSUME IInv, log' = log, pulse' = pulse,
           balance' \in [Accounts -> Nat], crashes' \in 0..MaxCrashes,
           op' \in Operations, op'.step # "none" => op'.run \in Runs,
           op'.step \notin {"deliver", "alert", "restore", "propose", "activate"}
    PROVE  IInv'
<1>1. TypeInv'
  BY DEF IInv, TypeInv
<1>2. Short' => Short
  BY DEF Short
<1>3. Short' => HistoryInv'
  BY <1>2 DEF IInv, HistoryInv, OperationInv
<1> QED
  BY <1>1, <1>3 DEF IInv

\* Nobody is charged more than it has.
LEMMA ChargeTypes ==
    ASSUME IInv, ChargeLiability
    PROVE  balance' \in [Accounts -> Nat]
<1> DEFINE debtor == Debtors[op.debtor]
<1>1. op.debtor \in 1..4
  BY DEF IInv, TypeInv, Operations, Debtors
<1>2. debtor \in ToSet(Debtors)
  BY <1>1 DEF Debtors, ToSet
<1>3. debtor \in Accounts /\ "incident-escrow" \in Accounts /\ Liabilities[debtor] \in Nat
  BY <1>2, RecoveryAssumption DEF Accounts
<1>4. balance \in [Accounts -> Int] /\ Solvent(balance, Accounts)
  BY DEF IInv, TypeInv, Solvent
<1>5. balance' = CappedDebit(balance, debtor, "incident-escrow", Liabilities[debtor], TRUE)
  BY DEF ChargeLiability
<1> HIDE DEF debtor
<1>6. TRUE \in BOOLEAN
  OBVIOUS
<1>7. balance' \in [Accounts -> Int] /\ Solvent(balance', Accounts)
  BY <1>3, <1>4, <1>5, <1>6, CappedDebitSolvent
<1> QED
  BY <1>7 DEF Solvent

LEMMA ChargeLiabilityInv ==
    ASSUME IInv, ChargeLiability
    PROVE  IInv'
<1> DEFINE debtor == Debtors[op.debtor]
           charged == Charge(balance, debtor, Liabilities[debtor], TRUE)
           type == IF charged = 0 THEN "ledger.debit_skipped" ELSE "ledger.transaction"
           e == Event(type)
           r == op.run
<1>1. /\ e \in Events /\ e.type \in {"ledger.transaction", "ledger.debit_skipped"}
      /\ e.type \notin PolicyMarks
  <2>1. type \in {"ledger.transaction", "ledger.debit_skipped"}
    OBVIOUS
  <2> HIDE DEF type
  <2> QED
    BY <2>1, EventFacts DEF EventTypes, PolicyMarks
<1>2. r \in Runs /\ op.step = "charge" /\ op \in Operations
  BY RunningFacts DEF ChargeLiability, At
<1>3. /\ balance' \in [Accounts -> Nat] /\ crashes' \in 0..MaxCrashes
      /\ crashes \in 0..MaxCrashes
  BY ChargeTypes, RunningFacts DEF ChargeLiability
<1>4. op' \in Operations /\ op'.step \in {"none", "charge"} /\ (op'.step # "none" => op'.run = r)
  <2>1. CASE op.debtor = Len(Debtors)
    BY <2>1, OpFacts DEF ChargeLiability, Return, Ops
  <2>2. CASE op.debtor # Len(Debtors)
    <3>1. op' = [op EXCEPT !.debtor = @ + 1]
      BY <2>2 DEF ChargeLiability
    <3>2. op.debtor \in 1..4 /\ Len(Debtors) = 4
      BY <1>2 DEF Operations, Debtors
    <3>3. op.debtor + 1 \in 1..Len(Debtors)
      BY <2>2, <3>2
    <3> QED
      BY <1>2, <3>1, <3>3 DEF Operations
  <2> QED
    BY <2>1, <2>2
<1>5. Record(r, <<e>>)
  BY DEF ChargeLiability
<1> HIDE DEF e, r
<1>6. IncidentStep(log[r], e)
  BY <1>1, StatusTypes DEF IncidentStep, ReleaseEvents, HealthEvents
<1> QED
  BY <1>1, <1>2, <1>3, <1>4, <1>5, <1>6, PlainInv

LEMMA CrashInv ==
    ASSUME IInv, Crash
    PROVE  IInv'
<1> DEFINE e == Event("run.failed")
           r == op.run
<1>1. e \in Events /\ e.type = "run.failed" /\ e.type \notin PolicyMarks
  BY EventFacts, StatusTypes DEF EventTypes, PolicyMarks
<1>2. /\ balance' \in [Accounts -> Nat]
      /\ op' \in Operations /\ op'.step = "none"
  BY RunningFacts, OpFacts DEF Crash, Return, Ops
<1>3. crashes' \in 0..MaxCrashes
  <2>1. crashes \in 0..MaxCrashes /\ crashes < MaxCrashes /\ crashes' = crashes + 1
        /\ MaxCrashes \in Nat
    BY RunningFacts, RecoveryAssumption DEF Crash
  <2> QED
    BY <2>1
<1> HIDE DEF e, r
<1>4. CASE At("deliver")
  <2>1. Record(r, <<e>>) /\ r \in Runs /\ op.step = "deliver"
    BY <1>4, RunningFacts DEF Crash, At, e, r
  <2>2. Short /\ HistoryInv => IncidentStep(log[r], e)
    BY <1>1, <2>1, RunningFacts DEF OperationInv, IncidentStep, r
  <2> QED
    BY <1>1, <1>2, <1>3, <2>1, <2>2, PlainInv
<1>5. CASE ~At("deliver")
  BY <1>2, <1>3, <1>5, QuietInv DEF Crash, NoRecord
<1> QED
  BY <1>4, <1>5

-----------------------------------------------------------------------------
(***************************************************************************)
(* The operations on proposals                                             *)
(***************************************************************************)
LEMMA ViewTypes ==
    ASSUME TypeInv, NEW r \in Runs
    PROVE  View(r) \in Seq(Events)
<1>1. log[r] \in Seq(Events) /\ QueryLimit \in Nat
  BY RecoveryAssumption DEF TypeInv, JournalTypes
<1>2. CASE Len(log[r]) <= QueryLimit
  BY <1>1, <1>2 DEF View
<1>3. CASE ~(Len(log[r]) <= QueryLimit)
  <2>1. \A i \in 1..QueryLimit : log[r][i] \in Events
    BY <1>1, <1>3
  <2>2. SubSeq(log[r], 1, QueryLimit) \in Seq(Events)
    BY <1>1, <2>1, SubSeqProperties
  <2> QED
    BY <1>3, <2>2 DEF View
<1> QED
  BY <1>2, <1>3

LEMMA BenchmarkInv ==
    ASSUME IInv, Benchmark
    PROVE  IInv'
<1> DEFINE e == Event("benchmark.completed")
           r == op.run
<1>1. e \in Events /\ e.type = "benchmark.completed"
  BY EventFacts DEF EventTypes
<1>2. r \in Runs /\ op \in Operations /\ TypeInv
  BY RunningFacts DEF Benchmark, At
<1>3. NextProposal(r) = <<r, 1 + Count(View(r), "policy.proposed")>>
      /\ Count(View(r), "policy.proposed") \in Nat
  <2>1. View(r) \in Seq(Events)
    BY <1>2, ViewTypes
  <2> QED
    BY <1>1, <2>1, CountAppend DEF NextProposal
<1>4. NextProposal(r) \in Policies /\ NextProposal(r)[1] = r
  BY <1>2, <1>3 DEF Policies
<1>5. /\ op' \in Operations /\ op'.step = "propose" /\ op'.run = r
      /\ op'.policy = NextProposal(r)
  <2>1. op' = [op EXCEPT !.step = "propose", !.policy = NextProposal(r),
                         !.baseline = ActiveCoverage]
    BY DEF Benchmark
  <2>2. ActiveCoverage \in {0, FullCoverage} /\ "propose" \in Ops
    BY DEF ActiveCoverage, Ops
  <2> HIDE DEF r
  <2> QED
    BY <1>2, <1>4, <2>1, <2>2 DEF Operations, r
<1>6. Record(r, <<e>>) /\ balance' = balance /\ crashes' = crashes
  BY DEF Benchmark
<1> HIDE DEF e, r
<1>7. e.type \notin PolicyMarks
  BY <1>1 DEF PolicyMarks
<1>8. /\ JournalTypes(log', pulse')
      /\ log'[r] = Append(log[r], e) /\ log[r] \in Seq(Events)
      /\ Short' => /\ Short /\ HistoryInv
                   /\ IncidentStep(log[r], e) => Histories(log', pulse')
  BY <1>1, <1>2, <1>6, <1>7, RecordPlain
<1>9. TypeInv'
  BY <1>2, <1>4, <1>5, <1>6, <1>8 DEF TypeInv
<1>10. ASSUME Short'
       PROVE  HistoryInv'
  <2>1. IncidentStep(log[r], e)
    BY <1>1, StatusTypes DEF IncidentStep, ReleaseEvents, HealthEvents
  <2>2. Count(log'[r], "policy.proposed") = Count(View(r), "policy.proposed")
    <3>1. View(r) = log[r]
      BY <1>2, <1>8, <1>10, ViewFacts
    <3>2. Count(Append(log[r], e), "policy.proposed") = Count(log[r], "policy.proposed")
      BY <1>1, <1>8, CountAppend
    <3> QED
      BY <1>8, <3>1, <3>2
  <2>3. op'.policy = <<op'.run, 1 + Count(log'[op'.run], "policy.proposed")>>
    BY <1>3, <1>5, <2>2
  <2> QED
    BY <1>5, <1>8, <1>10, <2>1, <2>3 DEF HistoryInv, OperationInv
<1> QED
  BY <1>9, <1>10 DEF IInv

\* An operation that records an event of a proposal.
LEMMA RecordPolicy ==
    ASSUME IInv, NEW r \in Runs, NEW e \in Events, e.type \in PolicyMarks,
           e.policy \in Policies, e.policy[1] = r, Record(r, <<e>>),
           Short /\ HistoryInv => PolicyStep(r, log[r], e)
    PROVE  /\ JournalTypes(log', pulse')
           /\ log'[r] = Append(log[r], e) /\ log[r] \in Seq(Events)
           /\ Short' => Short /\ HistoryInv /\ Histories(log', pulse')
<1>1. NamesPolicyOf(r, e) /\ TypeInv
  BY DEF NamesPolicyOf, IInv
<1>2. IncidentStep(log[r], e)
  BY StatusTypes DEF IncidentStep, PolicyMarks, ReleaseEvents, HealthEvents
<1> QED
  BY <1>1, <1>2, RecordOne DEF IInv, HistoryInv

LEMMA ProposeInv ==
    ASSUME IInv, Propose
    PROVE  IInv'
<1> DEFINE e == [About("policy.proposed", op.policy) EXCEPT !.baseline = op.baseline]
           r == op.run
<1>1. /\ r \in Runs /\ op.policy \in Policies /\ op.policy[1] = r
      /\ op.baseline \in {0, FullCoverage} /\ op.step = "propose"
  BY DEF IInv, TypeInv, Operations, Propose, At
<1>2. e \in Events /\ e.type = "policy.proposed" /\ e.policy = op.policy
  BY <1>1 DEF About, Event, Events, EventTypes, PolicyMarks
<1>3. /\ op' \in Operations /\ op'.step = "none"
      /\ balance' \in [Accounts -> Nat] /\ crashes' \in 0..MaxCrashes
  BY RunningFacts, OpFacts DEF Propose, Return, Ops
<1>4. Record(r, <<e>>)
  BY DEF Propose
<1> HIDE DEF e, r
<1>5. Short /\ HistoryInv => PolicyStep(r, log[r], e)
  BY <1>1, <1>2 DEF HistoryInv, OperationInv, PolicyStep, Decisions, r
<1>6. /\ JournalTypes(log', pulse')
      /\ Short' => Histories(log', pulse')
  BY <1>1, <1>2, <1>4, <1>5, RecordPolicy DEF PolicyMarks
<1> QED
  BY <1>3, <1>6 DEF IInv, TypeInv, HistoryInv, OperationInv

\* The events of a proposal, as marks of the run it came from.
LEMMA OfKindIs ==
    ASSUME NEW p, NEW type \in PolicyMarks
    PROVE  OfKind(p, type) = {k \in Marks(log[p[1]], {type}) : log[p[1]][k].policy = p}
BY DEF OfKind, HistoryOf, Marks

LEMMA ProposalFacts ==
    ASSUME TypeInv, NEW p \in Proposals
    PROVE  /\ p \in Policies /\ p[1] \in Runs /\ log[p[1]] \in Seq(Events)
           /\ OfKind(p, "policy.proposed") # {}
<1>0. PICK r \in Runs : \E k \in Marks(log[r], {"policy.proposed"}) : p = log[r][k].policy
  BY DEF Proposals, PoliciesWith
<1>1. PICK k \in Marks(log[r], {"policy.proposed"}) : p = log[r][k].policy
  BY <1>0
<1>2. k \in Marks(log[r], PolicyMarks)
  BY <1>1 DEF Marks, PolicyMarks
<1>3. p \in Policies /\ p[1] = r /\ log \in [Runs -> Seq(Events)]
  BY <1>1, <1>2 DEF TypeInv, JournalTypes
<1>4. k \in OfKind(p, "policy.proposed")
  BY <1>1, <1>3, OfKindIs DEF PolicyMarks
<1> QED
  BY <1>3, <1>4

\* An undecided proposal has no decision, and no activation.
LEMMA UndecidedFacts ==
    ASSUME TypeInv, HistoryInv, NEW p \in Proposals, Undecided(p)
    PROVE  /\ \A j \in Marks(log[p[1]], Decisions) : log[p[1]][j].policy # p
           /\ \A j \in Marks(log[p[1]], {"policy.activated"}) : log[p[1]][j].policy # p
<1> DEFINE q == log[p[1]]
           m == Max(HistoryOf(p))
<1>1. p[1] \in Runs /\ q \in Seq(Events) /\ OfKind(p, "policy.proposed") # {}
  BY ProposalFacts
<1>2. /\ HistoryOf(p) \subseteq Marks(q, PolicyMarks) /\ Marks(q, PolicyMarks) \subseteq 1..Len(q)
      /\ Len(q) \in Nat /\ IsFiniteSet(HistoryOf(p)) /\ HistoryOf(p) # {}
  <2>1. /\ Marks(q, PolicyMarks) \subseteq 1..Len(q) /\ Len(q) \in Nat
        /\ IsFiniteSet(Marks(q, PolicyMarks))
    BY <1>1, MarksFacts
  <2>2. HistoryOf(p) \subseteq Marks(q, PolicyMarks)
    BY DEF HistoryOf
  <2>3. IsFiniteSet(HistoryOf(p))
    BY <2>1, <2>2, FS_Subset
  <2>4. HistoryOf(p) # {}
    BY <1>1 DEF OfKind
  <2> QED
    BY <2>1, <2>2, <2>3, <2>4
<1>3. HistoryOf(p) \in SUBSET Int
  BY <1>2
<1>4. m \in HistoryOf(p) /\ \A k \in HistoryOf(p) : k <= m
  BY <1>2, <1>3, MaxOfNumbers
<1>5. q[m].type = "policy.proposed" /\ q[m].policy = p
  BY <1>4 DEF Undecided, PolicyStatus, HistoryOf
<1> HIDE DEF m
<1>6. m \in Marks(q, {"policy.proposed"}) /\ m \in Nat
  BY <1>2, <1>4, <1>5 DEF Marks
<1>7. PolicyInv(p[1], q)
  BY <1>1 DEF HistoryInv, Histories
<1>8. ASSUME NEW j \in Marks(q, Decisions), q[j].policy = p
      PROVE  FALSE
  <2>1. PICK i \in Marks(q, {"policy.proposed"}) : i < j /\ q[i].policy = q[j].policy
    BY <1>7, <1>8 DEF PolicyInv
  <2>2. i = m
    BY <1>5, <1>6, <1>7, <1>8, <2>1 DEF PolicyInv, OncePerPolicy
  <2>3. j \in HistoryOf(p)
    BY <1>8 DEF HistoryOf, Marks, Decisions, PolicyMarks
  <2>4. j <= m /\ j \in Nat
    BY <1>2, <1>4, <2>3
  <2> QED
    BY <1>6, <2>1, <2>2, <2>4
<1>9. ASSUME NEW k \in Marks(q, {"policy.activated"}), q[k].policy = p
      PROVE  FALSE
  <2>1. PICK j \in Marks(q, {"policy.approved"}) : q[j].policy = q[k].policy
    BY <1>7, <1>9 DEF PolicyInv
  <2>2. j \in Marks(q, Decisions)
    BY <2>1 DEF Marks, Decisions
  <2> QED
    BY <1>8, <1>9, <2>1, <2>2
<1> QED
  BY <1>8, <1>9

LEMMA ApproveInv ==
    ASSUME IInv, NEW p \in Proposals, Approve(p)
    PROVE  IInv'
<1> DEFINE e == About("policy.approved", p)
           r == p[1]
<1>1. p \in Policies /\ r \in Runs /\ TypeInv /\ OfKind(p, "policy.proposed") # {}
  BY ProposalFacts DEF IInv
<1>2. e \in Events /\ e.type = "policy.approved" /\ e.policy = p
  BY <1>1, EventFacts DEF EventTypes, PolicyMarks
<1>3. /\ op' \in Operations /\ op'.step = "activate" /\ op'.run = r /\ op'.policy = p
      /\ balance' \in [Accounts -> Nat] /\ crashes' \in 0..MaxCrashes
  BY <1>1, RunningFacts, OpFacts DEF Approve, Ops
<1>4. Record(r, <<e>>) /\ Undecided(p) /\ BeatsBaseline(p)
  BY DEF Approve
<1> HIDE DEF e
<1>5. Short /\ HistoryInv => PolicyStep(r, log[r], e)
  <2> SUFFICES ASSUME Short, HistoryInv
               PROVE  PolicyStep(r, log[r], e)
    OBVIOUS
  <2>1. \A j \in Marks(log[r], Decisions) : log[r][j].policy # p
    BY <1>1, <1>4, UndecidedFacts
  <2>2. PICK i \in Marks(log[r], {"policy.proposed"}) :
           log[r][i].policy = p /\ FullCoverage > log[r][i].baseline
    <3> DEFINE S == OfKind(p, "policy.proposed")
    <3>1. S = {k \in Marks(log[r], {"policy.proposed"}) : log[r][k].policy = p}
      BY OfKindIs DEF PolicyMarks
    <3>2. IsFiniteSet(S) /\ S \in SUBSET Int
      <4>1. /\ IsFiniteSet(Marks(log[r], {"policy.proposed"}))
            /\ Marks(log[r], {"policy.proposed"}) \subseteq 1..Len(log[r])
            /\ Len(log[r]) \in Nat
        BY <1>1, ProposalFacts, MarksFacts
      <4> HIDE DEF S
      <4> QED
        BY <3>1, <4>1, FS_Subset
    <3>3. Max(S) \in S
      BY <1>1, <3>2, MaxOfNumbers
    <3>4. FullCoverage > log[r][Max(S)].baseline
      BY <1>4 DEF BeatsBaseline, ProposalOf
    <3> QED
      BY <3>1, <3>3, <3>4
  <2> QED
    BY <1>2, <2>1, <2>2 DEF PolicyStep
<1>6. /\ JournalTypes(log', pulse')
      /\ log'[r] = Append(log[r], e) /\ log[r] \in Seq(Events)
      /\ Short' => Short /\ HistoryInv /\ Histories(log', pulse')
  BY <1>1, <1>2, <1>4, <1>5, RecordPolicy DEF PolicyMarks
<1>7. TypeInv'
  BY <1>1, <1>3, <1>6 DEF TypeInv
<1>8. ASSUME Short'
      PROVE  HistoryInv'
  <2> DEFINE a == Append(log[r], e)
             n == Len(log[r]) + 1
  <2>1. a[n] = e /\ \A k \in DOMAIN log[r] : a[k] = log[r][k]
    BY <1>2, <1>6, AppendFacts
  <2>2. n \in Marks(a, {"policy.approved"})
    BY <1>2, <1>6, MarksAppend
  <2>3. Marks(a, {"policy.activated"}) = Marks(log[r], {"policy.activated"})
        /\ Marks(log[r], {"policy.activated"}) \subseteq DOMAIN log[r]
    BY <1>2, <1>6, MarksAppend, MarksFacts
  <2>4. \A j \in Marks(log[r], {"policy.activated"}) : log[r][j].policy # p
    BY <1>1, <1>4, <1>6, <1>8, UndecidedFacts
  <2>5. log'[p[1]] = a
    BY <1>6
  <2> HIDE DEF a, n
  <2>6. n \in OfKind(p, "policy.approved")'
    BY <1>2, <2>1, <2>2, <2>5 DEF OfKind, HistoryOf, Marks, PolicyMarks
  <2>7. OfKind(p, "policy.activated")' = {}
    BY <2>1, <2>3, <2>4, <2>5 DEF OfKind, HistoryOf, Marks, PolicyMarks
  <2>8. OperationInv'
    BY <1>3, <2>6, <2>7 DEF OperationInv, OfKind, HistoryOf
  <2> QED
    BY <1>6, <1>8, <2>8 DEF HistoryInv
<1> QED
  BY <1>7, <1>8 DEF IInv

LEMMA RejectInv ==
    ASSUME IInv, NEW p \in Proposals, Reject(p)
    PROVE  IInv'
<1> DEFINE e == About("policy.rejected", p)
           r == p[1]
<1>1. p \in Policies /\ r \in Runs /\ TypeInv /\ OfKind(p, "policy.proposed") # {}
  BY ProposalFacts DEF IInv
<1>2. e \in Events /\ e.type = "policy.rejected" /\ e.policy = p
  BY <1>1, EventFacts DEF EventTypes, PolicyMarks
<1>3. /\ op' = op /\ op.step = "none"
      /\ balance' \in [Accounts -> Nat] /\ crashes' \in 0..MaxCrashes
  BY RunningFacts DEF Reject, LockFree
<1>4. Record(r, <<e>>) /\ Undecided(p)
  BY DEF Reject
<1> HIDE DEF e
<1>5. Short /\ HistoryInv => PolicyStep(r, log[r], e)
  <2> SUFFICES ASSUME Short, HistoryInv
               PROVE  PolicyStep(r, log[r], e)
    OBVIOUS
  <2>1. \A j \in Marks(log[r], Decisions) : log[r][j].policy # p
    BY <1>1, <1>4, UndecidedFacts
  <2>2. \E i \in Marks(log[r], {"policy.proposed"}) : log[r][i].policy = p
    BY <1>1, OfKindIs DEF PolicyMarks
  <2> QED
    BY <1>2, <2>1, <2>2 DEF PolicyStep
<1>6. /\ JournalTypes(log', pulse')
      /\ Short' => Histories(log', pulse')
  BY <1>1, <1>2, <1>4, <1>5, RecordPolicy DEF PolicyMarks
<1> QED
  BY <1>1, <1>3, <1>6 DEF IInv, TypeInv, HistoryInv, OperationInv

LEMMA ActivateInv ==
    ASSUME IInv, Activate
    PROVE  IInv'
<1> DEFINE p == op.policy
           r == op.run
           e == About("policy.activated", p)
<1>1. r \in Runs /\ p \in Policies /\ p[1] = r /\ op.step = "activate"
  BY DEF IInv, TypeInv, Activate, At
<1>2. e \in Events /\ e.type = "policy.activated" /\ e.policy = p
  BY <1>1, EventFacts DEF EventTypes, PolicyMarks
<1>3. /\ op' \in Operations /\ op'.step = "schedule" /\ op'.run = r
      /\ balance' \in [Accounts -> Nat] /\ crashes' \in 0..MaxCrashes
  BY RunningFacts, ThenFacts DEF Activate, Ops
<1>4. Record(r, <<e>>)
  BY DEF Activate
<1> HIDE DEF e
<1>5. Short /\ HistoryInv => PolicyStep(r, log[r], e)
  <2> SUFFICES ASSUME Short, HistoryInv
               PROVE  PolicyStep(r, log[r], e)
    OBVIOUS
  <2>1. OfKind(p, "policy.approved") # {} /\ OfKind(p, "policy.activated") = {}
    BY <1>1 DEF HistoryInv, OperationInv
  <2> HIDE DEF p, r
  <2>2. \E i \in Marks(log[r], {"policy.approved"}) : log[r][i].policy = p
    <3>1. OfKind(p, "policy.approved") =
            {k \in Marks(log[r], {"policy.approved"}) : log[r][k].policy = p}
      BY <1>1, OfKindIs DEF PolicyMarks
    <3> QED
      BY <2>1, <3>1
  <2>3. \A j \in Marks(log[r], {"policy.activated"}) : log[r][j].policy # p
    <3>1. OfKind(p, "policy.activated") =
            {k \in Marks(log[r], {"policy.activated"}) : log[r][k].policy = p}
      BY <1>1, OfKindIs DEF PolicyMarks
    <3> QED
      BY <2>1, <3>1
  <2> QED
    BY <1>2, <2>2, <2>3 DEF PolicyStep, Decisions
<1>6. /\ JournalTypes(log', pulse')
      /\ Short' => Histories(log', pulse')
  BY <1>1, <1>2, <1>4, <1>5, RecordPolicy DEF PolicyMarks
<1> HIDE DEF p, r
<1> QED
  BY <1>1, <1>3, <1>6 DEF IInv, TypeInv, HistoryInv, OperationInv

-----------------------------------------------------------------------------
(***************************************************************************)
(* The invariant                                                           *)
(***************************************************************************)
LEMMA InitInv ==
    ASSUME Init
    PROVE  IInv
<1>1. /\ op \in Operations /\ op.step = "none"
      /\ log = [r \in Runs |-> <<>>] /\ pulse = [run |-> NoRun, type |-> "none"]
      /\ balance = Balances /\ crashes = 0
  BY OpFacts DEF Init, Ops
<1>2. \A T : Marks(<<>>, T) = {}
  BY DEF Marks
<1>3. \A r \in Runs : log[r] = <<>>
  BY <1>1
<1>4. JournalTypes(log, pulse)
  BY <1>1, <1>2, <1>3 DEF JournalTypes
<1>5. TypeInv
  BY <1>1, <1>4, RecoveryAssumption DEF TypeInv
<1>6. \A type : Count(<<>>, type) = 0
  BY <1>2, FS_EmptySet DEF Count
<1>7. StatusIn(<<>>) = "queued"
  BY <1>2 DEF StatusIn
<1>8. IncidentInv(<<>>)
  BY <1>6, <1>7 DEF IncidentInv
<1>9. \A r \in Runs : PolicyInv(r, <<>>)
  BY <1>2 DEF PolicyInv, OncePerPolicy
<1>10. PulseInv(log, pulse)
  BY <1>1, <1>3, <1>7 DEF PulseInv
<1>11. HistoryInv
  BY <1>1, <1>3, <1>8, <1>9, <1>10 DEF HistoryInv, Histories, OperationInv
<1> QED
  BY <1>5, <1>11 DEF IInv

LEMMA NextInv ==
    ASSUME IInv, [Next]_vars
    PROVE  IInv'
<1>1. CASE \E r \in Runs : StartDelivery(r) \/ InjectRegression(r) \/ StartRollback(r)
  BY <1>1, StartDeliveryInv, InjectRegressionInv, StartRollbackInv
<1>2. CASE \E p \in Proposals : Approve(p) \/ Reject(p)
  BY <1>2, ApproveInv, RejectInv
<1>3. CASE Continue
  BY <1>3, EndDeliveryInv, RaiseAlertInv, ChargeLiabilityInv, RestoreInv, AnalyzeInv,
     BenchmarkInv, ProposeInv, ActivateInv, ScheduleInv DEF Continue
<1>4. CASE Crash
  BY <1>4, CrashInv
<1>5. CASE UNCHANGED vars
  <2>1. /\ log' = log /\ pulse' = pulse /\ balance' = balance /\ op' = op
        /\ crashes' = crashes
    BY <1>5 DEF vars
  <2>2. TypeInv' <=> TypeInv
    BY <2>1 DEF TypeInv
  <2>3. Short' <=> Short
    BY <2>1 DEF Short
  <2>4. HistoryInv' <=> HistoryInv
    BY <2>1 DEF HistoryInv, OperationInv, OfKind, HistoryOf
  <2> QED
    BY <2>2, <2>3, <2>4 DEF IInv
<1> QED
  BY <1>1, <1>2, <1>3, <1>4, <1>5 DEF Next

\* The invariant holds in every state.
THEOREM Invariance == Spec => []IInv
<1>1. Init => IInv
  BY InitInv
<1>2. IInv /\ [Next]_vars => IInv'
  BY NextInv
<1> QED
  BY <1>1, <1>2, PTL DEF Spec

\* Every event of a proposal names the run the proposal came from, no account is
\* overdrawn, and the operation under way is one of the run lock's.
THEOREM TypeCorrect == Spec => []TypeOK
<1>1. IInv => TypeOK
  <2> SUFFICES ASSUME TypeInv
               PROVE  TypeOK
    BY DEF IInv
  <2>1. DOMAIN log = Runs
    BY DEF TypeInv, JournalTypes
  <2>2. ASSUME NEW r \in Runs, NEW k \in DOMAIN log[r]
        PROVE  /\ log[r][k].baseline \in {0, FullCoverage}
               /\ log[r][k].type \in PolicyMarks => log[r][k].policy[1] = r
    <3>1. log[r] \in Seq(Events)
      BY DEF TypeInv, JournalTypes
    <3>2. log[r][k] \in Events
      BY <2>2, <3>1
    <3>3. log[r][k].type \in PolicyMarks => k \in Marks(log[r], PolicyMarks)
      BY DEF Marks
    <3> QED
      BY <3>2, <3>3 DEF TypeInv, JournalTypes, Events
  <2> QED
    BY <2>1, <2>2 DEF TypeOK, TypeInv, Operations
<1> QED
  BY <1>1, Invariance, PTL

\* As long as queries return everything, a stable run is on its known-good
\* release, a degraded one is not, and a run has one incident to answer exactly
\* when it is degraded.
THEOREM StatusesAgree == Spec => [](Short => StatusMatchesVersion)
<1>1. IInv => (Short => StatusMatchesVersion)
  <2> SUFFICES ASSUME TypeInv, Short, HistoryInv, NEW r \in Runs
               PROVE  /\ Status(r) \in {"completed", "recovered"} => CurrentVersion(r) = "stable"
                      /\ Status(r) = "degraded" => CurrentVersion(r) = "bad"
                      /\ Count(log[r], "regression.injected")
                           = Count(log[r], "rollback.completed")
                               + IF Status(r) = "degraded" THEN 1 ELSE 0
    BY DEF IInv, StatusMatchesVersion
  <2>1. View(r) = log[r] /\ Status(r) = StatusIn(log[r])
    BY ViewFacts
  <2>2. CurrentVersion(r) = VersionIn(log[r])
    BY <2>1 DEF CurrentVersion
  <2> QED
    BY <2>1, <2>2 DEF HistoryInv, Histories, IncidentInv
<1> QED
  BY <1>1, Invariance, PTL

\* As long as queries return everything, a degraded pulse points to a degraded
\* run, and a degraded run whose alert was raised is not hidden behind its own
\* later events.
THEOREM PulseIsTrue == Spec => [](Short => PulseTellsIncidents)
<1>1. IInv => (Short => PulseTellsIncidents)
  <2> SUFFICES ASSUME TypeInv, Short, HistoryInv
               PROVE  PulseTellsIncidents
    BY DEF IInv
  <2>1. \A r \in Runs : Status(r) = StatusIn(log[r])
    BY ViewFacts
  <2>2. PulseInv(log, pulse)
    BY DEF HistoryInv, Histories
  <2> QED
    BY <2>1, <2>2 DEF PulseInv, PulseTellsIncidents, PulseIsDegraded
<1> QED
  BY <1>1, Invariance, PTL

\* As long as queries return everything, no proposal is decided twice, however a
\* crash cut its first decision short.
THEOREM DecidedOnce == Spec => [](Short => OneDecision)
<1>1. IInv => (Short => OneDecision)
  <2> SUFFICES ASSUME TypeInv, HistoryInv, NEW p \in Proposals,
                      NEW i \in HistoryOf(p), NEW j \in HistoryOf(p),
                      log[p[1]][i].type \in Decisions, log[p[1]][j].type \in Decisions
               PROVE  i = j
    BY DEF IInv, OneDecision
  <2>1. OncePerPolicy(log[p[1]], Decisions)
    BY ProposalFacts DEF HistoryInv, Histories, PolicyInv
  <2>2. i \in Marks(log[p[1]], Decisions) /\ j \in Marks(log[p[1]], Decisions)
    BY DEF HistoryOf, Marks
  <2>3. log[p[1]][i].policy = p /\ log[p[1]][j].policy = p
    BY DEF HistoryOf
  <2> QED
    BY <2>1, <2>2, <2>3 DEF OncePerPolicy
<1> QED
  BY <1>1, Invariance, PTL

\* A proposal is recorded in one place.
LEMMA ProposedOnce ==
    ASSUME TypeInv, HistoryInv, NEW p \in Proposals
    PROVE  \E i : OfKind(p, "policy.proposed") = {i}
<1> DEFINE q == log[p[1]]
           S == OfKind(p, "policy.proposed")
<1>1. S = {k \in Marks(q, {"policy.proposed"}) : q[k].policy = p} /\ S # {}
  BY OfKindIs, ProposalFacts DEF PolicyMarks
<1>2. OncePerPolicy(q, {"policy.proposed"})
  BY ProposalFacts DEF HistoryInv, Histories, PolicyInv
<1> HIDE DEF S, q
<1>3. PICK i \in S : TRUE
  BY <1>1
<1>4. \A k \in S : k = i
  BY <1>1, <1>2, <1>3 DEF OncePerPolicy
<1>5. S = {i}
  BY <1>3, <1>4
<1> QED
  BY <1>5 DEF S

\* As long as queries return everything, no two proposals share an identifier.
THEOREM IdentifiersDistinct == Spec => [](Short => ProposalsDistinct)
<1>1. IInv => (Short => ProposalsDistinct)
  <2> SUFFICES ASSUME TypeInv, HistoryInv, NEW p \in Proposals
               PROVE  Cardinality(OfKind(p, "policy.proposed")) = 1
    BY DEF IInv, ProposalsDistinct
  <2>1. PICK i : OfKind(p, "policy.proposed") = {i}
    BY ProposedOnce
  <2>2. Cardinality({i}) = 1
    BY FS_Singleton, Zenon
  <2> QED
    BY <2>1, <2>2
<1> QED
  BY <1>1, Invariance, PTL

\* As long as queries return everything, controls are active only after their own
\* approval, of a proposal measured better than its baseline.
THEOREM ActivatedAfterApproval == Spec => [](Short => ActivationIsApproved)
<1>1. IInv => (Short => ActivationIsApproved)
  <2> SUFFICES ASSUME TypeInv, HistoryInv, NEW p \in ActivePolicies
               PROVE  /\ \E i, j, k \in HistoryOf(p) :
                            /\ HistoryOf(p) = {i, j, k} /\ i < j /\ j < k
                            /\ log[p[1]][i].type = "policy.proposed"
                            /\ log[p[1]][j].type = "policy.approved"
                            /\ log[p[1]][k].type = "policy.activated"
                      /\ FullCoverage > ProposalOf(p).baseline
    BY DEF IInv, ActivationIsApproved
  <2> DEFINE q == log[p[1]]
  <2>1. PICK r \in Runs : \E k \in Marks(log[r], {"policy.activated"}) : p = log[r][k].policy
    BY DEF ActivePolicies, PoliciesWith
  <2>2. PICK k \in Marks(log[r], {"policy.activated"}) : p = log[r][k].policy
    BY <2>1
  <2>3. k \in Marks(log[r], PolicyMarks)
    BY <2>2 DEF Marks, PolicyMarks
  <2>4. r = p[1] /\ log \in [Runs -> Seq(Events)]
    BY <2>2, <2>3 DEF TypeInv, JournalTypes
  <2>5. k \in Marks(q, {"policy.activated"}) /\ q[k].policy = p /\ q \in Seq(Events)
        /\ PolicyInv(p[1], q)
    BY <2>2, <2>4 DEF HistoryInv, Histories
  <2> HIDE DEF q
  <2>6. PICK j \in Marks(q, {"policy.approved"}) : j < k /\ q[j].policy = p
    BY <2>5 DEF PolicyInv
  <2>7. j \in Marks(q, Decisions) /\ q[j].type = "policy.approved"
    BY <2>6 DEF Marks, Decisions
  <2>8. PICK i \in Marks(q, {"policy.proposed"}) :
           i < j /\ q[i].policy = p /\ FullCoverage > q[i].baseline
    BY <2>5, <2>6, <2>7 DEF PolicyInv
  <2>9. /\ q[i].type = "policy.proposed" /\ q[k].type = "policy.activated"
        /\ HistoryOf(p) = {x \in Marks(q, PolicyMarks) : q[x].policy = p}
    BY <2>5, <2>8 DEF Marks, HistoryOf, q
  <2>10. i \in HistoryOf(p) /\ j \in HistoryOf(p) /\ k \in HistoryOf(p)
    BY <2>5, <2>6, <2>7, <2>8, <2>9 DEF Marks, PolicyMarks
  <2>11. ASSUME NEW x \in HistoryOf(p)
         PROVE  x \in {i, j, k}
    <3>1. q[x].policy = p /\ x \in DOMAIN q /\ q[x].type \in PolicyMarks
      BY <2>9, <2>11 DEF Marks
    <3>2. CASE q[x].type = "policy.proposed"
      <4>1. x \in Marks(q, {"policy.proposed"})
        BY <3>1, <3>2 DEF Marks
      <4> QED
        BY <2>5, <2>8, <3>1, <4>1 DEF PolicyInv, OncePerPolicy
    <3>3. CASE q[x].type \in Decisions
      <4>1. x \in Marks(q, Decisions)
        BY <3>1, <3>3 DEF Marks
      <4> QED
        BY <2>5, <2>6, <2>7, <3>1, <4>1 DEF PolicyInv, OncePerPolicy
    <3>4. CASE q[x].type = "policy.activated"
      <4>1. x \in Marks(q, {"policy.activated"})
        BY <3>1, <3>4 DEF Marks
      <4> QED
        BY <2>5, <3>1, <4>1 DEF PolicyInv, OncePerPolicy
    <3> QED
      BY <3>1, <3>2, <3>3, <3>4 DEF PolicyMarks, Decisions
  <2>12. HistoryOf(p) = {i, j, k}
    BY <2>10, <2>11
  <2>13. FullCoverage > ProposalOf(p).baseline
    <3>1. p \in Proposals
      BY <2>4, <2>8 DEF Proposals, PoliciesWith, q
    <3>2. PICK m : OfKind(p, "policy.proposed") = {m}
      BY <3>1, ProposedOnce
    <3>3. i \in OfKind(p, "policy.proposed")
      BY <2>9, <2>10 DEF OfKind, q
    <3>4. OfKind(p, "policy.proposed") = {i} /\ i \in Nat
      <4>1. i \in Nat
        BY <2>5, <2>8, MarksFacts
      <4> QED
        BY <3>2, <3>3, <4>1
    <3>5. Max({i}) = i
      BY <3>4, MaxIs
    <3> QED
      BY <2>8, <3>4, <3>5 DEF ProposalOf, q
  <2> QED
    BY <2>6, <2>7, <2>8, <2>9, <2>10, <2>12, <2>13 DEF q
<1> QED
  BY <1>1, Invariance, PTL
=============================================================================
