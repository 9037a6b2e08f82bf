------------------------------ MODULE Service ------------------------------
(***************************************************************************)
(* A service from its first start on: the company is bootstrapped into an  *)
(* empty journal, a demonstration objective may be delivered before the    *)
(* first request, interrupted runs are reconciled, and only then are       *)
(* requests served (lifespan in backend/app/main.py, and the bootstrapping *)
(* of orchestrator.py).  Each of these steps is an append after which the  *)
(* process can die, or raise, which ends it just as well.                  *)
(*                                                                         *)
(* Delivery begins where the first bootstrapping is through; here it is    *)
(* what a started service does.                                            *)
(***************************************************************************)
EXTENDS Delivery, SequencesExt

CONSTANTS
    Profiles,       \* AGENT_PROFILES, in their order
    Seeds,          \* how many memories a profile seeds
    SeedDemo,       \* settings.seed_demo
    SeedRun,        \* SEED_RUN_ID
    MaxBootCrashes  \* bound: deaths in the bootstrapping

ASSUME ServiceAssumption ==
    /\ ToSet(Profiles) = Agents
    /\ Seeds \in Nat
    /\ SeedDemo \in BOOLEAN
    /\ SeedRun \in Runs
    /\ Genesis["treasury"] = 0
    /\ MaxBootCrashes \in Nat

VARIABLES
    facts,      \* [bootstrapping event -> how often the journal has it]
    phase,      \* how far a start has come
    todo,       \* bootstrapping events this start has still to append
    seeding,    \* this start delivers the demonstration objective
    bootCrashes

bootVars == <<facts, phase, todo, seeding, bootCrashes>>
svars == <<vars, bootVars>>

Fact(kind, a, i) == [kind |-> kind, agent |-> a, index |-> i]

\* What a profile needs, indexed in the order in which it is seen to.
GenesisFact(a) == Fact("genesis", a, Seeds + 1)

FactsOf(a) ==
    {Fact("registered", a, 0), GenesisFact(a)} \union {Fact("memory", a, i) : i \in 1..Seeds}

\* Everything _bootstrap_company sees to, one profile after the other.
BootFacts == UNION {FactsOf(a) : a \in Agents}

Place(f) ==
    (CHOOSE i \in DOMAIN Profiles : Profiles[i] = f.agent) * (Seeds + 2) + f.index

Known(f) == facts[f] > 0
Whole    == \A f \in BootFacts : Known(f)

\* The journal is a new file.
Empty == /\ \A f \in BootFacts : ~Known(f)
         /\ \A r \in Runs : journal[r] = {}

ServiceInit ==
    /\ journal = [r \in Runs |-> {}]
    /\ balance = [a \in Accounts |-> 0]
    /\ issued = 0
    /\ moved = [r \in Runs |-> [k \in Kinds |-> 0]]
    /\ version = [r \in Runs |-> 0]
    /\ proc = "down"
    /\ tasks = {}
    /\ job = NoJob
    /\ generated = [r \in Runs |-> 0]
    /\ stranded = {}
    /\ crashes = 0 /\ faults = 0 /\ redeliveries = 0
    /\ facts = [f \in BootFacts |-> 0]
    /\ phase = "off"
    /\ todo = {}
    /\ seeding = FALSE
    /\ bootCrashes = 0

-----------------------------------------------------------------------------
(* A start                                                                 *)

\* (a slip) an agent that is registered is taken to be complete.
MissingAgents == {f \in BootFacts : ~Known(Fact("registered", f.agent, 0))}

\* (a slip) genesis balances are looked for under another reason.
MissingOrGenesis == {f \in BootFacts : f.kind = "genesis" \/ ~Known(f)}

\* The scan of the journal: what it does not say yet.
Missing == {f \in BootFacts : ~Known(f)}

\* A process starts and reads the journal.  Only over a new file is it going to
\* deliver the demonstration.
Start ==
    /\ phase = "off"
    /\ phase' = "boot"
    /\ todo' = Missing
    /\ seeding' = (SeedDemo /\ Empty)
    /\ UNCHANGED <<vars, facts, bootCrashes>>

\* The next bootstrapping event; a genesis event issues the agent's balance.
Bootstrap ==
    /\ phase = "boot"
    /\ \E f \in todo :
         /\ \A g \in todo : Place(f) <= Place(g)
         /\ facts' = [facts EXCEPT ![f] = @ + 1]
         /\ balance' = IF f.kind = "genesis"
                       THEN Issue(balance, f.agent, Genesis[f.agent])
                       ELSE balance
         /\ todo' = todo \ {f}
    /\ UNCHANGED <<journal, issued, moved, version, proc, tasks, job, generated,
                   stranded, envVars, phase, seeding, bootCrashes>>

\* bootstrap_seeded_run runs the pipeline itself, within the start.
CreateSeed ==
    /\ phase = "boot" /\ todo = {} /\ seeding
    /\ Emit(SeedRun, {"objective.created"})
    /\ phase' = "seed created"
    /\ UNCHANGED <<version, proc, tasks, job, generated, stranded, envVars, facts,
                   todo, seeding, bootCrashes>>
    /\ NoPosting

StartSeed ==
    /\ phase = "seed created"
    /\ Emit(SeedRun, {"run.started"})
    /\ job' = JobAt(SeedRun, "fund")
    /\ phase' = "seed"
    /\ UNCHANGED <<version, proc, tasks, generated, stranded, envVars, facts, todo,
                   seeding, bootCrashes>>
    /\ NoPosting

\* The demonstration is over, delivered or not.
FinishSeed ==
    /\ phase = "seed" /\ At("idle")
    /\ phase' = "boot" /\ seeding' = FALSE
    /\ todo' = Missing
    /\ UNCHANGED <<vars, facts, bootCrashes>>

\* On to the reconciliation, which Delivery has.
Booted ==
    /\ phase = "boot" /\ todo = {} /\ ~seeding
    /\ phase' = "up"
    /\ Restart
    /\ UNCHANGED <<facts, todo, seeding, bootCrashes>>

\* The process dies while it bootstraps, when Delivery has not begun, or not
\* begun again.
BootCrash ==
    /\ phase = "boot"
    /\ bootCrashes < MaxBootCrashes
    /\ bootCrashes' = bootCrashes + 1
    /\ phase' = "off" /\ todo' = {} /\ seeding' = FALSE
    /\ UNCHANGED <<vars, facts>>

ServiceCrash ==
    /\ phase \in {"seed created", "seed", "up"}
    /\ crashes < MaxCrashes
    /\ crashes' = crashes + 1
    /\ proc' = "down"
    /\ tasks' = {} /\ job' = NoJob /\ stranded' = {}
    /\ phase' = "off" /\ todo' = {} /\ seeding' = FALSE
    /\ UNCHANGED <<journalVars, generated, faults, redeliveries, facts, bootCrashes>>

-----------------------------------------------------------------------------
(* The service around Delivery                                             *)

Booting == Start \/ Bootstrap \/ CreateSeed \/ StartSeed \/ FinishSeed \/ Booted

Reconciling == FinishRecovery \/ \E r \in Runs : ReconcileNext(r)

\* The demonstration has an identifier of its own; customers submit the rest.
Customers ==
    \/ \E r \in Runs \ {SeedRun} : CreateObjective(r) \/ CreateObjectiveRaises(r)
    \/ \E r \in Runs : Redeliver(r) \/ ExecuteRaises(r)
    \/ PipelineRaises

Quiet ==
    /\ proc = "serving" /\ At("idle") /\ tasks = {}
    /\ \A r \in Runs \ {SeedRun} : Created(r)
    /\ UNCHANGED svars

ServiceNext ==
    \/ Booting \/ BootCrash \/ ServiceCrash \/ Quiet
    \/ /\ Pipeline \/ (\E r \in Runs : Execute(r)) \/ Reconciling \/ Customers
       /\ UNCHANGED bootVars

\* As in Delivery; a start runs on, and the container restarts a dead process.
ServiceFairness ==
    /\ WF_svars(Booting)
    /\ WF_svars(Pipeline /\ UNCHANGED bootVars)
    /\ WF_svars(Reconciling /\ UNCHANGED bootVars)
    /\ \A r \in Runs : WF_svars(Execute(r) /\ UNCHANGED bootVars)

ServiceSpec == ServiceInit /\ [][ServiceNext]_svars
ServiceFairSpec == ServiceSpec /\ ServiceFairness

-----------------------------------------------------------------------------
(* Properties                                                              *)

\* Nothing is delivered, reconciled or served by a company that is incomplete,
\* or in which an agent was registered, taught a memory or given its genesis
\* balance twice, however often the bootstrapping was cut short and begun again;
\* and until something was delivered its sheet is the genesis sheet.
ServesWhole ==
    phase \in {"seed created", "seed", "up"} =>
        /\ \A f \in BootFacts : facts[f] = 1
        /\ (\A r \in Runs : ~Started(r)) => balance = Genesis

\* What a started service does is what Delivery describes: its initial state is
\* what bootstrapping leaves, and bootstrapping again changes nothing of it.
AsDelivery == INSTANCE Delivery WITH
    balance <- IF Whole THEN balance ELSE Genesis,
    proc    <- IF crashes = 0 THEN "serving" ELSE proc,
    tasks   <- IF phase = "seed created" THEN tasks \union {SeedRun} ELSE tasks

BootsIntoDelivery == AsDelivery!Spec
=============================================================================
