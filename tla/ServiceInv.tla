----------------------------- MODULE ServiceInv -----------------------------
(***************************************************************************)
(* Why a company is whole before anything is delivered: what a start has   *)
(* still to append is what the journal does not say, and nothing but the   *)
(* bootstrapping happens to the sheet until a run is started.              *)
(***************************************************************************)
EXTENDS Service

Delivering == {"seed created", "seed", "up"}

ServiceTypes ==
    /\ journal \in [Runs -> SUBSET EventTypes]
    /\ facts \in [BootFacts -> {0, 1}]
    /\ phase \in {"off", "boot"} \union Delivering
    /\ proc \in {"serving", "down", "recovering"}
    /\ DOMAIN job = DOMAIN NoJob
    /\ seeding \in BOOLEAN
    /\ crashes \in Nat

\* What is on the list is missing, and what is missing is on the list.
ScanInv == IF phase = "boot" THEN todo = Missing ELSE todo = {}

\* Nothing but a whole company has delivered, or delivers, anything.
WholeInv ==
    /\ phase \in Delivering => Whole
    /\ crashes > 0 => Whole
    /\ \A r \in Runs : journal[r] # {} => Whole

\* The sheet of a company that has started no run.
BootSheet ==
    [a \in Accounts |->
        IF a \in Agents THEN IF Known(GenesisFact(a)) THEN Genesis[a] ELSE 0 ELSE 0]

SheetInv == (\A r \in Runs : ~Started(r)) => balance = BootSheet

\* A process takes requests, or tasks, only when it is up, and whatever holds
\* the run lock delivers a run that was started.
ProcessInv ==
    /\ phase # "up" <=> proc = "down"
    /\ phase # "up" => tasks = {}
    /\ phase \notin {"seed", "up"} => job.step = "idle"
    /\ job.step # "idle" => job.run \in Runs /\ Started(job.run)

\* The demonstration is delivered over a new file and by a first process.
SeedInv ==
    /\ seeding => crashes = 0
    /\ phase \in {"seed created", "seed"} => seeding
    /\ phase = "boot" /\ seeding => \A r \in Runs : journal[r] = {}
    /\ phase = "seed created" => ~Started(SeedRun)

\* Until a process has died, reconciliation finds nothing to do.
FirstInv ==
    crashes = 0 /\ proc # "serving" =>
        /\ stranded = {}
        /\ proc = "recovering" => job.step = "idle"
        /\ \A r \in Runs : Interrupted(r) => job.run = r /\ job.step # "idle"

SInv ==
    /\ ServiceTypes
    /\ ScanInv /\ WholeInv /\ SheetInv /\ ProcessInv /\ SeedInv /\ FirstInv
=============================================================================
