------------------------------- MODULE Pulse -------------------------------
(***************************************************************************)
(* The pulse daemon (src/pulse): one goroutine per job, which waits for a  *)
(* tick of the job's own ticker, verifies the job's commitment, asks the   *)
(* load gate and runs the command; one goroutine per service, which        *)
(* verifies, runs and restarts it.  Verification reads the anchor and the  *)
(* proof file one after the other, while AgentCommit may be writing them.  *)
(***************************************************************************)
EXTENDS AgentCommit

CONSTANTS
  Rapid,        \* tasks of the rapid-service domain; the others are services
  Gated,        \* jobs with a load ceiling
  MaxAttempts   \* restart-max-attempts of the services

ASSUME PulseAssumption ==
  /\ Rapid \subseteq Task
  /\ Gated \subseteq Job
  /\ MaxAttempts \in Nat \ {0}

VARIABLES
  main,       \* where main is
  cancelled,  \* was SIGINT or SIGTERM received?
  loaded,     \* the configuration as read when pulse started
  tick,       \* jobs with a tick in their ticker's channel
  proc        \* the goroutines

pulseVars == <<main, cancelled, loaded, tick, proc>>
vars == <<commitVars, pulseVars>>

NoProc == [pc |-> "end", root |-> NotInstalled, attempts |-> 0]

PulseInit ==
  /\ CommitInit
  /\ main = "off"
  /\ cancelled = FALSE
  /\ loaded = [e \in Entry |-> Absent]
  /\ tick = {}
  /\ proc = [e \in Entry |-> NoProc]

In(e, label) == proc[e].pc = label

(* The root read is a local variable of Verify; that it was read is still  *)
(* recorded while the command runs.                                        *)
Goto(e, label) ==
  proc' = [proc EXCEPT ![e].pc = label,
                       ![e].root = IF label \in {"gate", "run"} THEN @ ELSE NotInstalled]

(* What a goroutine does when it may not run its command: a job waits for  *)
(* its next tick, a service is given up.                                   *)
Skip(e) == Goto(e, IF e \in Job THEN "wait" ELSE "end")

OthersUnchanged == UNCHANGED <<config, sidecar, anchor, script, anchored, edits, commits, main, loaded>>

----------------------------------------------------------------------------
Run ==
  /\ main = "off"
  /\ \E e \in Entry : config[e] # Absent
  /\ main' = "jobs"
  /\ loaded' = config
  /\ proc' = [e \in Entry |->
                IF config[e] = Absent THEN NoProc
                ELSE [NoProc EXCEPT !.pc = IF e \in Job THEN "wait" ELSE "check"]]
  /\ UNCHANGED <<commitVars, cancelled, tick>>

Signal ==
  /\ main \notin {"off", "stopped"} /\ ~cancelled
  /\ cancelled' = TRUE
  /\ UNCHANGED <<commitVars, main, loaded, tick, proc>>

(* The channel holds one tick; further ones are dropped.                   *)
Tick(j) ==
  /\ ~In(j, "end") /\ j \notin tick
  /\ tick' = tick \cup {j}
  /\ UNCHANGED <<faults, cancelled, proc>> /\ OthersUnchanged

(* Run's select, when both cases are ready, takes either.                  *)
TakeTick(j) ==
  /\ In(j, "wait") /\ j \in tick
  /\ tick' = tick \ {j}
  /\ Goto(j, "anchor")
  /\ UNCHANGED <<faults, cancelled>> /\ OthersUnchanged

EndJob(j) ==
  /\ In(j, "wait") /\ cancelled
  /\ Goto(j, "end")
  /\ UNCHANGED <<faults, cancelled, tick>> /\ OthersUnchanged

(* runService looks at the context before each verification.               *)
CheckContext(s) ==
  /\ In(s, "check")
  /\ Goto(s, IF cancelled THEN "end" ELSE "anchor")
  /\ UNCHANGED <<faults, cancelled, tick>> /\ OthersUnchanged

(* Mutant: without an anchor, tasks run as jobs do.                        *)
ReadAnchorOpen(e) ==
  /\ In(e, "anchor")
  /\ proc' = [proc EXCEPT ![e].pc = IF anchor = NotInstalled THEN "gate" ELSE "proof",
                          ![e].root = anchor]
  /\ UNCHANGED <<faults, cancelled, tick>> /\ OthersUnchanged

(* Without an anchor a job may run and a service may not.                  *)
ReadAnchor(e) ==
  /\ In(e, "anchor")
  /\ IF anchor = NotInstalled /\ e \in Task
     THEN Skip(e)
     ELSE proc' = [proc EXCEPT ![e].pc = IF anchor = NotInstalled THEN "gate" ELSE "proof",
                               ![e].root = anchor]
  /\ UNCHANGED <<faults, cancelled, tick>> /\ OthersUnchanged

(* plutil fails, the plist is malformed, or the proof file is unreadable.  *)
ReadFails(e) ==
  /\ In(e, "anchor") \/ In(e, "proof")
  /\ Fault
  /\ Skip(e)
  /\ UNCHANGED <<cancelled, tick>> /\ OthersUnchanged

(* Mutant: an entry of the proof file is enough.                           *)
HasProof(e, root) == e \in DOMAIN sidecar

Verifies(e, root) ==
  /\ e \in DOMAIN sidecar
  /\ VerifyProof(CommitLeaf(e, loaded[e]), sidecar[e], root)

(* Mutant: an unverified job is not tried again.                           *)
CheckProofOnce(e) ==
  /\ In(e, "proof")
  /\ Goto(e, IF Verifies(e, proc[e].root) THEN "gate" ELSE "end")
  /\ UNCHANGED <<faults, cancelled, tick>> /\ OthersUnchanged

CheckProof(e) ==
  /\ In(e, "proof")
  /\ IF Verifies(e, proc[e].root) THEN Goto(e, "gate") ELSE Skip(e)
  /\ UNCHANGED <<faults, cancelled, tick>> /\ OthersUnchanged

(* The load gate; services have none.                                      *)
Gate(e) ==
  /\ In(e, "gate")
  /\ \/ Goto(e, "run")
     \/ e \in Gated /\ Goto(e, "wait")
  /\ UNCHANGED <<faults, cancelled, tick>> /\ OthersUnchanged

JobEnds(j) ==
  /\ j \in Job /\ In(j, "run")
  /\ Goto(j, "wait")
  /\ UNCHANGED <<faults, cancelled, tick>> /\ OthersUnchanged

(* A service that ends by itself is not restarted; one that fails is,      *)
(* a limited number of times.                                              *)
ServiceEnds(s) ==
  /\ s \in Task \ Rapid /\ In(s, "run")
  /\ \/ Goto(s, "end")
     \/ /\ ~cancelled
        /\ proc' = [proc EXCEPT ![s].attempts = @ + 1,
                                ![s].pc = IF proc[s].attempts >= MaxAttempts THEN "end" ELSE "sleep"]
  /\ UNCHANGED <<faults, cancelled, tick>> /\ OthersUnchanged

(* Mutant: the rapid loop does not look at the context.                    *)
RapidLoops(s) ==
  /\ s \in Rapid /\ In(s, "run")
  /\ Goto(s, "anchor")
  /\ UNCHANGED <<faults, cancelled, tick>> /\ OthersUnchanged

RapidEnds(s) ==
  /\ s \in Rapid /\ In(s, "run")
  /\ Goto(s, IF cancelled THEN "end" ELSE "check")
  /\ UNCHANGED <<faults, cancelled, tick>> /\ OthersUnchanged

(* sleepContext: the delay, or the signal.                                 *)
Wake(s) ==
  /\ In(s, "sleep")
  /\ \/ Goto(s, "check")
     \/ cancelled /\ Goto(s, "end")
  /\ UNCHANGED <<faults, cancelled, tick>> /\ OthersUnchanged

Ended(names) == \A e \in names : In(e, "end")

(* Mutant: main does not wait for the services.                            *)
StopAtOnce ==
  /\ main = "jobs" /\ cancelled /\ Ended(Job)
  /\ main' = "stopped"
  /\ UNCHANGED <<commitVars, cancelled, loaded, tick, proc>>

(* sched.Run, or the wait for the signal, is over; then the services are   *)
(* waited for.                                                             *)
JobsDone ==
  /\ main = "jobs" /\ cancelled /\ Ended(Job)
  /\ main' = "services"
  /\ UNCHANGED <<commitVars, cancelled, loaded, tick, proc>>

ServicesDone ==
  /\ main = "services" /\ Ended(Task)
  /\ main' = "stopped"
  /\ UNCHANGED <<commitVars, cancelled, loaded, tick, proc>>

(* Nothing is left to do, or nothing was configured.                       *)
Stopped ==
  /\ main = "stopped" \/ (main = "off" /\ \A e \in Entry : config[e] = Absent)
  /\ UNCHANGED vars

----------------------------------------------------------------------------
Work(e) ==
  \/ ReadAnchor(e) \/ CheckProof(e) \/ Gate(e)
  \/ JobEnds(e) \/ ServiceEnds(e) \/ RapidEnds(e) \/ CheckContext(e) \/ Wake(e)

PulseNext ==
  \/ CommitNext /\ UNCHANGED pulseVars
  \/ Run \/ Signal \/ JobsDone \/ ServicesDone \/ Stopped
  \/ \E e \in Entry : Work(e) \/ ReadFails(e)
  \/ \E j \in Job : Tick(j) \/ TakeTick(j) \/ EndJob(j)

(* Goroutines are scheduled, tickers tick, and the commands end.  select   *)
(* picks among its ready cases at random: none is passed over for ever.    *)
Fairness ==
  /\ \A e \in Entry : WF_vars(Work(e))
  /\ \A j \in Job : WF_vars(Tick(j)) /\ WF_vars(TakeTick(j)) /\ SF_vars(EndJob(j))
  /\ WF_vars(JobsDone) /\ WF_vars(ServicesDone)

Spec == PulseInit /\ [][PulseNext]_vars /\ Fairness

----------------------------------------------------------------------------
PC == {"wait", "check", "anchor", "proof", "gate", "run", "sleep", "end"}

TypeOK ==
  /\ DOMAIN sidecar \subseteq Entry
  /\ script.pc \in {"idle", "writeJobs", "writeTasks", "install"}
  /\ main \in {"off", "jobs", "services", "stopped"}
  /\ loaded \in [Entry -> Command \cup {Absent}]
  /\ tick \subseteq Job
  /\ \A e \in Entry : proc[e].pc \in PC /\ proc[e].attempts \in 0..(MaxAttempts + 1)

(* What runs was committed: a service only ever runs a command that was    *)
(* under an installed root, and so does a job whose check found the anchor *)
(* installed, though roots and proofs change while they are read           *)
(* (realCommitmentVerifier, taskCommitmentVerifier).                       *)
OnlyCommittedRuns ==
  \A e \in Entry :
    In(e, "run") /\ (e \in Task \/ proc[e].root # NotInstalled) =>
      CommitLeaf(e, loaded[e]) \in anchored

(* "[stop] pulse: shutdown complete" is printed when no command of pulse   *)
(* is running any more, and none starts afterwards (main).                 *)
StopIsComplete == main = "stopped" => Ended(Entry)

(* A signal ends pulse, once the commands in progress have ended.          *)
SignalStops == cancelled ~> main = "stopped"

(* Verification heals: once anchor and proof cover the command pulse has   *)
(* loaded, whatever happened before, the job passes its check again and    *)
(* again, without a restart of pulse (Scheduler.fire).                     *)
Covered(j) == anchor # NotInstalled /\ loaded[j] # Absent /\ Verifies(j, anchor)

JobsHeal ==
  \A j \in Job : <>[](main = "jobs" /\ ~cancelled /\ Covered(j)) => []<>In(j, "gate")
=============================================================================
