----------------------------- MODULE Campaigns -----------------------------
(***************************************************************************)
(* User-bot campaigns: the seller's calls (create, start, pause), the jobs *)
(* of the campaign queue, the recovery sweep of the scheduler, and the     *)
(* worker that sends one message after another from the seller's Telegram  *)
(* account under a lock in Redis.  All campaigns of the model share one    *)
(* account, hence one lock.                                                *)
(*                                                                         *)
(* Times serve as names here.  A job carries the nextRunAt it was queued   *)
(* for, and all that matters is whether the row still holds that time:     *)
(* runAt is "armed" as long as it does and "old" after the next write of   *)
(* nextRunAt, which is itself "null", "future" or "due".  An execution     *)
(* knows its run by the lastRunAt it wrote, for which its own name stands. *)
(***************************************************************************)
EXTENDS Naturals, FiniteSets

CONSTANTS
    Campaigns,      \* campaigns of one Telegram session
    Kinds,          \* what can be created: targetMode GROUP_ONLY or not,
                    \* isRecurring or not, and the number of targets
    MaxTargets,     \* the most groups (or members) a cycle addresses
    Runs,           \* executions of processUserbotCampaignJob at a time
    MaxEvents       \* restarts, FLOOD_WAITs, crashes, expired locks, failing
                    \* heartbeats and failing log writes together

ASSUME CampaignAssumption ==
    /\ IsFiniteSet(Runs) /\ Runs \intersect {"free", "dead", "null"} = {}
    /\ MaxTargets \in Nat \ {0}
    /\ Kinds \subseteq [groupOnly : BOOLEAN, recurs : BOOLEAN,
                        totalTarget : 1 .. MaxTargets]
    /\ MaxEvents \in Nat

VARIABLES
    camp,       \* the rows of TelegramUserCampaign
    queue,      \* jobs waiting or delayed: the campaign and its runAt
    lock,       \* userbot-session-lock: a run, "free", or "dead"
    run,        \* what each execution of the worker has in memory
    seen,       \* campaigns the sweep found stuck and is about to re-arm
    hist,       \* what happened in each campaign's current cycle
    events      \* how many of the bounded events there were

vars == <<camp, queue, lock, run, seen, hist, events>>

Statuses == {"NONE", "DRAFT", "RUNNING", "PAUSED", "FAILED", "COMPLETED"}

\* One of the events the model bounds.
Counted == events < MaxEvents /\ events' = events + 1

Idle == [pc |-> "idle"]

\* An execution with nothing left to do but to give back the lock.
Leaving(r) ==
    [run[r] EXCEPT !.pc = "release", !.runAt = "old", !.freshLast = "null",
                   !.i = 0, !.sentCount = 0, !.failedCount = 0]

Busy == {r \in Runs : run[r].pc # "idle"}

\* The executions of a campaign that claimed its run and are not done.
Sending(c) ==
    {r \in Busy : run[r].c = c /\ run[r].pc \notin {"read", "claim", "release"}}

\* nextRunAt of c is written: no job and no execution names its time now.
OldJobs(c) ==
    {IF j.c = c THEN [j EXCEPT !.runAt = "old"] ELSE j : j \in queue}

OldRuns(c, runs) ==
    [r \in Runs |->
        IF runs[r].pc \in {"read", "claim"} /\ runs[r].c = c
        THEN [runs[r] EXCEPT !.runAt = "old"]
        ELSE runs[r]]

\* A cycle begins; the executions about to send still belong to the old one.
NewCycle(c) ==
    [got |-> [t \in 1 .. MaxTargets |-> 0], tried |-> {},
     slips |-> 0, lapses |-> 0,
     strays |-> Cardinality({r \in Sending(c) : run[r].pc = "send"})]

Init ==
    /\ camp = [c \in Campaigns |->
                [status |-> "NONE", groupOnly |-> TRUE, recurs |-> FALSE,
                 totalTarget |-> 1, nextRunAt |-> "null",
                 lastRunAt |-> "null", sentCount |-> 0, failedCount |-> 0]]
    /\ queue = {}
    /\ lock = "free"
    /\ run = [r \in Runs |-> Idle]
    /\ seen = {}
    /\ hist = [c \in Campaigns |->
                [got |-> [t \in 1 .. MaxTargets |-> 0], tried |-> {},
                 slips |-> 0, lapses |-> 0, strays |-> 0]]
    /\ events = 0

-----------------------------------------------------------------------------
(* The seller and the queue                                                *)

\* A job for the time just written; queueing it may fail, which every caller
\* logs and no more.
addUserbotCampaignJob(c) ==
    \/ queue' = OldJobs(c) \cup {[c |-> c, runAt |-> "armed"]}
    \/ queue' = OldJobs(c)

\* A campaign with a schedule is saved running and armed, others as a draft.
createCampaign(c) ==
    /\ camp[c].status = "NONE"
    /\ \E kind \in Kinds :
         \/ /\ camp' = [camp EXCEPT ![c] =
                          [@ EXCEPT !.status = "DRAFT",
                                    !.groupOnly = kind.groupOnly,
                                    !.recurs = kind.recurs,
                                    !.totalTarget = kind.totalTarget]]
            /\ queue' = queue
         \/ /\ camp' = [camp EXCEPT ![c] =
                          [@ EXCEPT !.status = "RUNNING",
                                    !.groupOnly = kind.groupOnly,
                                    !.recurs = kind.recurs,
                                    !.totalTarget = kind.totalTarget,
                                    !.nextRunAt = "future"]]
            /\ addUserbotCampaignJob(c)
    /\ UNCHANGED <<lock, run, seen, hist, events>>

\* Starting forgets the counters and the run of the cycle before.
startCampaign(c) ==
    /\ Counted
    /\ camp[c].status \in {"DRAFT", "PAUSED", "FAILED"}
    /\ \E planned \in {"future", "due"} :
         camp' = [camp EXCEPT ![c] =
                    [@ EXCEPT !.status = "RUNNING", !.nextRunAt = planned,
                              !.lastRunAt = "null",
                              !.sentCount = 0, !.failedCount = 0]]
    /\ run' = OldRuns(c, run)
    /\ hist' = [hist EXCEPT ![c] = NewCycle(c)]
    /\ addUserbotCampaignJob(c)
    /\ UNCHANGED <<lock, seen>>

\* Pausing asks nothing about the status it overwrites.
pauseCampaign(c) ==
    /\ camp[c].status # "NONE"
    /\ camp' = [camp EXCEPT ![c].status = "PAUSED", ![c].nextRunAt = "null"]
    /\ queue' = OldJobs(c)
    /\ run' = OldRuns(c, run)
    /\ UNCHANGED <<lock, seen, hist, events>>

\* The time a campaign is armed for comes.
TimeComes(c) ==
    /\ camp[c].nextRunAt = "future"
    /\ camp' = [camp EXCEPT ![c].nextRunAt = "due"]
    /\ UNCHANGED <<queue, lock, run, seen, hist, events>>

-----------------------------------------------------------------------------
(* The scheduler's sweep                                                   *)

\* A sweep that takes up only campaigns that have never run.
FindNeverRun(c) ==
    /\ c \notin seen
    /\ camp[c].status = "RUNNING"
    /\ camp[c].nextRunAt = "null"
    /\ camp[c].lastRunAt = "null"
    /\ lock = "free"
    /\ seen' = seen \cup {c}
    /\ UNCHANGED <<camp, queue, lock, run, hist, events>>

\* A running campaign that no run is armed for and whose session is unlocked.
\* That its last run began a minute ago is a matter of waiting.
FindStuck(c) ==
    /\ c \notin seen
    /\ camp[c].status = "RUNNING"
    /\ camp[c].nextRunAt = "null"
    /\ lock = "free"
    /\ seen' = seen \cup {c}
    /\ UNCHANGED <<camp, queue, lock, run, hist, events>>

\* The update repeats the conditions of the search, not the one on the lock.
RearmStuck(c) ==
    /\ c \in seen
    /\ seen' = seen \ {c}
    /\ IF camp[c].status = "RUNNING" /\ camp[c].nextRunAt = "null"
       THEN /\ camp' = [camp EXCEPT ![c].nextRunAt = "due"]
            /\ queue' = OldJobs(c)
            /\ run' = OldRuns(c, run)
       ELSE UNCHANGED <<camp, queue, run>>
    /\ UNCHANGED <<lock, hist, events>>

\* A job for every armed run whose time has come and that has none waiting.
EnqueueDue(c) ==
    /\ camp[c].status = "RUNNING"
    /\ camp[c].nextRunAt = "due"
    /\ [c |-> c, runAt |-> "armed"] \notin queue
    /\ queue' = queue \cup {[c |-> c, runAt |-> "armed"]}
    /\ UNCHANGED <<camp, lock, run, seen, hist, events>>

-----------------------------------------------------------------------------
(* The worker                                                              *)

\* Executions differ in name only, so which idle one takes a job is no choice.
NextIdle == CHOOSE r \in Runs : run[r] = Idle \/ Busy = Runs

\* A job is taken: dropped when its campaign is not running, put back when the
\* session is locked (so nothing changes), else run under the lock.
PickUp(r, j) ==
    /\ r = NextIdle
    /\ run[r] = Idle
    /\ j \in queue
    /\ queue' = queue \ {j}
    /\ IF camp[j.c].status # "RUNNING"
       THEN UNCHANGED <<lock, run>>
       ELSE /\ lock = "free"
            /\ lock' = r
            /\ run' = [run EXCEPT ![r] =
                        [pc |-> "read", c |-> j.c, runAt |-> j.runAt,
                         freshLast |-> "null", i |-> 0,
                         sentCount |-> 0, failedCount |-> 0,
                         lockLost |-> FALSE, lapsed |-> FALSE]]
    /\ UNCHANGED <<camp, seen, hist, events>>

\* The fresh read: the job must be for the run the campaign is armed for now.
ReadFresh(r) ==
    /\ run[r].pc = "read"
    /\ LET row == camp[run[r].c]
       IN  run' = [run EXCEPT ![r] =
                    IF /\ row.status = "RUNNING"
                       /\ run[r].runAt = "armed"
                       /\ row.nextRunAt = "due"
                    THEN [@ EXCEPT !.pc = "claim", !.freshLast = row.lastRunAt,
                                   !.sentCount = row.sentCount,
                                   !.failedCount = row.failedCount]
                    ELSE Leaving(r)]
    /\ UNCHANGED <<camp, queue, lock, seen, hist, events>>

\* A run that starts at the first target whatever was sent before.
StartRunAtFirst(r) ==
    LET c == run[r].c
    IN  /\ camp' = [camp EXCEPT ![c].nextRunAt = "null", ![c].lastRunAt = r]
        /\ queue' = OldJobs(c)
        /\ run' = OldRuns(c, [run EXCEPT ![r] =
                     [@ EXCEPT !.pc = "check", !.i = 1,
                               !.runAt = "old", !.freshLast = "null"]])

\* The claim is written: the row is this execution's, which starts where the
\* counters it read end (or, writing to members, at the first).
StartRun(r) ==
    LET c == run[r].c
        first == IF camp[c].groupOnly
                 THEN run[r].sentCount + run[r].failedCount + 1
                 ELSE 1
    IN  /\ camp' = [camp EXCEPT ![c].nextRunAt = "null", ![c].lastRunAt = r]
        /\ queue' = OldJobs(c)
        /\ run' = OldRuns(c, [run EXCEPT ![r] =
                     [@ EXCEPT !.pc = "check", !.i = first,
                               !.runAt = "old", !.freshLast = "null"]])

\* A claim that does not compare the times it read.
ClaimByStatus(r) ==
    /\ run[r].pc = "claim"
    /\ IF camp[run[r].c].status = "RUNNING"
       THEN StartRun(r)
       ELSE /\ run' = [run EXCEPT ![r] = Leaving(r)]
            /\ UNCHANGED <<camp, queue>>
    /\ UNCHANGED <<lock, seen, hist, events>>

\* Claiming a run: an update conditional on the row being as it was read.
Claim(r) ==
    /\ run[r].pc = "claim"
    /\ IF /\ camp[run[r].c].status = "RUNNING"
          /\ run[r].runAt = "armed"
          /\ camp[run[r].c].lastRunAt = run[r].freshLast
       THEN StartRun(r)
       ELSE /\ run' = [run EXCEPT ![r] = Leaving(r)]
            /\ UNCHANGED <<camp, queue>>
    /\ UNCHANGED <<lock, seen, hist, events>>

\* The row is still running, and running this execution's run.
Mine(r) ==
    /\ camp[run[r].c].status = "RUNNING"
    /\ camp[run[r].c].lastRunAt = r

\* The catch block: the campaign fails if it is still this execution's.  A write that fails
\* here would leave the row as a death of the worker does (Crash).
Abort(r) ==
    LET c == run[r].c
        rest == [run EXCEPT ![r] = Leaving(r)]
    IN  IF Mine(r)
        THEN /\ camp' = [camp EXCEPT ![c].status = "FAILED",
                                     ![c].nextRunAt = "null"]
             /\ queue' = OldJobs(c)
             /\ run' = OldRuns(c, rest)
        ELSE /\ run' = rest
             /\ UNCHANGED <<camp, queue>>

\* The connection, the question before a message, or the log of a failure
\* throws.
Throw(r) ==
    /\ run[r].pc \in {"check", "send", "countSent"}
    /\ Abort(r)
    /\ UNCHANGED <<lock, seen, hist, events>>

\* Before each message: still running, still this run, lock not known lost.
Check(r) ==
    /\ run[r].pc = "check"
    /\ IF run[r].i > camp[run[r].c].totalTarget \/ ~Mine(r)
       THEN /\ run' = [run EXCEPT ![r].pc = "finish"]
            /\ UNCHANGED <<camp, queue>>
       ELSE IF run[r].lockLost
       THEN Abort(r)
       ELSE /\ run' = [run EXCEPT ![r].pc = "send"]
            /\ UNCHANGED <<camp, queue>>
    /\ UNCHANGED <<lock, seen, hist, events>>

\* A target counts as tried for the cycle of the run that is in force.
Tried(r) ==
    IF Mine(r) THEN hist[run[r].c].tried \cup {run[r].i}
               ELSE hist[run[r].c].tried

\* The message reaches target i.
SendArrives(r) ==
    /\ run[r].pc = "send"
    /\ LET c == run[r].c
       IN  hist' = [hist EXCEPT
             ![c].got[run[r].i] = @ + 1,
             ![c].tried = Tried(r)]
    /\ run' = [run EXCEPT ![r].pc = "countSent", ![r].sentCount = @ + 1]
    /\ UNCHANGED <<camp, queue, lock, seen, events>>

\* The catch block of a message: one more failure, counted if the run is still
\* in force, and on to the next target.
FailTarget(r) ==
    /\ camp' = IF Mine(r)
               THEN [camp EXCEPT ![run[r].c].failedCount =
                       run[r].failedCount + 1]
               ELSE camp
    /\ run' = [run EXCEPT ![r].pc = "check", ![r].i = @ + 1,
                          ![r].failedCount = @ + 1]

\* Telegram refuses the message for this target.
SendFails(r) ==
    /\ run[r].pc = "send"
    /\ FailTarget(r)
    /\ hist' = [hist EXCEPT ![run[r].c].tried = Tried(r)]
    /\ UNCHANGED <<queue, lock, seen, events>>

\* PEER_FLOOD on a direct message pauses the campaign.
PeerFlood(r) ==
    /\ run[r].pc = "send"
    /\ ~camp[run[r].c].groupOnly
    /\ camp' = IF Mine(r)
               THEN [camp EXCEPT ![run[r].c].status = "PAUSED",
                                 ![run[r].c].failedCount =
                                    run[r].failedCount + 1]
               ELSE camp
    /\ run' = [run EXCEPT ![r] = Leaving(r)]
    /\ UNCHANGED <<queue, lock, seen, hist, events>>

\* FLOOD_WAIT arms the campaign for the time Telegram asks for.
FloodWait(r) ==
    /\ run[r].pc = "send"
    /\ Counted
    /\ LET c == run[r].c
           rest == [run EXCEPT ![r] = Leaving(r)]
       IN  IF Mine(r)
           THEN /\ camp' = [camp EXCEPT ![c].nextRunAt = "future"]
                /\ run' = OldRuns(c, rest)
                /\ addUserbotCampaignJob(c)
           ELSE /\ run' = rest
                /\ UNCHANGED <<camp, queue>>
    /\ UNCHANGED <<lock, seen, hist>>

\* A sent message is logged and counted if the run is still in force.
CountSent(r) ==
    /\ run[r].pc = "countSent"
    /\ camp' = IF Mine(r)
               THEN [camp EXCEPT ![run[r].c].sentCount = run[r].sentCount]
               ELSE camp
    /\ run' = [run EXCEPT ![r].pc = "check", ![r].i = @ + 1]
    /\ UNCHANGED <<queue, lock, seen, hist, events>>

\* The log or the counter cannot be written: the same catch block as for a
\* refused message counts the target a second time, as failed.
CountSentThrows(r) ==
    /\ run[r].pc = "countSent"
    /\ Counted
    /\ FailTarget(r)
    /\ hist' = [hist EXCEPT ![run[r].c].slips = @ + 1]
    /\ UNCHANGED <<queue, lock, seen>>

\* The end of the loop, reached by a broken-off run too: the cycle ends only
\* if the campaign is still this execution's.
Finish(r) ==
    /\ run[r].pc = "finish"
    /\ LET c == run[r].c
           rest == [run EXCEPT ![r] = Leaving(r)]
       IN  \/ /\ ~Mine(r)
             /\ run' = rest
             /\ UNCHANGED <<camp, queue, hist>>
          \/ /\ Mine(r)
             /\ camp[c].recurs
             /\ camp' = [camp EXCEPT ![c].sentCount = 0, ![c].failedCount = 0,
                                     ![c].nextRunAt = "future"]
             /\ run' = OldRuns(c, rest)
             /\ hist' = [hist EXCEPT ![c] = NewCycle(c)]
             /\ addUserbotCampaignJob(c)
          \/ /\ Mine(r)
             /\ ~camp[c].recurs
             /\ camp' = [camp EXCEPT ![c].status = "COMPLETED",
                                     ![c].nextRunAt = "null"]
             /\ queue' = OldJobs(c)
             /\ run' = OldRuns(c, rest)
             /\ UNCHANGED hist
    /\ UNCHANGED <<lock, seen, events>>

\* Deleting the lock without looking whose it is.
ReleaseAnyLock(r) ==
    /\ run[r].pc = "release"
    /\ lock' = "free"
    /\ run' = [run EXCEPT ![r] = Idle]
    /\ UNCHANGED <<camp, queue, seen, hist, events>>

\* The finally block deletes the lock if it still carries the own token.
Release(r) ==
    /\ run[r].pc = "release"
    /\ lock' = IF lock = r THEN "free" ELSE lock
    /\ run' = [run EXCEPT ![r] = Idle]
    /\ UNCHANGED <<camp, queue, seen, hist, events>>

-----------------------------------------------------------------------------
(* Mishaps                                                                 *)

\* The worker dies; the lock stays until it expires, the stalled job is queued
\* again (after its claim no campaign is armed for it, and it is dropped).
Crash(r) ==
    /\ r \in Busy
    /\ Counted
    /\ lock' = IF lock = r THEN "dead" ELSE lock
    /\ queue' = IF run[r].pc \notin {"read", "claim"} THEN queue
                ELSE queue \cup {[c |-> run[r].c, runAt |-> run[r].runAt]}
    /\ hist' = IF r \in Sending(run[r].c)
               THEN [hist EXCEPT ![run[r].c].strays = @ + 1]
               ELSE hist
    /\ run' = [run EXCEPT ![r] = Idle]
    /\ UNCHANGED <<camp, seen>>

\* The lock of a dead worker expires after five minutes.
DeadLockExpires ==
    /\ lock = "dead"
    /\ lock' = "free"
    /\ UNCHANGED <<camp, queue, run, seen, hist, events>>

\* The lock of a stalled worker expires under it.
LockLapses(r) ==
    /\ lock = r
    /\ Counted
    /\ lock' = "free"
    /\ run' = [run EXCEPT ![r].lapsed = TRUE]
    /\ hist' = [hist EXCEPT ![run[r].c].lapses = @ + 1]
    /\ UNCHANGED <<camp, queue, seen>>

\* The heartbeat finds the lock gone, or does not reach Redis.
Heartbeat(r) ==
    /\ r \in Busy
    /\ ~run[r].lockLost
    /\ IF lock = r THEN Counted ELSE UNCHANGED events
    /\ run' = [run EXCEPT ![r].lockLost = TRUE]
    /\ UNCHANGED <<camp, queue, lock, seen, hist>>

\* One execution of the worker goes on.
Step(r) ==
    \/ ReadFresh(r)
    \/ Claim(r)
    \/ Throw(r)
    \/ Check(r)
    \/ SendArrives(r)
    \/ SendFails(r)
    \/ PeerFlood(r)
    \/ FloodWait(r)
    \/ CountSent(r)
    \/ CountSentThrows(r)
    \/ Finish(r)
    \/ Release(r)

Next ==
    \/ \E c \in Campaigns :
         \/ createCampaign(c)
         \/ startCampaign(c)
         \/ pauseCampaign(c)
         \/ TimeComes(c)
         \/ FindStuck(c)
         \/ RearmStuck(c)
         \/ EnqueueDue(c)
    \/ \E r \in Runs :
         \/ \E j \in queue : PickUp(r, j)
         \/ Step(r)
         \/ Crash(r)
         \/ LockLapses(r)
         \/ Heartbeat(r)
    \/ DeadLockExpires

Spec == Init /\ [][Next]_vars

\* A job of campaign c for the run it is armed for gets a worker.
Served(c) ==
    \E r \in Runs, j \in queue :
        j.c = c /\ j.runAt = "armed" /\ PickUp(r, j)

\* Executions go on, locks of the dead expire, time passes, the scheduler's
\* interval fires, and a job put back every 15 seconds finds the session
\* unlocked at last (with a single campaign only old jobs and a dead worker
\* keep the lock from it).
Fairness ==
    /\ \A r \in Runs : WF_vars(Step(r))
    /\ \A c \in Campaigns :
         /\ WF_vars(TimeComes(c))
         /\ WF_vars(RearmStuck(c))
         /\ WF_vars(EnqueueDue(c))
         /\ WF_vars(FindStuck(c))
         /\ WF_vars(Served(c))
    /\ WF_vars(DeadLockExpires)

FairSpec == Spec /\ Fairness

-----------------------------------------------------------------------------
(* Properties                                                              *)

\* Every row, job, lock, execution and record of a cycle has its type
\* (schema.prisma TelegramUserCampaign, the worker's local variables).
TypeOK ==
    /\ camp \in [Campaigns ->
          [status : Statuses, groupOnly : BOOLEAN, recurs : BOOLEAN,
           totalTarget : 1 .. MaxTargets, nextRunAt : {"null", "future", "due"},
           lastRunAt : Runs \cup {"null"}, sentCount : Nat, failedCount : Nat]]
    /\ queue \subseteq [c : Campaigns, runAt : {"armed", "old"}]
    /\ lock \in Runs \cup {"free", "dead"}
    /\ \A r \in Busy :
         /\ run[r].pc \in {"read", "claim", "check", "send",
                           "countSent", "finish", "release"}
         /\ run[r].pc = "send" => run[r].i \in 1 .. MaxTargets
    /\ seen \subseteq Campaigns
    /\ events <= MaxEvents

\* Each execution between taking and releasing the lock holds it, unless it
\* expired under that very execution: one worker that stalls costs nobody
\* else the exclusive use of the Telegram account (the token comparison of
\* the release).
SessionExclusive ==
    \A r \in Busy : lock = r \/ run[r].lapsed

\* A group gets a second message of a cycle only through a fault of that
\* cycle: a worker that died in it or was about to send when it began, which
\* cost one each, or a lock that expired under a worker, which costs two: that
\* worker goes on beside its successor, and the counters the two write one over
\* the other may send the next run back.  Stale jobs, the recovery sweep,
\* resuming after FLOOD_WAIT and the seller's restarts add none (the atomic
\* claim and the resume index).
OneMessageEach ==
    \A c \in Campaigns : camp[c].groupOnly =>
        \A t \in 1 .. MaxTargets :
            hist[c].got[t] <= 1 + 2 * hist[c].lapses + hist[c].strays

\* The index a run resumes from never passes groups that were not tried, and a
\* completed campaign has tried them all, but for one group for every message
\* counted both as sent and as failed.  (After a lock expired under a worker
\* its successor may count from numbers read before the claim.)
NoneSkipped ==
    \A c \in Campaigns : camp[c].groupOnly /\ hist[c].lapses = 0 =>
        LET tried == Cardinality(hist[c].tried) + hist[c].slips
        IN  /\ camp[c].sentCount + camp[c].failedCount <= tried
            /\ camp[c].status = "COMPLETED" =>
                  camp[c].totalTarget <= tried

\* A running campaign that does not recur ends its cycle: it completes, fails
\* or is paused, whichever worker dies, lock expires or enqueueing is lost.
CycleEnds ==
    \A c \in Campaigns :
        (camp[c].status = "RUNNING" /\ ~camp[c].recurs)
            ~> (camp[c].status # "RUNNING")

=============================================================================
