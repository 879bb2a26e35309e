-------------------------- MODULE CampaignsProofs --------------------------
(***************************************************************************)
(* What a user-bot campaign guarantees for any number of campaigns, groups *)
(* and executions: the Telegram account is one execution's at a time, and  *)
(* a cycle sends each group one message and leaves none out, up to what    *)
(* the faults of that cycle cost.                                          *)
(*                                                                         *)
(* The argument looks at one campaign: its row, its history, and what the  *)
(* executions f of the job processor mean to it.  An execution past the    *)
(* claim is its sender, the one whose claim stands is the current one; one *)
(* before the claim that has the campaign's next date is a candidate.  The *)
(* inductive part says how far the messages sent so far reach, for the     *)
(* current sender by its index and for the next claim by the counters of   *)
(* the row.  The steps are proved over rows, histories and executions that *)
(* are plain records, and only then said of the variables.                 *)
(***************************************************************************)
EXTENDS Campaigns, FiniteSetTheorems, TLAPS

\* The rows of UserbotCampaign.
Rows ==
    [status : Statuses, groupOnly : BOOLEAN, recurs : BOOLEAN,
     totalTarget : 1 .. MaxTargets, nextRunAt : {"null", "future", "due"},
     lastRunAt : Runs \cup {"null"}, sentCount : Nat, failedCount : Nat]

\* The executions of the job processor that run.
Executions ==
    [pc : {"read", "claim", "check", "send", "countSent", "finish", "release"},
     c : Campaigns, runAt : {"armed", "old"}, freshLast : Runs \cup {"null"},
     i : Nat, sentCount : Nat, failedCount : Nat,
     lockLost : BOOLEAN, lapsed : BOOLEAN]

\* The histories of a campaign's present cycle.
Cycles ==
    [got : [1 .. MaxTargets -> Nat], tried : SUBSET (1 .. MaxTargets),
     slips : Nat, lapses : Nat, strays : Nat]

\* The index of an execution: at a group when it sends, never before the first.
Placed(x) ==
    /\ x.pc \in {"check", "send", "countSent", "finish"} => x.i >= 1
    /\ x.pc \in {"send", "countSent"} => x.i <= MaxTargets

\* Every variable is in its range, and every index is where its step puts it.
Typed ==
    /\ camp \in [Campaigns -> Rows]
    /\ queue \subseteq [c : Campaigns, runAt : {"armed", "old"}]
    /\ lock \in Runs \cup {"free", "dead"}
    /\ run \in [Runs -> Executions \cup {Idle}]
    /\ \A r \in Runs : Placed(run[r])
    /\ seen \subseteq Campaigns
    /\ hist \in [Campaigns -> Cycles]
    /\ events \in Nat /\ events <= MaxEvents

-----------------------------------------------------------------------------
\* An execution that has claimed a run of c and is not done with it.
Sender(f, c, r) ==
    f[r].pc \in {"check", "send", "countSent", "finish"} /\ f[r].c = c

\* It is the last one that claimed, so the row may be written by it.
Current(row, f, c, r) == Sender(f, c, r) /\ row.lastRunAt = r

\* An execution that may yet claim the run the campaign is armed for.
Candidate(f, c, r) ==
    f[r].pc \in {"read", "claim"} /\ f[r].c = c /\ f[r].runAt = "armed"

\* Executions that have been overtaken and will still send to t.
Astray(row, f, c, t) ==
    {r \in Runs : /\ f[r].pc = "send" /\ f[r].c = c /\ f[r].i = t
                  /\ row.lastRunAt # r}

\* Messages to t, those on their way from overtaken executions included.
Load(row, h, f, c, t) == h.got[t] + Cardinality(Astray(row, f, c, t))

\* What the faults of a cycle may cost a group.
Faults(h) == 2 * h.lapses + h.strays

\* Groups before n have at most one message more than the faults account
\* for, the others none, and b of the faults are still to be used.
Within(row, h, f, c, n, b) ==
    \A t \in 1 .. MaxTargets :
        /\ t < n => Load(row, h, f, c, t) + b <= Faults(h) + 1
        /\ t >= n => Load(row, h, f, c, t) + b <= Faults(h)

\* The first group an execution has not sent to.
Reached(x) == IF x.pc = "countSent" THEN x.i + 1 ELSE x.i

\* The row counts no more than the current execution, and no group the
\* execution has passed is missing in the row.
Exact(row, x) ==
    /\ row.failedCount = x.failedCount
    /\ row.sentCount <= x.sentCount
    /\ x.pc = "countSent" => row.sentCount < x.sentCount
    /\ x.i <= row.sentCount + row.failedCount + 1

\* Execution x has read the counters as the row has them.
SameCounts(row, x) ==
    row.sentCount = x.sentCount /\ row.failedCount = x.failedCount

\* A lock that expired under a candidate will cost once it has claimed.
Reserve(f, c) ==
    IF \E r \in Runs : Candidate(f, c, r) /\ f[r].lapsed THEN 2 ELSE 0

\* Distinct groups tried before n, and messages counted twice.
Below(h, n) == Cardinality({t \in h.tried : t < n}) + h.slips

\* No execution holds the claim of the campaign.
NoCurrent(row, f, c) == \A r \in Runs : ~Current(row, f, c, r)

\* While an execution holds the claim, another can claim the campaign only when the lock
\* expired under the first; a lapse that touches the campaign is in its history; a
\* campaign that was not created has no traces.
Marked(row, h, f, c) ==
    /\ \A r, s \in Runs :
          Current(row, f, c, r) /\ Candidate(f, c, s) => f[r].lapsed
    /\ \A r \in Runs :
          (Current(row, f, c, r) \/ Candidate(f, c, r)) /\ f[r].lapsed
              => h.lapses > 0
    /\ row.status = "NONE" =>
          /\ \A r \in Runs : ~Sender(f, c, r) /\ ~Candidate(f, c, r)
          /\ \A t \in 1 .. MaxTargets : h.got[t] = 0
          /\ row.sentCount = 0 /\ row.failedCount = 0

\* No group has more than its message and what the faults allow, and from where the next
\* message goes on, the current sender's index or the row's counters, the groups have
\* not had theirs: only a lapse leaves that place uncertain.
Bounded(row, h, f, c) ==
    /\ Within(row, h, f, c, MaxTargets + 1, 0)
    /\ row.status = "RUNNING" /\ NoCurrent(row, f, c) =>
          Within(row, h, f, c, row.sentCount + row.failedCount + 1, Reserve(f, c))
    /\ \A r \in Runs : Current(row, f, c, r) =>
          /\ ~f[r].lapsed => Within(row, h, f, c, Reached(f[r]), 0)
          /\ f[r].lapsed => Within(row, h, f, c, Reached(f[r]), 2 + Reserve(f, c))
          /\ ~f[r].lapsed /\ row.status = "RUNNING" =>
                Exact(row, f[r]) \/ Within(row, h, f, c, Reached(f[r]), 1)
    /\ NoCurrent(row, f, c) => \A r \in Runs :
          Candidate(f, c, r) /\ f[r].pc = "claim" =>
              SameCounts(row, f[r]) \/ Within(row, h, f, c, 0, Reserve(f, c) + 1)

\* Without a lapse the counters, of the row, of the current sender and of a candidate,
\* never run ahead of the groups that were tried.
Complete(row, h, f, c) ==
    h.lapses = 0 =>
        /\ row.sentCount + row.failedCount
              <= Below(h, row.sentCount + row.failedCount + 1)
        /\ \A r \in Runs : Current(row, f, c, r) /\ row.status = "RUNNING" =>
              /\ Exact(row, f[r])
              /\ f[r].sentCount + f[r].failedCount <= Below(h, Reached(f[r]))
              /\ f[r].pc = "finish" => row.totalTarget < f[r].i
        /\ \A r \in Runs :
              Candidate(f, c, r) /\ f[r].pc = "claim" => SameCounts(row, f[r])
        /\ row.status = "COMPLETED" => row.totalTarget <= Below(h, MaxTargets + 1)

\* What is kept of a campaign; the messages are those of campaigns for groups only.
Good(row, h, f, c) ==
    /\ Marked(row, h, f, c)
    /\ row.groupOnly => Bounded(row, h, f, c) /\ Complete(row, h, f, c)

\* Jobs and executions belong to campaigns that were created, and a lock to an
\* execution that is not done.
Existing ==
    /\ \A j \in queue : camp[j.c].status # "NONE"
    /\ \A r \in Runs : run[r].pc # "idle" => camp[run[r].c].status # "NONE"
    /\ \A r \in Runs : lock = r => run[r].pc # "idle"

\* The lock and every campaign are as they should be.
CampInv ==
    /\ SessionExclusive
    /\ \A c \in Campaigns : Good(camp[c], hist[c], run, c)

\* Execution s looks the same to campaign c, or has ceased to be a candidate.
Same(f, g, c, s) ==
    /\ Sender(g, c, s) <=> Sender(f, c, s)
    /\ Sender(f, c, s) =>
          /\ g[s].pc = f[s].pc /\ g[s].i = f[s].i /\ g[s].lapsed = f[s].lapsed
          /\ g[s].sentCount = f[s].sentCount /\ g[s].failedCount = f[s].failedCount
    /\ Candidate(g, c, s) =>
          /\ Candidate(f, c, s)
          /\ g[s].pc = f[s].pc /\ g[s].lapsed = f[s].lapsed
          /\ g[s].sentCount = f[s].sentCount /\ g[s].failedCount = f[s].failedCount

\* The executions, idle ones included.
Execs == [Runs -> Executions \cup {Idle}]

-----------------------------------------------------------------------------
\* A part of a finite set is finite and no larger.
LEMMA Part ==
    ASSUME NEW T, IsFiniteSet(T), NEW S \in SUBSET T
    PROVE  /\ IsFiniteSet(S) /\ Cardinality(S) \in Nat /\ Cardinality(T) \in Nat
           /\ Cardinality(S) <= Cardinality(T)
  BY FS_Subset, FS_CardinalityType

\* Without one element it is smaller.
LEMMA PartLess ==
    ASSUME NEW T, IsFiniteSet(T), NEW x \in T, NEW S \in SUBSET (T \ {x})
    PROVE  Cardinality(S) + 1 <= Cardinality(T)
<1>1. IsFiniteSet(T \ {x}) /\ Cardinality(T \ {x}) = Cardinality(T) - 1
  BY FS_RemoveElement
<1>2. Cardinality(S) <= Cardinality(T \ {x}) /\ Cardinality(S) \in Nat
  BY <1>1, Part
<1> QED
  BY <1>1, <1>2, FS_CardinalityType

\* With one element more it grows by one at most.
LEMMA PartMore ==
    ASSUME NEW T, IsFiniteSet(T), NEW x, NEW S \in SUBSET (T \cup {x})
    PROVE  /\ IsFiniteSet(S) /\ Cardinality(S) \in Nat /\ Cardinality(T) \in Nat
           /\ Cardinality(S) <= Cardinality(T) + 1
<1>1. IsFiniteSet(T \cup {x}) /\ Cardinality(T \cup {x}) <= Cardinality(T) + 1
      /\ Cardinality(T) \in Nat
  BY FS_AddElement, FS_CardinalityType
<1>2. IsFiniteSet(S) /\ Cardinality(S) <= Cardinality(T \cup {x}) /\ Cardinality(S) \in Nat
      /\ Cardinality(T \cup {x}) \in Nat
  BY <1>1, Part
<1> QED
  BY <1>1, <1>2

\* The overtaken executions are finitely many, and loads and faults are numbers.
LEMMA LoadType ==
    ASSUME NEW row, NEW h \in Cycles, NEW f, NEW c, NEW t \in 1 .. MaxTargets
    PROVE  /\ IsFiniteSet(Astray(row, f, c, t))
           /\ Cardinality(Astray(row, f, c, t)) \in Nat
           /\ Load(row, h, f, c, t) \in Nat /\ Faults(h) \in Nat
           /\ h.got[t] \in Nat
<1>1. IsFiniteSet(Astray(row, f, c, t)) /\ Cardinality(Astray(row, f, c, t)) \in Nat
  BY Part, CampaignAssumption DEF Astray
<1>2. h.got[t] \in Nat /\ h.lapses \in Nat /\ h.strays \in Nat
  BY DEF Cycles
<1> QED
  BY <1>1, <1>2 DEF Load, Faults

\* Reserve is nothing or two.
LEMMA ReserveType ==
    ASSUME NEW f, NEW c
    PROVE  Reserve(f, c) \in {0, 2}
  BY DEF Reserve

\* Fewer messages, a later group and a smaller reserve keep the bound.
LEMMA WithinWeaker ==
    ASSUME NEW row, NEW h \in Cycles, NEW f, NEW c, NEW n \in Nat, NEW b \in Nat,
           NEW row2, NEW g, NEW m \in Nat, NEW d \in Nat,
           Within(row, h, f, c, n, b),
           \A t \in 1 .. MaxTargets : Astray(row2, g, c, t) \subseteq Astray(row, f, c, t),
           d <= b, n <= m \/ d + 1 <= b
    PROVE  Within(row2, h, g, c, m, d)
<1> SUFFICES ASSUME NEW t \in 1 .. MaxTargets
             PROVE  /\ t < m => Load(row2, h, g, c, t) + d <= Faults(h) + 1
                    /\ t >= m => Load(row2, h, g, c, t) + d <= Faults(h)
  BY DEF Within
<1>1. Load(row2, h, g, c, t) <= Load(row, h, f, c, t)
  BY LoadType, Part DEF Load
<1>2. /\ t < n => Load(row, h, f, c, t) + b <= Faults(h) + 1
      /\ t >= n => Load(row, h, f, c, t) + b <= Faults(h)
  BY DEF Within
<1>3. /\ Load(row2, h, g, c, t) \in Nat /\ Load(row, h, f, c, t) \in Nat
      /\ Faults(h) \in Nat /\ t \in Nat
  BY LoadType
<1> QED
  BY <1>1, <1>2, <1>3

\* The reserve shrinks with the candidates.
LEMMA ReserveLess ==
    ASSUME NEW f, NEW g, NEW c,
           \A s \in Runs : Candidate(g, c, s) => Candidate(f, c, s) /\ g[s].lapsed = f[s].lapsed
    PROVE  Reserve(g, c) <= Reserve(f, c) /\ Reserve(g, c) \in Nat /\ Reserve(f, c) \in Nat
<1>1. (\E r \in Runs : Candidate(g, c, r) /\ g[r].lapsed)
        => (\E r \in Runs : Candidate(f, c, r) /\ f[r].lapsed)
  OBVIOUS
<1> QED
  BY <1>1 DEF Reserve

\* What an execution that claimed has in memory.
LEMMA SenderType ==
    ASSUME NEW f \in Execs, NEW c, NEW r \in Runs, Sender(f, c, r) \/ Candidate(f, c, r)
    PROVE  /\ f[r] \in Executions
           /\ f[r].i \in Nat /\ Reached(f[r]) \in Nat
           /\ f[r].sentCount \in Nat /\ f[r].failedCount \in Nat
<1>1. f[r] \in Executions
  BY DEF Execs, Sender, Candidate, Idle
<1> QED
  BY <1>1 DEF Executions, Reached

\* The row keeps what the executions look at.
KeepsRow(row, row2) ==
    /\ row2.sentCount = row.sentCount /\ row2.failedCount = row.failedCount
    /\ row2.lastRunAt = row.lastRunAt /\ row2.groupOnly = row.groupOnly
    /\ row2.totalTarget = row.totalTarget
    /\ row2.status = row.status \/ row2.status \in {"PAUSED", "FAILED"}

\* An execution has ended that is not about to count a message for a running campaign.
Gone(row2, f, g, c, s) ==
    /\ ~Sender(g, c, s) /\ ~Candidate(g, c, s)
    /\ row2.status = "RUNNING" /\ Current(row2, f, c, s) => f[s].pc # "countSent"

\* Executions that end, jobs that become old, and a campaign that is stopped do
\* no harm.
LEMMA LeaveGood ==
    ASSUME NEW row \in Rows, NEW row2 \in Rows, NEW h \in Cycles, NEW f \in Execs,
           NEW g \in Execs, NEW c, Good(row, h, f, c), KeepsRow(row, row2),
           \A s \in Runs : Same(f, g, c, s) \/ Gone(row2, f, g, c, s)
    PROVE  Good(row2, h, g, c)
<1>1. ASSUME NEW t \in 1 .. MaxTargets PROVE Astray(row2, g, c, t) \subseteq Astray(row, f, c, t)
  <2>1. ASSUME NEW s \in Astray(row2, g, c, t) PROVE s \in Astray(row, f, c, t)
    <3>1. s \in Runs /\ Sender(g, c, s) /\ g[s].pc = "send" /\ g[s].i = t /\ row.lastRunAt # s
      BY <2>1 DEF Astray, Sender, KeepsRow
    <3>2. Same(f, g, c, s)
      BY <3>1 DEF Gone
    <3> QED
      BY <3>1, <3>2 DEF Astray, Same, Sender
  <2> QED
    BY <2>1
<1>2. ASSUME NEW s \in Runs, Current(row2, g, c, s)
      PROVE  /\ Current(row, f, c, s) /\ Same(f, g, c, s) /\ Sender(f, c, s)
             /\ g[s].pc = f[s].pc /\ g[s].i = f[s].i /\ g[s].lapsed = f[s].lapsed
             /\ g[s].sentCount = f[s].sentCount /\ g[s].failedCount = f[s].failedCount
             /\ Reached(g[s]) = Reached(f[s])
  BY <1>2 DEF Current, KeepsRow, Same, Gone, Reached
<1>3. ASSUME NEW s \in Runs, Candidate(g, c, s)
      PROVE  /\ Candidate(f, c, s) /\ g[s].pc = f[s].pc /\ g[s].lapsed = f[s].lapsed
             /\ g[s].sentCount = f[s].sentCount /\ g[s].failedCount = f[s].failedCount
  BY <1>3 DEF Same, Gone
<1>4. Reserve(g, c) <= Reserve(f, c) /\ Reserve(g, c) \in Nat /\ Reserve(f, c) \in Nat
  BY <1>3, ReserveLess
<1>5. Marked(row2, h, g, c)
  <2>1. \A r, s \in Runs : Current(row2, g, c, r) /\ Candidate(g, c, s) => g[r].lapsed
    BY <1>2, <1>3 DEF Good, Marked
  <2>2. \A r \in Runs :
          (Current(row2, g, c, r) \/ Candidate(g, c, r)) /\ g[r].lapsed => h.lapses > 0
    BY <1>2, <1>3 DEF Good, Marked
  <2>3. row2.status = "NONE" => \A r \in Runs : ~Sender(g, c, r) /\ ~Candidate(g, c, r)
    BY DEF Good, Marked, KeepsRow, Same, Gone
  <2> QED
    BY <2>1, <2>2, <2>3 DEF Marked, Good, KeepsRow
<1>6. MaxTargets \in Nat
  BY CampaignAssumption
<1>7. /\ row.sentCount \in Nat /\ row.failedCount \in Nat
      /\ row2.sentCount = row.sentCount /\ row2.failedCount = row.failedCount
  BY DEF Rows, KeepsRow
<1>8. ASSUME row2.groupOnly PROVE Bounded(row2, h, g, c)
  <2>0. Bounded(row, h, f, c)
    BY <1>8 DEF Good, KeepsRow
  <2>1. Within(row2, h, g, c, MaxTargets + 1, 0)
    BY <2>0, <1>1, <1>6, WithinWeaker DEF Bounded
  <2>2. ASSUME NEW r \in Runs, Current(row, f, c, r), ~Current(row2, g, c, r)
        PROVE  /\ row2.status = "RUNNING" =>
                    Within(row2, h, g, c, row2.sentCount + row2.failedCount + 1, Reserve(g, c))
               /\ \A s \in Runs : Candidate(g, c, s) =>
                    Within(row2, h, g, c, 0, Reserve(g, c) + 1)
    <3>1. Sender(f, c, r) /\ Reached(f[r]) \in Nat /\ f[r].i \in Nat
      BY <2>2, SenderType DEF Current
    <3>2. CASE f[r].lapsed
      <4>1. Within(row, h, f, c, Reached(f[r]), 2 + Reserve(f, c))
        BY <2>0, <2>2, <3>2 DEF Bounded
      <4>2. Within(row2, h, g, c, 0, Reserve(g, c) + 1)
        BY <4>1, <3>1, <1>1, <1>4, WithinWeaker
      <4>3. Within(row2, h, g, c, row2.sentCount + row2.failedCount + 1, Reserve(g, c))
        BY <4>1, <3>1, <1>1, <1>4, <1>7, WithinWeaker
      <4> QED
        BY <4>2, <4>3
    <3>3. CASE ~f[r].lapsed
      <4>1. \A s \in Runs : ~Candidate(g, c, s)
        BY <3>3, <2>2, <1>3 DEF Good, Marked
      <4>2. Reserve(g, c) = 0
        BY <4>1 DEF Reserve
      <4>3. ASSUME row2.status = "RUNNING"
            PROVE  Within(row2, h, g, c, row2.sentCount + row2.failedCount + 1, 0)
        <5>1. row.status = "RUNNING"
          BY <4>3 DEF KeepsRow
        <5>2. f[r].pc # "countSent"
          BY <4>3, <2>2, <3>1 DEF Gone, Same, Current, KeepsRow
        <5>3. Reached(f[r]) = f[r].i
          BY <5>2 DEF Reached
        <5>4. CASE Exact(row, f[r])
          <6>1. Within(row, h, f, c, Reached(f[r]), 0)
            BY <2>0, <2>2, <3>3 DEF Bounded
          <6>2. Reached(f[r]) <= row2.sentCount + row2.failedCount + 1
            BY <5>4, <5>3, <1>7 DEF Exact
          <6> QED
            BY <6>1, <6>2, <3>1, <1>1, <1>7, WithinWeaker
        <5>5. CASE Within(row, h, f, c, Reached(f[r]), 1)
          BY <5>5, <3>1, <1>1, <1>7, WithinWeaker
        <5> QED
          BY <5>4, <5>5, <5>1, <2>0, <2>2, <3>3 DEF Bounded
      <4> QED
        BY <4>1, <4>2, <4>3
    <3> QED
      BY <3>2, <3>3
  <2>3. ASSUME row2.status = "RUNNING", NoCurrent(row2, g, c)
        PROVE  Within(row2, h, g, c, row2.sentCount + row2.failedCount + 1, Reserve(g, c))
    <3>1. CASE NoCurrent(row, f, c)
      <4>1. Within(row, h, f, c, row.sentCount + row.failedCount + 1, Reserve(f, c))
        BY <2>0, <2>3, <3>1 DEF Bounded, KeepsRow
      <4> QED
        BY <4>1, <1>1, <1>4, <1>7, WithinWeaker
    <3>2. CASE ~NoCurrent(row, f, c)
      BY <3>2, <2>2, <2>3 DEF NoCurrent
    <3> QED
      BY <3>1, <3>2
  <2>4. ASSUME NEW r \in Runs, Current(row2, g, c, r)
        PROVE  /\ ~g[r].lapsed => Within(row2, h, g, c, Reached(g[r]), 0)
               /\ g[r].lapsed => Within(row2, h, g, c, Reached(g[r]), 2 + Reserve(g, c))
               /\ ~g[r].lapsed /\ row2.status = "RUNNING" =>
                     Exact(row2, g[r]) \/ Within(row2, h, g, c, Reached(g[r]), 1)
    <3>1. Reached(f[r]) \in Nat /\ Reached(g[r]) = Reached(f[r]) /\ Current(row, f, c, r)
      BY <1>2, <2>4, SenderType
    <3>2. ~g[r].lapsed => Within(row2, h, g, c, Reached(g[r]), 0)
      BY <2>0, <2>4, <1>2, <3>1, <1>1, WithinWeaker DEF Bounded
    <3>3. ASSUME g[r].lapsed PROVE Within(row2, h, g, c, Reached(g[r]), 2 + Reserve(g, c))
      <4>1. Within(row, h, f, c, Reached(f[r]), 2 + Reserve(f, c))
        BY <2>0, <2>4, <1>2, <3>1, <3>3 DEF Bounded
      <4> QED
        BY <4>1, <3>1, <1>1, <1>4, WithinWeaker
    <3>4. ASSUME ~g[r].lapsed, row2.status = "RUNNING"
          PROVE  Exact(row2, g[r]) \/ Within(row2, h, g, c, Reached(g[r]), 1)
      <4>1. Exact(row, f[r]) \/ Within(row, h, f, c, Reached(f[r]), 1)
        BY <2>0, <2>4, <1>2, <3>1, <3>4 DEF Bounded, KeepsRow
      <4>2. CASE Exact(row, f[r])
        BY <4>2, <1>2, <2>4, <1>7 DEF Exact
      <4>3. CASE Within(row, h, f, c, Reached(f[r]), 1)
        BY <4>3, <3>1, <1>1, WithinWeaker
      <4> QED
        BY <4>1, <4>2, <4>3
    <3> QED
      BY <3>2, <3>3, <3>4
  <2>5. ASSUME NoCurrent(row2, g, c), NEW r \in Runs, Candidate(g, c, r), g[r].pc = "claim"
        PROVE  SameCounts(row2, g[r]) \/ Within(row2, h, g, c, 0, Reserve(g, c) + 1)
    <3>1. CASE NoCurrent(row, f, c)
      <4>1. SameCounts(row, f[r]) \/ Within(row, h, f, c, 0, Reserve(f, c) + 1)
        BY <2>0, <2>5, <1>3, <3>1 DEF Bounded
      <4>2. CASE SameCounts(row, f[r])
        BY <4>2, <1>3, <2>5, <1>7 DEF SameCounts
      <4>3. CASE Within(row, h, f, c, 0, Reserve(f, c) + 1)
        BY <4>3, <1>1, <1>4, WithinWeaker
      <4> QED
        BY <4>1, <4>2, <4>3
    <3>2. CASE ~NoCurrent(row, f, c)
      BY <3>2, <2>2, <2>5 DEF NoCurrent
    <3> QED
      BY <3>1, <3>2
  <2> QED
    BY <2>1, <2>3, <2>4, <2>5 DEF Bounded
<1>9. ASSUME row2.groupOnly PROVE Complete(row2, h, g, c)
  <2>0. Complete(row, h, f, c)
    BY <1>9 DEF Good, KeepsRow
  <2> SUFFICES ASSUME h.lapses = 0
               PROVE  /\ row2.sentCount + row2.failedCount
                            <= Below(h, row2.sentCount + row2.failedCount + 1)
                      /\ \A r \in Runs : Current(row2, g, c, r) /\ row2.status = "RUNNING" =>
                            /\ Exact(row2, g[r])
                            /\ g[r].sentCount + g[r].failedCount <= Below(h, Reached(g[r]))
                            /\ g[r].pc = "finish" => row2.totalTarget < g[r].i
                      /\ \A r \in Runs :
                            Candidate(g, c, r) /\ g[r].pc = "claim" => SameCounts(row2, g[r])
                      /\ row2.status = "COMPLETED" => row2.totalTarget <= Below(h, MaxTargets + 1)
    BY DEF Complete
  <2>1. ASSUME NEW r \in Runs, Current(row2, g, c, r), row2.status = "RUNNING"
        PROVE  /\ Exact(row2, g[r])
               /\ g[r].sentCount + g[r].failedCount <= Below(h, Reached(g[r]))
               /\ g[r].pc = "finish" => row2.totalTarget < g[r].i
    <3>1. row.status = "RUNNING" /\ Current(row, f, c, r)
      BY <2>1, <1>2 DEF KeepsRow
    <3>2. /\ Exact(row, f[r])
          /\ f[r].sentCount + f[r].failedCount <= Below(h, Reached(f[r]))
          /\ f[r].pc = "finish" => row.totalTarget < f[r].i
      BY <2>0, <3>1 DEF Complete
    <3> QED
      BY <3>2, <2>1, <1>2, <1>7 DEF Exact, KeepsRow
  <2>2. ASSUME NEW r \in Runs, Candidate(g, c, r), g[r].pc = "claim" PROVE SameCounts(row2, g[r])
    BY <2>0, <2>2, <1>3, <1>7 DEF Complete, SameCounts
  <2> QED
    BY <2>0, <2>1, <2>2, <1>7 DEF Complete, KeepsRow
<1> QED
  BY <1>5, <1>8, <1>9 DEF Good

\* The same when there are more faults.
LEMMA WithinFaults ==
    ASSUME NEW row, NEW h \in Cycles, NEW f, NEW c, NEW n \in Nat, NEW b \in Nat,
           NEW row2, NEW h2 \in Cycles, NEW g, NEW m \in Nat, NEW d \in Nat,
           Within(row, h, f, c, n, b), h2.got = h.got,
           \A t \in 1 .. MaxTargets : Astray(row2, g, c, t) \subseteq Astray(row, f, c, t),
           Faults(h) + d <= Faults(h2) + b, n <= m \/ Faults(h) + d + 1 <= Faults(h2) + b
    PROVE  Within(row2, h2, g, c, m, d)
<1> SUFFICES ASSUME NEW t \in 1 .. MaxTargets
             PROVE  /\ t < m => Load(row2, h2, g, c, t) + d <= Faults(h2) + 1
                    /\ t >= m => Load(row2, h2, g, c, t) + d <= Faults(h2)
  BY DEF Within
<1>1. Load(row2, h2, g, c, t) <= Load(row, h, f, c, t)
  BY LoadType, Part DEF Load
<1>2. /\ t < n => Load(row, h, f, c, t) + b <= Faults(h) + 1
      /\ t >= n => Load(row, h, f, c, t) + b <= Faults(h)
  BY DEF Within
<1>3. /\ Load(row2, h2, g, c, t) \in Nat /\ Load(row, h, f, c, t) \in Nat
      /\ Faults(h) \in Nat /\ Faults(h2) \in Nat /\ t \in Nat
  BY LoadType
<1> QED
  BY <1>1, <1>2, <1>3

\* What it means for the current execution, the candidates and those overtaken that
\* an execution looks the same.
LEMMA SameRun ==
    ASSUME NEW row, NEW f, NEW g, NEW c, NEW s, Same(f, g, c, s)
    PROVE  /\ Current(row, g, c, s) =>
                 /\ Current(row, f, c, s)
                 /\ g[s].pc = f[s].pc /\ g[s].i = f[s].i /\ g[s].lapsed = f[s].lapsed
                 /\ g[s].sentCount = f[s].sentCount /\ g[s].failedCount = f[s].failedCount
                 /\ Reached(g[s]) = Reached(f[s])
           /\ Current(row, f, c, s) => Current(row, g, c, s)
           /\ Candidate(g, c, s) =>
                 /\ Candidate(f, c, s) /\ g[s].pc = f[s].pc /\ g[s].lapsed = f[s].lapsed
                 /\ g[s].sentCount = f[s].sentCount /\ g[s].failedCount = f[s].failedCount
           /\ \A t : s \in Astray(row, g, c, t) => s \in Astray(row, f, c, t)
  BY DEF Current, Same, Reached, Astray, Sender

\* No execution is overtaken that was not before.
LEMMA AstraySame ==
    ASSUME NEW row, NEW f, NEW g, NEW c, NEW r, NEW t,
           \A s \in Runs : s # r => Same(f, g, c, s), r \notin Astray(row, g, c, t)
    PROVE  Astray(row, g, c, t) \subseteq Astray(row, f, c, t)
<1>1. ASSUME NEW s \in Astray(row, g, c, t) PROVE s \in Astray(row, f, c, t)
  <2>1. s \in Runs /\ s # r
    BY <1>1 DEF Astray
  <2> QED
    BY <1>1, <2>1, SameRun
<1> QED
  BY <1>1

\* A worker that dies after its claim costs one message.
LEMMA CrashGood ==
    ASSUME NEW row \in Rows, NEW h \in Cycles, NEW h2 \in Cycles, NEW f \in Execs,
           NEW g \in Execs, NEW c, NEW r \in Runs, Good(row, h, f, c), Sender(f, c, r),
           ~Sender(g, c, r), ~Candidate(g, c, r),
           \A s \in Runs : s # r => Same(f, g, c, s),
           h2.got = h.got, h2.tried = h.tried, h2.slips = h.slips, h2.lapses = h.lapses,
           h2.strays = h.strays + 1
    PROVE  Good(row, h2, g, c)
<1>1. /\ h2.got = h.got /\ h2.tried = h.tried /\ h2.slips = h.slips /\ h2.lapses = h.lapses
      /\ Faults(h2) = Faults(h) + 1 /\ Faults(h) \in Nat
  BY DEF Cycles, Faults
<1>2. \A n : Below(h2, n) = Below(h, n)
  BY <1>1 DEF Below
<1>3. \A t \in 1 .. MaxTargets : Astray(row, g, c, t) \subseteq Astray(row, f, c, t)
  <2>1. \A t : r \notin Astray(row, g, c, t)
    BY DEF Astray, Sender
  <2> QED
    BY <2>1, AstraySame
<1>4. \A s \in Runs : Current(row, g, c, s) =>
         /\ s # r /\ Current(row, f, c, s)
         /\ g[s].pc = f[s].pc /\ g[s].i = f[s].i /\ g[s].lapsed = f[s].lapsed
         /\ g[s].sentCount = f[s].sentCount /\ g[s].failedCount = f[s].failedCount
         /\ Reached(g[s]) = Reached(f[s])
  <2>1. ~Current(row, g, c, r)
    BY DEF Current
  <2> QED
    BY <2>1, SameRun
<1>5. \A s \in Runs : Candidate(g, c, s) =>
         /\ s # r /\ Candidate(f, c, s) /\ g[s].pc = f[s].pc /\ g[s].lapsed = f[s].lapsed
         /\ g[s].sentCount = f[s].sentCount /\ g[s].failedCount = f[s].failedCount
  BY SameRun
<1>6. Reserve(g, c) <= Reserve(f, c) /\ Reserve(g, c) \in Nat /\ Reserve(f, c) \in Nat
  BY <1>5, ReserveLess
<1>7. Marked(row, h2, g, c)
  <2>1. row.status # "NONE"
    BY DEF Good, Marked
  <2> QED
    BY <1>1, <1>4, <1>5, <2>1 DEF Good, Marked
<1>8. /\ row.sentCount \in Nat /\ row.failedCount \in Nat /\ MaxTargets \in Nat
      /\ Reached(f[r]) \in Nat
  BY CampaignAssumption, SenderType DEF Rows
<1>9. ASSUME row.groupOnly PROVE Bounded(row, h2, g, c)
  <2>0. Bounded(row, h, f, c)
    BY <1>9 DEF Good
  <2>1. Within(row, h2, g, c, MaxTargets + 1, 0)
    BY <2>0, <1>1, <1>3, <1>8, WithinFaults DEF Bounded
  <2>2. ASSUME row.status = "RUNNING", NoCurrent(row, g, c)
        PROVE  Within(row, h2, g, c, row.sentCount + row.failedCount + 1, Reserve(g, c))
    <3>1. CASE Current(row, f, c, r) /\ f[r].lapsed
      <4>1. Within(row, h, f, c, Reached(f[r]), 2 + Reserve(f, c))
        BY <2>0, <3>1 DEF Bounded
      <4> QED
        BY <4>1, <1>1, <1>3, <1>6, <1>8, WithinFaults
    <3>2. CASE Current(row, f, c, r) /\ ~f[r].lapsed
      <4>1. Within(row, h, f, c, Reached(f[r]), 0)
        BY <2>0, <3>2 DEF Bounded
      <4>2. Reserve(g, c) = 0
        BY <3>2, <1>5 DEF Reserve, Good, Marked
      <4> QED
        BY <4>1, <4>2, <1>1, <1>3, <1>8, WithinFaults
    <3>3. CASE ~Current(row, f, c, r)
      <4>1. NoCurrent(row, f, c)
        BY <3>3, <2>2, SameRun DEF NoCurrent
      <4>2. Within(row, h, f, c, row.sentCount + row.failedCount + 1, Reserve(f, c))
        BY <2>0, <2>2, <4>1 DEF Bounded
      <4> QED
        BY <4>2, <1>1, <1>3, <1>6, <1>8, WithinFaults
    <3> QED
      BY <3>1, <3>2, <3>3
  <2>3. ASSUME NEW s \in Runs, Current(row, g, c, s)
        PROVE  /\ ~g[s].lapsed => Within(row, h2, g, c, Reached(g[s]), 0)
               /\ g[s].lapsed => Within(row, h2, g, c, Reached(g[s]), 2 + Reserve(g, c))
               /\ ~g[s].lapsed /\ row.status = "RUNNING" =>
                     Exact(row, g[s]) \/ Within(row, h2, g, c, Reached(g[s]), 1)
    <3>1. /\ Current(row, f, c, s) /\ Reached(g[s]) = Reached(f[s]) /\ Reached(f[s]) \in Nat
          /\ g[s].lapsed = f[s].lapsed
      BY <1>4, <2>3, SenderType DEF Current
    <3>2. ASSUME ~g[s].lapsed PROVE Within(row, h2, g, c, Reached(g[s]), 1)
      <4>1. Within(row, h, f, c, Reached(f[s]), 0)
        BY <2>0, <3>1, <3>2 DEF Bounded
      <4> QED
        BY <4>1, <3>1, <1>1, <1>3, WithinFaults
    <3>3. ASSUME ~g[s].lapsed PROVE Within(row, h2, g, c, Reached(g[s]), 0)
      <4>1. Within(row, h, f, c, Reached(f[s]), 0)
        BY <2>0, <3>1, <3>3 DEF Bounded
      <4> QED
        BY <4>1, <3>1, <1>1, <1>3, WithinFaults
    <3>4. ASSUME g[s].lapsed PROVE Within(row, h2, g, c, Reached(g[s]), 2 + Reserve(g, c))
      <4>1. Within(row, h, f, c, Reached(f[s]), 2 + Reserve(f, c))
        BY <2>0, <3>1, <3>4 DEF Bounded
      <4> QED
        BY <4>1, <3>1, <1>1, <1>3, <1>6, WithinFaults
    <3> QED
      BY <3>2, <3>3, <3>4
  <2>4. ASSUME NoCurrent(row, g, c), NEW s \in Runs, Candidate(g, c, s), g[s].pc = "claim"
        PROVE  SameCounts(row, g[s]) \/ Within(row, h2, g, c, 0, Reserve(g, c) + 1)
    <3>1. CASE Current(row, f, c, r)
      <4>1. f[r].lapsed
        BY <3>1, <2>4, <1>5 DEF Good, Marked
      <4>2. Within(row, h, f, c, Reached(f[r]), 2 + Reserve(f, c))
        BY <2>0, <3>1, <4>1 DEF Bounded
      <4> QED
        BY <4>2, <1>1, <1>3, <1>6, <1>8, WithinFaults
    <3>2. CASE ~Current(row, f, c, r)
      <4>1. NoCurrent(row, f, c)
        BY <3>2, <2>4, SameRun DEF NoCurrent
      <4>2. SameCounts(row, f[s]) \/ Within(row, h, f, c, 0, Reserve(f, c) + 1)
        BY <2>0, <2>4, <4>1, <1>5 DEF Bounded
      <4>3. CASE SameCounts(row, f[s])
        BY <4>3, <1>5, <2>4 DEF SameCounts
      <4>4. CASE Within(row, h, f, c, 0, Reserve(f, c) + 1)
        BY <4>4, <1>1, <1>3, <1>6, WithinFaults
      <4> QED
        BY <4>2, <4>3, <4>4
    <3> QED
      BY <3>1, <3>2
  <2> QED
    BY <2>1, <2>2, <2>3, <2>4 DEF Bounded
<1>10. ASSUME row.groupOnly PROVE Complete(row, h2, g, c)
  <2>0. Complete(row, h, f, c)
    BY <1>10 DEF Good
  <2>1. ASSUME NEW s \in Runs, Current(row, g, c, s), Exact(row, f[s]) PROVE Exact(row, g[s])
    BY <2>1, <1>4 DEF Exact
  <2>2. ASSUME NEW s \in Runs, Candidate(g, c, s), SameCounts(row, f[s])
        PROVE  SameCounts(row, g[s])
    BY <2>2, <1>5 DEF SameCounts
  <2> QED
    BY <2>0, <2>1, <2>2, <1>1, <1>2, <1>4, <1>5 DEF Complete
<1> QED
  BY <1>7, <1>9, <1>10 DEF Good

\* The groups tried before n can be counted.
LEMMA BelowType ==
    ASSUME NEW h \in Cycles, NEW n \in Nat
    PROVE  /\ IsFiniteSet({t \in h.tried : t < n})
           /\ Cardinality({t \in h.tried : t < n}) \in Nat
           /\ Below(h, n) \in Nat
<1>1. h.tried \subseteq 1 .. MaxTargets /\ h.slips \in Nat /\ MaxTargets \in Nat
  BY CampaignAssumption DEF Cycles
<1>2. IsFiniteSet(1 .. MaxTargets)
  BY <1>1, FS_Interval
<1>3. {t \in h.tried : t < n} \subseteq 1 .. MaxTargets
  BY <1>1
<1>4. IsFiniteSet({t \in h.tried : t < n}) /\ Cardinality({t \in h.tried : t < n}) \in Nat
  BY <1>2, <1>3, Part
<1> QED
  BY <1>1, <1>4 DEF Below

\* They are more the later n is, by one at most from n to n + 1.
LEMMA BelowMore ==
    ASSUME NEW h \in Cycles, NEW n \in Nat, NEW m \in Nat,
           \A t \in h.tried : t < n => t < m
    PROVE  Below(h, n) <= Below(h, m)
<1>1. {t \in h.tried : t < n} \subseteq {t \in h.tried : t < m}
  OBVIOUS
<1>2. /\ IsFiniteSet({t \in h.tried : t < m})
      /\ Cardinality({t \in h.tried : t < n}) \in Nat /\ Cardinality({t \in h.tried : t < m}) \in Nat
      /\ h.slips \in Nat
  BY BelowType DEF Cycles
<1>3. Cardinality({t \in h.tried : t < n}) <= Cardinality({t \in h.tried : t < m})
  BY <1>1, <1>2, Part
<1> QED
  BY <1>2, <1>3 DEF Below

\* All that was tried is below the last group's successor.
LEMMA BelowAll ==
    ASSUME NEW h \in Cycles, NEW n \in Nat
    PROVE  Below(h, n) <= Below(h, MaxTargets + 1)
<1>1. h.tried \subseteq 1 .. MaxTargets /\ MaxTargets \in Nat
  BY CampaignAssumption DEF Cycles
<1>2. \A t \in h.tried : t < n => t < MaxTargets + 1
  BY <1>1
<1> QED
  BY <1>1, <1>2, BelowMore

\* One group makes a difference of one at most.
LEMMA BelowNext ==
    ASSUME NEW h \in Cycles, NEW n \in Nat
    PROVE  Below(h, n + 1) <= Below(h, n) + 1
<1>1. h.tried \subseteq Nat /\ h.slips \in Nat
  BY DEF Cycles
<1>2. {t \in h.tried : t < n + 1} \subseteq {t \in h.tried : t < n} \cup {n}
  BY <1>1
<1>3. /\ IsFiniteSet({t \in h.tried : t < n})
      /\ Cardinality({t \in h.tried : t < n}) \in Nat
      /\ Cardinality({t \in h.tried : t < n + 1}) \in Nat
  BY BelowType, SMTT(40)
<1>4. Cardinality({t \in h.tried : t < n + 1}) <= Cardinality({t \in h.tried : t < n}) + 1
  BY <1>2, <1>3, PartMore
<1>5. /\ Below(h, n + 1) = Cardinality({t \in h.tried : t < n + 1}) + h.slips
      /\ Below(h, n) = Cardinality({t \in h.tried : t < n}) + h.slips
  BY DEF Below
<1> QED
  BY <1>1, <1>3, <1>4, <1>5

\* A message to a group not counted before n counts for n + 1.
LEMMA BelowTried ==
    ASSUME NEW h \in Cycles, NEW h2 \in Cycles, NEW n \in Nat, n \in 1 .. MaxTargets,
           h2.tried = h.tried \cup {n}, h2.slips = h.slips
    PROVE  /\ Below(h, n) + 1 <= Below(h2, n + 1)
           /\ \A m \in Nat : Below(h, m) <= Below(h2, m)
<1>1. /\ h2.tried \subseteq 1 .. MaxTargets /\ h.tried \subseteq 1 .. MaxTargets
      /\ h.slips \in Nat
  BY DEF Cycles
<1>2. n \in {t \in h2.tried : t < n + 1}
  OBVIOUS
<1>3. {t \in h.tried : t < n} \subseteq {t \in h2.tried : t < n + 1} \ {n}
  BY <1>1
<1>4. IsFiniteSet({t \in h2.tried : t < n + 1})
  BY BelowType
<1>5. Cardinality({t \in h.tried : t < n}) + 1 <= Cardinality({t \in h2.tried : t < n + 1})
  BY <1>2, <1>3, <1>4, PartLess
<1>6. Cardinality({t \in h.tried : t < n}) \in Nat /\ Cardinality({t \in h2.tried : t < n + 1}) \in Nat
  BY BelowType, FS_CardinalityType
<1>7. ASSUME NEW m \in Nat PROVE Below(h, m) <= Below(h2, m)
  <2>1. {t \in h.tried : t < m} \subseteq {t \in h2.tried : t < m}
    OBVIOUS
  <2>2. IsFiniteSet({t \in h2.tried : t < m})
    BY BelowType
  <2> QED
    BY <2>1, <2>2, <1>1, Part DEF Below
<1> QED
  BY <1>1, <1>5, <1>6, <1>7 DEF Below

\* A new cycle owes only what the executions about to send will do.
LEMMA CycleGood ==
    ASSUME NEW row2 \in Rows, NEW h2 \in Cycles, NEW g, NEW c, NEW S \in SUBSET Runs,
           row2.status = "RUNNING", row2.sentCount = 0, row2.failedCount = 0,
           \A s \in Runs : ~Current(row2, g, c, s) /\ ~Candidate(g, c, s),
           \A t \in 1 .. MaxTargets : h2.got[t] = 0 /\ Astray(row2, g, c, t) \subseteq S,
           h2.lapses = 0, h2.strays = Cardinality(S)
    PROVE  Good(row2, h2, g, c)
<1>1. Reserve(g, c) = 0
  BY DEF Reserve
<1>2. IsFiniteSet(S) /\ Cardinality(S) \in Nat /\ Faults(h2) = Cardinality(S)
  BY Part, CampaignAssumption DEF Faults
<1>3. ASSUME NEW n \in Nat PROVE Within(row2, h2, g, c, n, 0)
  <2> SUFFICES ASSUME NEW t \in 1 .. MaxTargets
               PROVE  Load(row2, h2, g, c, t) \in Nat /\ Load(row2, h2, g, c, t) <= Faults(h2)
    BY <1>2 DEF Within
  <2>1. Cardinality(Astray(row2, g, c, t)) <= Cardinality(S)
    BY <1>2, Part
  <2> QED
    BY <2>1, <1>2, LoadType DEF Load
<1>4. MaxTargets \in Nat /\ Below(h2, 1) \in Nat
  BY CampaignAssumption, BelowType
<1>5. Marked(row2, h2, g, c)
  BY DEF Marked
<1>6. Bounded(row2, h2, g, c)
  BY <1>1, <1>3, <1>4 DEF Bounded, NoCurrent
<1>7. Complete(row2, h2, g, c)
  BY <1>4 DEF Complete
<1> QED
  BY <1>5, <1>6, <1>7 DEF Good

\* A new campaign has no executions and has sent nothing.
LEMMA CreateGood ==
    ASSUME NEW row \in Rows, NEW row2 \in Rows, NEW h \in Cycles, NEW f, NEW c,
           Good(row, h, f, c), row.status = "NONE", row2.status \in {"DRAFT", "RUNNING"},
           row2.sentCount = row.sentCount, row2.failedCount = row.failedCount
    PROVE  Good(row2, h, f, c)
<1>1. /\ \A s \in Runs : ~Sender(f, c, s) /\ ~Candidate(f, c, s)
      /\ \A t \in 1 .. MaxTargets : h.got[t] = 0
      /\ row2.sentCount = 0 /\ row2.failedCount = 0
  BY DEF Good, Marked
<1>2. Reserve(f, c) = 0 /\ \A s \in Runs : ~Current(row2, f, c, s)
  BY <1>1 DEF Reserve, Current
<1>3. ASSUME NEW n \in Nat PROVE Within(row2, h, f, c, n, 0)
  <2> SUFFICES ASSUME NEW t \in 1 .. MaxTargets
               PROVE  Load(row2, h, f, c, t) = 0 /\ Faults(h) \in Nat
    BY DEF Within
  <2>1. Astray(row2, f, c, t) = {}
    BY <1>1 DEF Astray, Sender
  <2> QED
    BY <2>1, <1>1, LoadType, FS_EmptySet DEF Load
<1>4. MaxTargets \in Nat /\ Below(h, 1) \in Nat
  BY CampaignAssumption, BelowType
<1>5. Marked(row2, h, f, c)
  BY <1>1, <1>2 DEF Marked
<1>6. Bounded(row2, h, f, c)
  BY <1>1, <1>2, <1>3, <1>4 DEF Bounded, NoCurrent
<1>7. Complete(row2, h, f, c)
  BY <1>1, <1>2, <1>4 DEF Complete
<1> QED
  BY <1>5, <1>6, <1>7 DEF Good

\* An execution that has just taken the free lock: whoever else works for the
\* campaign has lost it.
LEMMA PickUpGood ==
    ASSUME NEW row \in Rows, NEW h \in Cycles, NEW f \in Execs, NEW g \in Execs, NEW c,
           NEW r \in Runs, Good(row, h, f, c), row.status = "RUNNING",
           ~Sender(f, c, r), g[r].pc = "read", ~g[r].lapsed,
           \A s \in Runs : s # r => Same(f, g, c, s),
           \A s \in Runs : Sender(f, c, s) => f[s].lapsed
    PROVE  Good(row, h, g, c)
<1>1. \A s \in Runs : Current(row, g, c, s) =>
         /\ s # r /\ Current(row, f, c, s) /\ f[s].lapsed
         /\ g[s].pc = f[s].pc /\ g[s].i = f[s].i /\ g[s].lapsed = f[s].lapsed
         /\ g[s].sentCount = f[s].sentCount /\ g[s].failedCount = f[s].failedCount
         /\ Reached(g[s]) = Reached(f[s])
  <2>1. ~Current(row, g, c, r)
    BY DEF Current, Sender
  <2>2. ASSUME NEW s \in Runs, Current(row, g, c, s)
        PROVE  /\ s # r /\ Current(row, f, c, s) /\ f[s].lapsed
               /\ g[s].pc = f[s].pc /\ g[s].i = f[s].i /\ g[s].lapsed = f[s].lapsed
               /\ g[s].sentCount = f[s].sentCount /\ g[s].failedCount = f[s].failedCount
               /\ Reached(g[s]) = Reached(f[s])
    <3>1. Current(row, f, c, s) => Sender(f, c, s)
      BY DEF Current
    <3> QED
      BY <2>1, <2>2, <3>1, SameRun
  <2> QED
    BY <2>2
<1>2. \A s \in Runs : s # r /\ Candidate(g, c, s) =>
         /\ Candidate(f, c, s) /\ g[s].pc = f[s].pc /\ g[s].lapsed = f[s].lapsed
         /\ g[s].sentCount = f[s].sentCount /\ g[s].failedCount = f[s].failedCount
  BY SameRun
<1>3. Reserve(g, c) <= Reserve(f, c) /\ Reserve(g, c) \in Nat /\ Reserve(f, c) \in Nat
  <2>1. (\E s \in Runs : Candidate(g, c, s) /\ g[s].lapsed)
          => (\E s \in Runs : Candidate(f, c, s) /\ f[s].lapsed)
    BY <1>2
  <2> QED
    BY <2>1 DEF Reserve
<1>4. \A t \in 1 .. MaxTargets : Astray(row, g, c, t) \subseteq Astray(row, f, c, t)
  <2>1. \A t : r \notin Astray(row, g, c, t)
    BY DEF Astray
  <2> QED
    BY <2>1, AstraySame
<1>5. /\ row.sentCount \in Nat /\ row.failedCount \in Nat /\ MaxTargets \in Nat
  BY CampaignAssumption DEF Rows
<1>6. NoCurrent(row, g, c) => NoCurrent(row, f, c)
  BY SameRun DEF NoCurrent, Current
<1>7. Marked(row, h, g, c)
  BY <1>1, <1>2 DEF Good, Marked
<1>8. ASSUME row.groupOnly PROVE Bounded(row, h, g, c)
  <2>0. Bounded(row, h, f, c)
    BY <1>8 DEF Good
  <2>1. Within(row, h, g, c, MaxTargets + 1, 0)
    BY <2>0, <1>4, <1>5, WithinWeaker DEF Bounded
  <2>2. ASSUME NoCurrent(row, g, c)
        PROVE  Within(row, h, g, c, row.sentCount + row.failedCount + 1, Reserve(g, c))
    <3>1. Within(row, h, f, c, row.sentCount + row.failedCount + 1, Reserve(f, c))
      BY <2>0, <2>2, <1>6 DEF Bounded
    <3> QED
      BY <3>1, <1>3, <1>4, <1>5, WithinWeaker
  <2>3. ASSUME NEW s \in Runs, Current(row, g, c, s)
        PROVE  g[s].lapsed /\ Within(row, h, g, c, Reached(g[s]), 2 + Reserve(g, c))
    <3>1. /\ Current(row, f, c, s) /\ Reached(g[s]) = Reached(f[s]) /\ Reached(f[s]) \in Nat
          /\ g[s].lapsed /\ f[s].lapsed
      BY <1>1, <2>3, SenderType DEF Current
    <3>2. Within(row, h, f, c, Reached(f[s]), 2 + Reserve(f, c))
      BY <2>0, <3>1 DEF Bounded
    <3> QED
      BY <3>1, <3>2, <1>3, <1>4, WithinWeaker
  <2>4. ASSUME NoCurrent(row, g, c), NEW s \in Runs, Candidate(g, c, s), g[s].pc = "claim"
        PROVE  SameCounts(row, g[s]) \/ Within(row, h, g, c, 0, Reserve(g, c) + 1)
    <3>1. s # r
      BY <2>4
    <3>2. SameCounts(row, f[s]) \/ Within(row, h, f, c, 0, Reserve(f, c) + 1)
      BY <2>0, <2>4, <3>1, <1>2, <1>6 DEF Bounded
    <3>3. CASE SameCounts(row, f[s])
      BY <3>1, <3>3, <1>2, <2>4 DEF SameCounts
    <3>4. CASE Within(row, h, f, c, 0, Reserve(f, c) + 1)
      BY <3>4, <1>3, <1>4, WithinWeaker
    <3> QED
      BY <3>2, <3>3, <3>4
  <2> QED
    BY <2>1, <2>2, <2>3, <2>4 DEF Bounded
<1>9. ASSUME row.groupOnly PROVE Complete(row, h, g, c)
  <2>0. Complete(row, h, f, c)
    BY <1>9 DEF Good
  <2>1. ASSUME NEW s \in Runs, Current(row, g, c, s), Exact(row, f[s]) PROVE Exact(row, g[s])
    BY <2>1, <1>1 DEF Exact
  <2>2. ASSUME NEW s \in Runs, Candidate(g, c, s), g[s].pc = "claim",
               Candidate(f, c, s) /\ f[s].pc = "claim" => SameCounts(row, f[s])
        PROVE  SameCounts(row, g[s])
    BY <2>2, <1>2 DEF SameCounts
  <2> QED
    BY <2>0, <2>1, <2>2, <1>1 DEF Complete
<1> QED
  BY <1>7, <1>8, <1>9 DEF Good

\* A candidate that has read the row holds its counters.
LEMMA ReadGood ==
    ASSUME NEW row \in Rows, NEW h \in Cycles, NEW f \in Execs, NEW g \in Execs, NEW c,
           NEW r \in Runs, Good(row, h, f, c), Candidate(f, c, r), f[r].pc = "read",
           g[r].pc = "claim", g[r].lapsed = f[r].lapsed, SameCounts(row, g[r]),
           \A s \in Runs : s # r => Same(f, g, c, s)
    PROVE  Good(row, h, g, c)
<1>1. \A s \in Runs : Current(row, g, c, s) =>
         /\ s # r /\ Current(row, f, c, s)
         /\ g[s].pc = f[s].pc /\ g[s].i = f[s].i /\ g[s].lapsed = f[s].lapsed
         /\ g[s].sentCount = f[s].sentCount /\ g[s].failedCount = f[s].failedCount
         /\ Reached(g[s]) = Reached(f[s])
  <2>1. ~Current(row, g, c, r)
    BY DEF Current, Sender
  <2> QED
    BY <2>1, SameRun
<1>2. \A s \in Runs : Candidate(g, c, s) =>
         /\ Candidate(f, c, s) /\ g[s].lapsed = f[s].lapsed
         /\ s # r => /\ g[s].pc = f[s].pc
                     /\ g[s].sentCount = f[s].sentCount /\ g[s].failedCount = f[s].failedCount
  BY SameRun
<1>3. Reserve(g, c) <= Reserve(f, c) /\ Reserve(g, c) \in Nat /\ Reserve(f, c) \in Nat
  BY <1>2, ReserveLess
<1>4. \A t \in 1 .. MaxTargets : Astray(row, g, c, t) \subseteq Astray(row, f, c, t)
  <2>1. \A t : r \notin Astray(row, g, c, t)
    BY DEF Astray
  <2> QED
    BY <2>1, AstraySame
<1>5. /\ row.sentCount \in Nat /\ row.failedCount \in Nat /\ MaxTargets \in Nat
  BY CampaignAssumption DEF Rows
<1>6. NoCurrent(row, g, c) => NoCurrent(row, f, c)
  <2>1. ~Current(row, f, c, r)
    BY DEF Current, Sender
  <2> QED
    BY <2>1, SameRun DEF NoCurrent
<1>7. Marked(row, h, g, c)
  <2>1. row.status # "NONE"
    BY DEF Good, Marked
  <2> QED
    BY <2>1, <1>1, <1>2 DEF Good, Marked
<1>8. ASSUME row.groupOnly PROVE Bounded(row, h, g, c)
  <2>0. Bounded(row, h, f, c)
    BY <1>8 DEF Good
  <2>1. Within(row, h, g, c, MaxTargets + 1, 0)
    BY <2>0, <1>4, <1>5, WithinWeaker DEF Bounded
  <2>2. ASSUME row.status = "RUNNING", NoCurrent(row, g, c)
        PROVE  Within(row, h, g, c, row.sentCount + row.failedCount + 1, Reserve(g, c))
    <3>1. Within(row, h, f, c, row.sentCount + row.failedCount + 1, Reserve(f, c))
      BY <2>0, <2>2, <1>6 DEF Bounded
    <3> QED
      BY <3>1, <1>3, <1>4, <1>5, WithinWeaker
  <2>3. ASSUME NEW s \in Runs, Current(row, g, c, s)
        PROVE  g[s].lapsed /\ Within(row, h, g, c, Reached(g[s]), 2 + Reserve(g, c))
    <3>1. /\ Current(row, f, c, s) /\ Reached(g[s]) = Reached(f[s]) /\ Reached(f[s]) \in Nat
          /\ g[s].lapsed = f[s].lapsed
      BY <1>1, <2>3, SenderType DEF Current
    <3>2. f[s].lapsed
      BY <3>1 DEF Good, Marked
    <3>3. Within(row, h, f, c, Reached(f[s]), 2 + Reserve(f, c))
      BY <2>0, <3>1, <3>2 DEF Bounded
    <3> QED
      BY <3>1, <3>2, <3>3, <1>3, <1>4, WithinWeaker
  <2>4. ASSUME NoCurrent(row, g, c), NEW s \in Runs, Candidate(g, c, s), g[s].pc = "claim"
        PROVE  SameCounts(row, g[s]) \/ Within(row, h, g, c, 0, Reserve(g, c) + 1)
    <3>1. CASE s # r
      <4>2. SameCounts(row, f[s]) \/ Within(row, h, f, c, 0, Reserve(f, c) + 1)
        BY <2>0, <2>4, <3>1, <1>2, <1>6 DEF Bounded
      <4>3. CASE SameCounts(row, f[s])
        BY <3>1, <4>3, <1>2, <2>4 DEF SameCounts
      <4>4. CASE Within(row, h, f, c, 0, Reserve(f, c) + 1)
        BY <4>4, <1>3, <1>4, WithinWeaker
      <4> QED
        BY <4>2, <4>3, <4>4
    <3> QED
      BY <3>1
  <2> QED
    BY <2>1, <2>2, <2>3, <2>4 DEF Bounded
<1>9. ASSUME row.groupOnly PROVE Complete(row, h, g, c)
  <2>0. Complete(row, h, f, c)
    BY <1>9 DEF Good
  <2>1. ASSUME NEW s \in Runs, Current(row, g, c, s), Exact(row, f[s]) PROVE Exact(row, g[s])
    BY <2>1, <1>1 DEF Exact
  <2>2. ASSUME NEW s \in Runs, Candidate(g, c, s), g[s].pc = "claim",
               Candidate(f, c, s) /\ f[s].pc = "claim" => SameCounts(row, f[s])
        PROVE  SameCounts(row, g[s])
    BY <2>2, <1>2 DEF SameCounts
  <2> QED
    BY <2>0, <2>1, <2>2, <1>1 DEF Complete
<1> QED
  BY <1>7, <1>8, <1>9 DEF Good

\* A claim: the execution starts behind what the row counts, or a lock that expired
\* pays for what it sends again.
LEMMA ClaimGood ==
    ASSUME NEW row \in Rows, NEW row2 \in Rows, NEW h \in Cycles, NEW f \in Execs,
           NEW g \in Execs, NEW c, NEW r \in Runs, Good(row, h, f, c),
           Candidate(f, c, r), f[r].pc = "claim", row.status = "RUNNING",
           row2.status = "RUNNING", row2.lastRunAt = r, row2.groupOnly = row.groupOnly,
           row2.sentCount = row.sentCount, row2.failedCount = row.failedCount,
           Sender(g, c, r), g[r].pc = "check", g[r].lapsed = f[r].lapsed,
           g[r].sentCount = f[r].sentCount, g[r].failedCount = f[r].failedCount,
           row.groupOnly => g[r].i = f[r].sentCount + f[r].failedCount + 1,
           \A s \in Runs : ~Candidate(g, c, s),
           \A s \in Runs : s # r => Same(f, g, c, s)
    PROVE  Good(row2, h, g, c)
<1>1. \A s \in Runs : Current(row2, g, c, s) <=> s = r
  BY DEF Current
<1>2. Reserve(g, c) = 0 /\ Reserve(f, c) \in {0, 2} /\ (f[r].lapsed => Reserve(f, c) = 2)
  BY DEF Reserve
<1>3. /\ row.sentCount \in Nat /\ row.failedCount \in Nat /\ MaxTargets \in Nat
      /\ f[r].sentCount \in Nat /\ f[r].failedCount \in Nat
      /\ g[r].i \in Nat /\ Reached(g[r]) = g[r].i
  BY CampaignAssumption, SenderType DEF Rows, Reached
<1>4. Marked(row2, h, g, c)
  BY <1>1 DEF Good, Marked
<1>5. ASSUME NEW s \in Runs, NEW t, s \in Astray(row2, g, c, t)
      PROVE  s \in Astray(row, f, c, t) \/ (Current(row, f, c, s) /\ f[s].pc = "send" /\ f[s].i = t)
  <2>1. s # r /\ g[s].pc = "send" /\ g[s].c = c /\ g[s].i = t
    BY <1>5 DEF Astray
  <2>2. f[s].pc = "send" /\ f[s].c = c /\ f[s].i = t
    BY <2>1 DEF Same, Sender
  <2> QED
    BY <2>2 DEF Astray, Current, Sender
<1>6. ASSUME row.groupOnly, NEW p \in Runs, Current(row, f, c, p), NEW n \in Nat, NEW b \in Nat,
             b <= 1 + Reserve(f, c)
      PROVE  Within(row2, h, g, c, n, b)
  <2>1. f[p].lapsed
    BY <1>6 DEF Good, Marked
  <2>2. Within(row, h, f, c, Reached(f[p]), 2 + Reserve(f, c)) /\ Reached(f[p]) \in Nat
    BY <1>6, <2>1, SenderType DEF Good, Bounded, Current
  <2>3. ASSUME NEW t \in 1 .. MaxTargets
        PROVE  /\ Load(row2, h, g, c, t) \in Nat /\ Load(row, h, f, c, t) \in Nat
               /\ Faults(h) \in Nat /\ t \in Nat
               /\ Load(row2, h, g, c, t) <= Load(row, h, f, c, t) + 1
               /\ t < Reached(f[p]) => Load(row2, h, g, c, t) <= Load(row, h, f, c, t)
    <3>1. /\ Load(row2, h, g, c, t) \in Nat /\ Load(row, h, f, c, t) \in Nat
          /\ Faults(h) \in Nat /\ t \in Nat /\ h.got[t] \in Nat
          /\ IsFiniteSet(Astray(row, f, c, t))
      BY LoadType
    <3>2. Astray(row2, g, c, t) \subseteq Astray(row, f, c, t) \cup {p}
      <4>1. ASSUME NEW s \in Astray(row2, g, c, t) PROVE s \in Astray(row, f, c, t) \cup {p}
        <5>1. s \in Runs
          BY DEF Astray
        <5> QED
          BY <5>1, <1>5, <1>6 DEF Current
      <4> QED
        BY <4>1
    <3>3. Load(row2, h, g, c, t) <= Load(row, h, f, c, t) + 1
      BY <3>1, <3>2, PartMore DEF Load
    <3>4. ASSUME t < Reached(f[p]) PROVE Load(row2, h, g, c, t) <= Load(row, h, f, c, t)
      <4>1. ~(f[p].pc = "send" /\ f[p].i = t)
        BY <3>4, <3>1 DEF Reached
      <4>2. Astray(row2, g, c, t) \subseteq Astray(row, f, c, t)
        <5>1. ASSUME NEW s \in Astray(row2, g, c, t) PROVE s \in Astray(row, f, c, t)
          <6>1. s \in Runs
            BY DEF Astray
          <6>2. Current(row, f, c, s) => s = p
            BY <1>6 DEF Current
          <6> QED
            BY <6>1, <6>2, <1>5, <4>1
        <5> QED
          BY <5>1
      <4> QED
        BY <4>2, <3>1, Part DEF Load
    <3> QED
      BY <3>1, <3>3, <3>4
  <2>4. ASSUME NEW t \in 1 .. MaxTargets
        PROVE  Load(row2, h, g, c, t) + b <= Faults(h)
    <3>1. /\ t < Reached(f[p]) => Load(row, h, f, c, t) + (2 + Reserve(f, c)) <= Faults(h) + 1
          /\ t >= Reached(f[p]) => Load(row, h, f, c, t) + (2 + Reserve(f, c)) <= Faults(h)
      BY <2>2 DEF Within
    <3> QED
      BY <3>1, <2>2, <2>3, <1>2, <1>6
  <2> QED
    BY <2>4, <2>3 DEF Within
<1>7. ASSUME NoCurrent(row, f, c), NEW t \in 1 .. MaxTargets
      PROVE  Astray(row2, g, c, t) \subseteq Astray(row, f, c, t)
  <2>1. ASSUME NEW s \in Astray(row2, g, c, t) PROVE s \in Astray(row, f, c, t)
    <3>1. s \in Runs
      BY DEF Astray
    <3> QED
      BY <3>1, <1>5, <1>7 DEF NoCurrent
  <2> QED
    BY <2>1
<1>8. ASSUME row2.groupOnly PROVE Bounded(row2, h, g, c)
  <2>0. Bounded(row, h, f, c) /\ row.groupOnly
    BY <1>8 DEF Good
  <2>1. Within(row2, h, g, c, MaxTargets + 1, 0)
    <3>1. CASE NoCurrent(row, f, c)
      BY <2>0, <3>1, <1>3, <1>7, WithinWeaker DEF Bounded
    <3>2. CASE ~NoCurrent(row, f, c)
      BY <2>0, <3>2, <1>2, <1>3, <1>6 DEF NoCurrent
    <3> QED
      BY <3>1, <3>2
  <2>2. CASE ~NoCurrent(row, f, c)
    <3>1. /\ Within(row2, h, g, c, Reached(g[r]), 0)
          /\ Within(row2, h, g, c, Reached(g[r]), 1)
          /\ f[r].lapsed => Within(row2, h, g, c, Reached(g[r]), 2)
      BY <2>0, <2>2, <1>2, <1>3, <1>6 DEF NoCurrent
    <3> QED
      BY <3>1, <2>1, <1>1, <1>2 DEF Bounded, NoCurrent
  <2>3. CASE NoCurrent(row, f, c)
    <3>1. Within(row, h, f, c, row.sentCount + row.failedCount + 1, Reserve(f, c))
      BY <2>0, <2>3 DEF Bounded
    <3>2. CASE SameCounts(row, f[r])
      <4>1. Reached(g[r]) = row.sentCount + row.failedCount + 1
        BY <3>2, <2>0, <1>3 DEF SameCounts
      <4>2. Within(row2, h, g, c, Reached(g[r]), 0)
        BY <4>1, <3>1, <2>3, <1>2, <1>3, <1>7, WithinWeaker
      <4>3. f[r].lapsed => Within(row2, h, g, c, Reached(g[r]), 2)
        BY <4>1, <3>1, <2>3, <1>2, <1>3, <1>7, WithinWeaker
      <4>4. Exact(row2, g[r])
        BY <3>2, <4>1, <1>3 DEF Exact, SameCounts
      <4> QED
        BY <4>2, <4>3, <4>4, <2>1, <1>1, <1>2 DEF Bounded, NoCurrent
    <3>3. CASE Within(row, h, f, c, 0, Reserve(f, c) + 1)
      <4>1. Within(row2, h, g, c, Reached(g[r]), 0)
        BY <3>3, <2>3, <1>2, <1>3, <1>7, WithinWeaker
      <4>2. Within(row2, h, g, c, Reached(g[r]), 1)
        BY <3>3, <2>3, <1>2, <1>3, <1>7, WithinWeaker
      <4>3. f[r].lapsed => Within(row2, h, g, c, Reached(g[r]), 2)
        BY <3>3, <2>3, <1>2, <1>3, <1>7, WithinWeaker
      <4> QED
        BY <4>1, <4>2, <4>3, <2>1, <1>1, <1>2 DEF Bounded, NoCurrent
    <3> QED
      BY <3>2, <3>3, <2>0, <2>3 DEF Bounded
  <2> QED
    BY <2>2, <2>3
<1>9. ASSUME row2.groupOnly PROVE Complete(row2, h, g, c)
  <2> SUFFICES ASSUME h.lapses = 0
               PROVE  /\ row.sentCount + row.failedCount
                            <= Below(h, row.sentCount + row.failedCount + 1)
                      /\ Exact(row2, g[r])
                      /\ g[r].sentCount + g[r].failedCount <= Below(h, Reached(g[r]))
    BY <1>1 DEF Complete
  <2>1. /\ row.sentCount + row.failedCount <= Below(h, row.sentCount + row.failedCount + 1)
        /\ SameCounts(row, f[r])
    BY <1>9 DEF Good, Complete
  <2> QED
    BY <2>1, <1>3, <1>9 DEF SameCounts, Exact
<1> QED
  BY <1>4, <1>8, <1>9 DEF Good

\* Loads that do not grow keep the bound.
LEMMA WithinLoads ==
    ASSUME NEW row, NEW h \in Cycles, NEW f, NEW c, NEW n \in Nat, NEW b \in Nat,
           NEW row2, NEW h2 \in Cycles, NEW g, NEW d \in Nat, d <= b,
           Within(row, h, f, c, n, b), Faults(h2) = Faults(h),
           \A t \in 1 .. MaxTargets : Load(row2, h2, g, c, t) <= Load(row, h, f, c, t)
    PROVE  Within(row2, h2, g, c, n, d)
<1> SUFFICES ASSUME NEW t \in 1 .. MaxTargets
             PROVE  /\ t < n => Load(row2, h2, g, c, t) + d <= Faults(h) + 1
                    /\ t >= n => Load(row2, h2, g, c, t) + d <= Faults(h)
  BY DEF Within
<1>1. /\ t < n => Load(row, h, f, c, t) + b <= Faults(h) + 1
      /\ t >= n => Load(row, h, f, c, t) + b <= Faults(h)
  BY DEF Within
<1>2. /\ Load(row2, h2, g, c, t) \in Nat /\ Load(row, h, f, c, t) \in Nat
      /\ Faults(h) \in Nat /\ t \in Nat /\ Load(row2, h2, g, c, t) <= Load(row, h, f, c, t)
  BY LoadType
<1> QED
  BY <1>1, <1>2

\* One message to group n, by the execution that has reached n, keeps it too.
LEMMA WithinNext ==
    ASSUME NEW row, NEW h \in Cycles, NEW f, NEW c, NEW n \in Nat, NEW b \in Nat,
           NEW row2, NEW h2 \in Cycles, NEW g, NEW m \in Nat, NEW d \in Nat, d <= b, n <= m,
           Within(row, h, f, c, n, b), Faults(h2) = Faults(h),
           \A t \in 1 .. MaxTargets :
              \/ Load(row2, h2, g, c, t) <= Load(row, h, f, c, t)
              \/ /\ Load(row2, h2, g, c, t) <= Load(row, h, f, c, t) + 1
                 /\ n <= t /\ t < m
    PROVE  Within(row2, h2, g, c, m, d)
<1> SUFFICES ASSUME NEW t \in 1 .. MaxTargets
             PROVE  /\ t < m => Load(row2, h2, g, c, t) + d <= Faults(h) + 1
                    /\ t >= m => Load(row2, h2, g, c, t) + d <= Faults(h)
  BY DEF Within
<1>1. /\ t < n => Load(row, h, f, c, t) + b <= Faults(h) + 1
      /\ t >= n => Load(row, h, f, c, t) + b <= Faults(h)
  BY DEF Within
<1>2. /\ Load(row2, h2, g, c, t) \in Nat /\ Load(row, h, f, c, t) \in Nat
      /\ Faults(h) \in Nat /\ t \in Nat
  BY LoadType
<1>3. \/ Load(row2, h2, g, c, t) <= Load(row, h, f, c, t)
      \/ Load(row2, h2, g, c, t) <= Load(row, h, f, c, t) + 1 /\ n <= t /\ t < m
  OBVIOUS
<1> QED
  BY <1>1, <1>2, <1>3

\* A step of an execution between its claim and its end: a message to the group it
\* has reached, counting it, or the question before the next.
Stepped(row, row2, h, h2, f, g, c, r) ==
    /\ Sender(f, c, r) /\ Sender(g, c, r) /\ g[r].lapsed = f[r].lapsed
    /\ \A s \in Runs : s # r => Same(f, g, c, s)
    /\ row2.lastRunAt = row.lastRunAt /\ row2.groupOnly = row.groupOnly
    /\ row2.status = row.status /\ row2.totalTarget = row.totalTarget
    /\ ~(row.status = "RUNNING" /\ row.lastRunAt = r) =>
           row2.sentCount = row.sentCount /\ row2.failedCount = row.failedCount
    /\ h2.lapses = h.lapses /\ h2.strays = h.strays
    /\ \A t \in 1 .. MaxTargets :
           \/ h2.got[t] = h.got[t]
           \/ /\ h2.got[t] = h.got[t] + 1
              /\ t = f[r].i /\ f[r].pc = "send" /\ g[r].pc = "countSent" /\ g[r].i = f[r].i
    /\ g[r].pc = "send" => row.lastRunAt = r
    /\ Reached(f[r]) <= Reached(g[r])
    /\ row.status = "RUNNING" /\ row.lastRunAt = r /\ Exact(row, f[r]) => Exact(row2, g[r])
    /\ \A m \in Nat : Below(h, m) <= Below(h2, m)
    /\ row.status = "RUNNING" /\ row.lastRunAt = r =>
           /\ f[r].sentCount + f[r].failedCount <= Below(h, Reached(f[r]))
                => g[r].sentCount + g[r].failedCount <= Below(h2, Reached(g[r]))
           /\ g[r].pc = "finish" => row.totalTarget < g[r].i

\* Such a step keeps a campaign good.
LEMMA StepGood ==
    ASSUME NEW row \in Rows, NEW row2 \in Rows, NEW h \in Cycles, NEW h2 \in Cycles,
           NEW f \in Execs, NEW g \in Execs, NEW c, NEW r \in Runs, Good(row, h, f, c),
           Stepped(row, row2, h, h2, f, g, c, r)
    PROVE  Good(row2, h2, g, c)
<1> USE DEF Stepped
<1>1. Faults(h2) = Faults(h)
  BY DEF Faults
<1>2. /\ Current(row2, g, c, r) <=> row.lastRunAt = r
      /\ Current(row, f, c, r) <=> row.lastRunAt = r
  BY DEF Current
<1>3. \A s \in Runs : s # r /\ Current(row2, g, c, s) =>
         /\ Current(row, f, c, s)
         /\ g[s].pc = f[s].pc /\ g[s].i = f[s].i /\ g[s].lapsed = f[s].lapsed
         /\ g[s].sentCount = f[s].sentCount /\ g[s].failedCount = f[s].failedCount
         /\ Reached(g[s]) = Reached(f[s])
  <2>1. \A s : Current(row2, g, c, s) <=> Current(row, g, c, s)
    BY DEF Current
  <2> QED
    BY <2>1, SameRun
<1>4. \A s \in Runs : Candidate(g, c, s) =>
         /\ s # r /\ Candidate(f, c, s) /\ g[s].pc = f[s].pc /\ g[s].lapsed = f[s].lapsed
         /\ g[s].sentCount = f[s].sentCount /\ g[s].failedCount = f[s].failedCount
  <2>1. ~Candidate(g, c, r)
    BY DEF Candidate, Sender
  <2> QED
    BY <2>1, SameRun
<1>5. Reserve(g, c) <= Reserve(f, c) /\ Reserve(g, c) \in Nat /\ Reserve(f, c) \in Nat
  BY <1>4, ReserveLess
<1>6. /\ row.sentCount \in Nat /\ row.failedCount \in Nat /\ MaxTargets \in Nat
      /\ row2.sentCount \in Nat /\ row2.failedCount \in Nat
      /\ Reached(f[r]) \in Nat /\ Reached(g[r]) \in Nat
      /\ f[r].i \in Nat /\ g[r].i \in Nat
      /\ g[r].sentCount \in Nat /\ g[r].failedCount \in Nat
  BY CampaignAssumption, SenderType DEF Rows
<1>7. Marked(row2, h2, g, c)
  <2>1. row.status # "NONE"
    BY DEF Good, Marked
  <2>2. \A p, s \in Runs : Current(row2, g, c, p) /\ Candidate(g, c, s) => g[p].lapsed
    BY <1>2, <1>3, <1>4 DEF Good, Marked
  <2>3. \A p \in Runs :
          (Current(row2, g, c, p) \/ Candidate(g, c, p)) /\ g[p].lapsed => h2.lapses > 0
    BY <1>2, <1>3, <1>4 DEF Good, Marked
  <2> QED
    BY <2>1, <2>2, <2>3 DEF Marked
<1>8. ASSUME NEW t \in 1 .. MaxTargets
      PROVE  /\ IsFiniteSet(Astray(row, f, c, t))
             /\ Astray(row2, g, c, t) \subseteq Astray(row, f, c, t)
             /\ f[r].pc = "send" /\ f[r].i = t /\ row.lastRunAt # r /\ g[r].pc # "send" =>
                   r \in Astray(row, f, c, t) /\ Astray(row2, g, c, t) \subseteq Astray(row, f, c, t) \ {r}
  <2>1. r \notin Astray(row, g, c, t)
    BY DEF Astray
  <2>2. Astray(row2, g, c, t) = Astray(row, g, c, t)
    BY DEF Astray
  <2>3. Astray(row, g, c, t) \subseteq Astray(row, f, c, t)
    BY <2>1, AstraySame
  <2>4. ASSUME f[r].pc = "send", f[r].i = t, row.lastRunAt # r PROVE r \in Astray(row, f, c, t)
    BY <2>4 DEF Astray, Sender
  <2>5. IsFiniteSet(Astray(row, f, c, t))
    BY LoadType
  <2> QED
    BY <2>1, <2>2, <2>3, <2>4, <2>5
<1>9. ASSUME NEW t \in 1 .. MaxTargets
      PROVE  \/ Load(row2, h2, g, c, t) <= Load(row, h, f, c, t)
             \/ /\ Load(row2, h2, g, c, t) <= Load(row, h, f, c, t) + 1
                /\ row.lastRunAt = r /\ Reached(f[r]) <= t /\ t < Reached(g[r])
  <2>1. /\ Cardinality(Astray(row2, g, c, t)) <= Cardinality(Astray(row, f, c, t))
        /\ Cardinality(Astray(row2, g, c, t)) \in Nat /\ Cardinality(Astray(row, f, c, t)) \in Nat
        /\ h.got[t] \in Nat /\ h2.got[t] \in Nat
    BY <1>8, Part, LoadType
  <2>2. CASE h2.got[t] = h.got[t]
    BY <2>1, <2>2 DEF Load
  <2>3. CASE /\ h2.got[t] = h.got[t] + 1
             /\ t = f[r].i /\ f[r].pc = "send" /\ g[r].pc = "countSent" /\ g[r].i = f[r].i
    <3>1. CASE row.lastRunAt = r
      <4>1. Reached(f[r]) = t /\ Reached(g[r]) = t + 1
        BY <2>3 DEF Reached
      <4> QED
        BY <4>1, <3>1, <2>1, <2>3 DEF Load
    <3>2. CASE row.lastRunAt # r
      <4>1. Cardinality(Astray(row2, g, c, t)) + 1 <= Cardinality(Astray(row, f, c, t))
        BY <3>2, <2>3, <1>8, PartLess
      <4> QED
        BY <4>1, <2>1, <2>3 DEF Load
    <3> QED
      BY <3>1, <3>2
  <2> QED
    BY <2>2, <2>3
<1>10. ASSUME row2.groupOnly, row.lastRunAt = r PROVE Bounded(row2, h2, g, c)
  <2>0. Bounded(row, h, f, c) /\ Current(row, f, c, r) /\ Current(row2, g, c, r)
    BY <1>10, <1>2 DEF Good
  <2>1. ASSUME NEW b \in Nat, NEW d \in Nat, d <= b, Within(row, h, f, c, Reached(f[r]), b)
        PROVE  Within(row2, h2, g, c, Reached(g[r]), d)
    BY <2>1, <1>1, <1>6, <1>9, WithinNext
  <2>2. ~g[r].lapsed => Within(row2, h2, g, c, Reached(g[r]), 0)
    BY <2>0, <2>1 DEF Bounded
  <2>3. g[r].lapsed => Within(row2, h2, g, c, Reached(g[r]), 2 + Reserve(g, c))
    <3>1. g[r].lapsed => Within(row, h, f, c, Reached(f[r]), 2 + Reserve(f, c))
      BY <2>0 DEF Bounded
    <3> QED
      BY <3>1, <2>1, <1>5
  <2>4. ~g[r].lapsed /\ row2.status = "RUNNING" =>
           Exact(row2, g[r]) \/ Within(row2, h2, g, c, Reached(g[r]), 1)
    BY <2>0, <2>1, <1>10 DEF Bounded
  <2>5. Within(row2, h2, g, c, MaxTargets + 1, 0)
    <3>1. ASSUME NEW b \in Nat, Within(row2, h2, g, c, Reached(g[r]), b)
          PROVE  Within(row2, h2, g, c, MaxTargets + 1, 0)
      <4> SUFFICES ASSUME NEW t \in 1 .. MaxTargets
                   PROVE  Load(row2, h2, g, c, t) + 0 <= Faults(h2) + 1
        BY <1>6 DEF Within
      <4>1. /\ t < Reached(g[r]) => Load(row2, h2, g, c, t) + b <= Faults(h2) + 1
            /\ t >= Reached(g[r]) => Load(row2, h2, g, c, t) + b <= Faults(h2)
        BY <3>1 DEF Within
      <4> QED
        BY <4>1, <1>6, LoadType
    <3> QED
      BY <3>1, <2>2, <2>3, <1>5
  <2>6. \A s \in Runs : Current(row2, g, c, s) <=> s = r
    BY <2>0 DEF Current
  <2> QED
    BY <2>2, <2>3, <2>4, <2>5, <2>6 DEF Bounded, NoCurrent
<1>11. ASSUME row2.groupOnly, row.lastRunAt # r PROVE Bounded(row2, h2, g, c)
  <2>0. Bounded(row, h, f, c) /\ row2.sentCount = row.sentCount /\ row2.failedCount = row.failedCount
    BY <1>11 DEF Good
  <2>1. \A t \in 1 .. MaxTargets : Load(row2, h2, g, c, t) <= Load(row, h, f, c, t)
    BY <1>9, <1>11
  <2>2. ASSUME NEW n \in Nat, NEW b \in Nat, NEW d \in Nat, d <= b, Within(row, h, f, c, n, b)
        PROVE  Within(row2, h2, g, c, n, d)
    BY <2>1, <2>2, <1>1, WithinLoads
  <2>3. \A s \in Runs : Current(row2, g, c, s) <=> Current(row, f, c, s)
    <3>1. \A s \in Runs : Current(row2, g, c, s) <=> Current(row, g, c, s)
      BY DEF Current
    <3> QED
      BY <3>1, <1>2, <1>11, SameRun
  <2>4. Within(row2, h2, g, c, MaxTargets + 1, 0)
    BY <2>0, <2>2, <1>6 DEF Bounded
  <2>5. ASSUME row2.status = "RUNNING", NoCurrent(row2, g, c)
        PROVE  Within(row2, h2, g, c, row2.sentCount + row2.failedCount + 1, Reserve(g, c))
    <3>1. Within(row, h, f, c, row.sentCount + row.failedCount + 1, Reserve(f, c))
      BY <2>0, <2>3, <2>5 DEF Bounded, NoCurrent
    <3> QED
      BY <3>1, <2>0, <2>2, <1>5, <1>6
  <2>6. ASSUME NEW s \in Runs, Current(row2, g, c, s)
        PROVE  /\ ~g[s].lapsed => Within(row2, h2, g, c, Reached(g[s]), 0)
               /\ g[s].lapsed => Within(row2, h2, g, c, Reached(g[s]), 2 + Reserve(g, c))
               /\ ~g[s].lapsed /\ row2.status = "RUNNING" =>
                     Exact(row2, g[s]) \/ Within(row2, h2, g, c, Reached(g[s]), 1)
    <3>1. /\ s # r /\ Current(row, f, c, s) /\ Sender(f, c, s)
          /\ g[s].pc = f[s].pc /\ g[s].i = f[s].i /\ g[s].lapsed = f[s].lapsed
          /\ g[s].sentCount = f[s].sentCount /\ g[s].failedCount = f[s].failedCount
          /\ Reached(g[s]) = Reached(f[s])
      BY <2>6, <1>2, <1>3, <1>11 DEF Current
    <3>2. Reached(f[s]) \in Nat
      BY <3>1, SenderType
    <3>3. ~g[s].lapsed => Within(row2, h2, g, c, Reached(g[s]), 0)
      BY <2>0, <2>2, <3>1, <3>2 DEF Bounded
    <3>4. g[s].lapsed => Within(row2, h2, g, c, Reached(g[s]), 2 + Reserve(g, c))
      <4>1. g[s].lapsed => Within(row, h, f, c, Reached(f[s]), 2 + Reserve(f, c))
        BY <2>0, <3>1 DEF Bounded
      <4> QED
        BY <4>1, <2>2, <3>1, <3>2, <1>5
    <3>5. ASSUME ~g[s].lapsed, row2.status = "RUNNING"
          PROVE  Exact(row2, g[s]) \/ Within(row2, h2, g, c, Reached(g[s]), 1)
      <4>1. Exact(row, f[s]) \/ Within(row, h, f, c, Reached(f[s]), 1)
        BY <2>0, <3>1, <3>5 DEF Bounded
      <4>2. Exact(row, f[s]) => Exact(row2, g[s])
        BY <2>0, <3>1 DEF Exact
      <4> QED
        BY <4>1, <4>2, <2>2, <3>1, <3>2
    <3> QED
      BY <3>3, <3>4, <3>5
  <2>7. ASSUME NoCurrent(row2, g, c), NEW s \in Runs, Candidate(g, c, s), g[s].pc = "claim"
        PROVE  SameCounts(row2, g[s]) \/ Within(row2, h2, g, c, 0, Reserve(g, c) + 1)
    <3>1. SameCounts(row, f[s]) \/ Within(row, h, f, c, 0, Reserve(f, c) + 1)
      BY <2>0, <2>3, <2>7, <1>4 DEF Bounded, NoCurrent
    <3>2. SameCounts(row, f[s]) => SameCounts(row2, g[s])
      BY <2>0, <2>7, <1>4 DEF SameCounts
    <3> QED
      BY <3>1, <3>2, <2>2, <1>5
  <2> QED
    BY <2>4, <2>5, <2>6, <2>7 DEF Bounded
<1>12. ASSUME NEW n \in Nat
      PROVE  /\ Below(h, n) \in Nat /\ Below(h2, n) \in Nat /\ Below(h2, n + 1) \in Nat
             /\ Below(h2, n + 1) <= Below(h2, n) + 1
  <2>1. n + 1 \in Nat
    OBVIOUS
  <2>2. Below(h, n) \in Nat /\ Below(h2, n) \in Nat /\ Below(h2, n + 1) \in Nat
    BY ONLY <2>1, BelowType, h \in Cycles, h2 \in Cycles, n \in Nat
  <2> QED
    BY ONLY <2>2, BelowNext, h2 \in Cycles, n \in Nat
<1>13. ASSUME row2.groupOnly PROVE Complete(row2, h2, g, c)
  <2> SUFFICES ASSUME h.lapses = 0 PROVE Complete(row2, h2, g, c)
    BY DEF Complete
  <2>0. Complete(row, h, f, c)
    BY <1>13 DEF Good
  <2>1. ASSUME NEW s \in Runs, Current(row2, g, c, s), row2.status = "RUNNING"
        PROVE  /\ Exact(row2, g[s])
               /\ g[s].sentCount + g[s].failedCount <= Below(h2, Reached(g[s]))
               /\ g[s].pc = "finish" => row2.totalTarget < g[s].i
    <3>1. CASE s = r
      BY <3>1, <2>0, <2>1, <1>2 DEF Complete
    <3>2. CASE s # r
      <4>1. /\ Current(row, f, c, s) /\ Sender(f, c, s) /\ row.lastRunAt # r
            /\ g[s].pc = f[s].pc /\ g[s].i = f[s].i
            /\ g[s].sentCount = f[s].sentCount /\ g[s].failedCount = f[s].failedCount
            /\ Reached(g[s]) = Reached(f[s])
        BY <2>1, <3>2, <1>3 DEF Current
      <4>2. /\ Exact(row, f[s])
            /\ f[s].sentCount + f[s].failedCount <= Below(h, Reached(f[s]))
            /\ f[s].pc = "finish" => row.totalTarget < f[s].i
        BY <2>0, <2>1, <4>1 DEF Complete
      <4>3. Exact(row2, g[s])
        BY <4>1, <4>2 DEF Exact
      <4>4. /\ Reached(f[s]) \in Nat /\ f[s].sentCount \in Nat /\ f[s].failedCount \in Nat
            /\ Below(h, Reached(f[s])) \in Nat /\ Below(h2, Reached(f[s])) \in Nat
        BY <4>1, SenderType, BelowType
      <4> QED
        BY <4>1, <4>2, <4>3, <4>4
    <3> QED
      BY <3>1, <3>2
  <2>2. ASSUME NEW s \in Runs, Candidate(g, c, s), g[s].pc = "claim" PROVE SameCounts(row2, g[s])
    <3>1. SameCounts(row, f[s]) /\ Candidate(f, c, s)
      BY <2>0, <2>2, <1>4 DEF Complete
    <3>2. CASE row.lastRunAt = r
      <4>1. f[r].lapsed
        BY <3>1, <3>2, <1>2 DEF Good, Marked
      <4> QED
        BY <4>1, <3>2, <1>2 DEF Good, Marked
    <3>3. CASE row.lastRunAt # r
      BY <3>1, <3>3, <2>2, <1>4 DEF SameCounts
    <3> QED
      BY <3>2, <3>3
  <2>3. row2.sentCount + row2.failedCount <= Below(h2, row2.sentCount + row2.failedCount + 1)
    <3>1. CASE row.status = "RUNNING" /\ row.lastRunAt = r
      <4>1. /\ Exact(row2, g[r])
            /\ g[r].sentCount + g[r].failedCount <= Below(h2, Reached(g[r]))
        BY <2>1, <3>1, <1>2
      <4>2. /\ g[r].i <= row2.sentCount + row2.failedCount + 1
            /\ row2.sentCount <= g[r].sentCount /\ row2.failedCount = g[r].failedCount
            /\ g[r].pc = "countSent" => row2.sentCount < g[r].sentCount
        BY <4>1 DEF Exact
      <4>3. Below(h2, g[r].i) <= Below(h2, row2.sentCount + row2.failedCount + 1)
        <5>1. h2.tried \subseteq Nat
          BY DEF Cycles
        <5> QED
          BY <5>1, <4>2, <1>6, BelowMore
      <4>4. /\ Below(h2, g[r].i) \in Nat /\ Below(h2, g[r].i + 1) \in Nat
            /\ Below(h2, row2.sentCount + row2.failedCount + 1) \in Nat
            /\ Below(h2, g[r].i + 1) <= Below(h2, g[r].i) + 1
        <5>1. row2.sentCount + row2.failedCount + 1 \in Nat
          BY <1>6
        <5> QED
          BY ONLY <5>1, <1>6, <1>12
      <4>5. row2.sentCount + row2.failedCount <= Below(h2, g[r].i)
        BY <4>1, <4>2, <4>4, <1>6 DEF Reached
      <4> QED
        BY <4>3, <4>4, <4>5, <1>6
    <3>2. CASE ~(row.status = "RUNNING" /\ row.lastRunAt = r)
      <4>1. row2.sentCount = row.sentCount /\ row2.failedCount = row.failedCount
        BY <3>2
      <4>2. row.sentCount + row.failedCount <= Below(h, row.sentCount + row.failedCount + 1)
        BY <2>0 DEF Complete
      <4>3. /\ Below(h, row.sentCount + row.failedCount + 1) \in Nat
            /\ Below(h2, row.sentCount + row.failedCount + 1) \in Nat
        BY <1>6, <1>12, SMTT(40)
      <4>4. Below(h, row.sentCount + row.failedCount + 1)
              <= Below(h2, row.sentCount + row.failedCount + 1)
        BY <1>6
      <4> QED
        BY <4>1, <4>2, <4>3, <4>4, <1>6
    <3> QED
      BY <3>1, <3>2
  <2>4. row2.status = "COMPLETED" => row2.totalTarget <= Below(h2, MaxTargets + 1)
    <3>1. /\ Below(h, MaxTargets + 1) \in Nat /\ Below(h2, MaxTargets + 1) \in Nat
          /\ Below(h, MaxTargets + 1) <= Below(h2, MaxTargets + 1)
          /\ row.totalTarget \in Nat
      BY <1>6, <1>12 DEF Rows
    <3> QED
      BY <3>1, <2>0 DEF Complete
  <2> QED
    BY <2>1, <2>2, <2>3, <2>4 DEF Complete
<1> QED
  BY <1>7, <1>10, <1>11, <1>13 DEF Good

\* A lock that expires under an execution pays for two messages.
LEMMA LapseGood ==
    ASSUME NEW row \in Rows, NEW h \in Cycles, NEW h2 \in Cycles, NEW f \in Execs,
           NEW g \in Execs, NEW c, NEW r \in Runs, Good(row, h, f, c), f[r].pc # "idle",
           f[r].c = c, row.status # "NONE",
           h2.got = h.got, h2.lapses = h.lapses + 1, h2.strays = h.strays,
           g[r].lapsed, \A s \in Runs : s # r => g[s].lapsed = f[s].lapsed,
           \A s \in Runs :
              /\ Sender(g, c, s) <=> Sender(f, c, s)
              /\ Candidate(g, c, s) <=> Candidate(f, c, s)
              /\ g[s].pc = f[s].pc /\ g[s].i = f[s].i
              /\ g[s].sentCount = f[s].sentCount /\ g[s].failedCount = f[s].failedCount
    PROVE  Good(row, h2, g, c)
<1>1. /\ Faults(h2) = Faults(h) + 2 /\ Faults(h) \in Nat /\ h.lapses \in Nat
      /\ MaxTargets \in Nat /\ row.sentCount \in Nat /\ row.failedCount \in Nat
  <2>1. h.lapses \in Nat /\ h.strays \in Nat
    BY DEF Cycles
  <2>2. Faults(h2) = Faults(h) + 2 /\ Faults(h) \in Nat
    BY <2>1 DEF Faults
  <2> QED
    BY <2>1, <2>2, CampaignAssumption DEF Rows
<1>2. \A s \in Runs :
         /\ Current(row, g, c, s) <=> Current(row, f, c, s)
         /\ Reached(g[s]) = Reached(f[s])
         /\ f[s].lapsed => g[s].lapsed
  BY DEF Current, Reached
<1>3. \A t \in 1 .. MaxTargets : Astray(row, g, c, t) \subseteq Astray(row, f, c, t)
  BY DEF Astray, Sender
<1>4. /\ Reserve(g, c) <= Reserve(f, c) + 2 /\ Reserve(g, c) \in Nat /\ Reserve(f, c) \in Nat
      /\ (\A s \in Runs : ~Candidate(f, c, s)) => Reserve(g, c) = 0
  BY DEF Reserve
<1>5. Marked(row, h2, g, c)
  <2>1. \A p, s \in Runs : Current(row, g, c, p) /\ Candidate(g, c, s) => g[p].lapsed
    BY <1>2 DEF Good, Marked
  <2> QED
    BY <2>1, <1>1 DEF Marked
<1>6. ASSUME row.groupOnly PROVE Bounded(row, h2, g, c)
  <2>0. Bounded(row, h, f, c)
    BY <1>6 DEF Good
  <2>1. ASSUME NEW n \in Nat, NEW b \in Nat, NEW d \in Nat, d <= b + 2, Within(row, h, f, c, n, b)
        PROVE  Within(row, h2, g, c, n, d)
    BY <2>1, <1>1, <1>3, WithinFaults
  <2>2. Within(row, h2, g, c, MaxTargets + 1, 0)
    BY <2>0, <2>1, <1>1 DEF Bounded
  <2>3. ASSUME row.status = "RUNNING", NoCurrent(row, g, c)
        PROVE  Within(row, h2, g, c, row.sentCount + row.failedCount + 1, Reserve(g, c))
    <3>1. Within(row, h, f, c, row.sentCount + row.failedCount + 1, Reserve(f, c))
      BY <2>0, <2>3, <1>2 DEF Bounded, NoCurrent
    <3> QED
      BY <3>1, <2>1, <1>1, <1>4
  <2>4. ASSUME NEW s \in Runs, Current(row, g, c, s)
        PROVE  /\ ~g[s].lapsed => Within(row, h2, g, c, Reached(g[s]), 0)
               /\ g[s].lapsed => Within(row, h2, g, c, Reached(g[s]), 2 + Reserve(g, c))
               /\ ~g[s].lapsed /\ row.status = "RUNNING" =>
                     Exact(row, g[s]) \/ Within(row, h2, g, c, Reached(g[s]), 1)
    <3>1. /\ Current(row, f, c, s) /\ Reached(g[s]) = Reached(f[s]) /\ Reached(f[s]) \in Nat
      BY <1>2, <2>4, SenderType DEF Current
    <3>2. CASE f[s].lapsed
      <4>1. Within(row, h, f, c, Reached(f[s]), 2 + Reserve(f, c)) /\ g[s].lapsed
        BY <2>0, <3>1, <3>2, <1>2 DEF Bounded
      <4> QED
        BY <4>1, <3>1, <2>1, <1>4
    <3>3. CASE ~f[s].lapsed
      <4>1. Within(row, h, f, c, Reached(f[s]), 0)
        BY <2>0, <3>1, <3>3 DEF Bounded
      <4>2. Reserve(g, c) = 0
        BY <3>1, <3>3, <1>4 DEF Good, Marked
      <4>3. \A d \in {0, 1, 2} : Within(row, h2, g, c, Reached(g[s]), d)
        BY <4>1, <3>1, <2>1
      <4> QED
        BY <4>2, <4>3
    <3> QED
      BY <3>2, <3>3
  <2>5. ASSUME NoCurrent(row, g, c), NEW s \in Runs, Candidate(g, c, s), g[s].pc = "claim"
        PROVE  SameCounts(row, g[s]) \/ Within(row, h2, g, c, 0, Reserve(g, c) + 1)
    <3>1. SameCounts(row, f[s]) \/ Within(row, h, f, c, 0, Reserve(f, c) + 1)
      BY <2>0, <2>5, <1>2 DEF Bounded, NoCurrent
    <3>2. SameCounts(row, f[s]) => SameCounts(row, g[s])
      BY DEF SameCounts
    <3> QED
      BY <3>1, <3>2, <2>1, <1>4
  <2> QED
    BY <2>2, <2>3, <2>4, <2>5 DEF Bounded
<1>7. Complete(row, h2, g, c)
  BY <1>1 DEF Complete
<1> QED
  BY <1>5, <1>6, <1>7 DEF Good

\* A campaign completes when its execution is past the last group.
LEMMA FinishGood ==
    ASSUME NEW row \in Rows, NEW row2 \in Rows, NEW h \in Cycles, NEW f \in Execs, NEW c,
           NEW r \in Runs, Good(row, h, f, c), Current(row, f, c, r), f[r].pc = "finish",
           row.status = "RUNNING", row2.status = "COMPLETED",
           row2.lastRunAt = row.lastRunAt, row2.groupOnly = row.groupOnly,
           row2.totalTarget = row.totalTarget,
           row2.sentCount = row.sentCount, row2.failedCount = row.failedCount
    PROVE  Good(row2, h, f, c)
<1>1. \A s : Current(row2, f, c, s) <=> Current(row, f, c, s)
  BY DEF Current
<1>2. Marked(row2, h, f, c)
  BY <1>1 DEF Good, Marked
<1>3. MaxTargets \in Nat /\ row.sentCount \in Nat /\ row.failedCount \in Nat /\ row.totalTarget \in Nat
      /\ f[r].i \in Nat
  BY CampaignAssumption, SenderType DEF Rows, Current
<1>4. \A t \in 1 .. MaxTargets : Astray(row2, f, c, t) \subseteq Astray(row, f, c, t)
  BY DEF Astray
<1>5. ASSUME row2.groupOnly PROVE Bounded(row2, h, f, c)
  <2>0. Bounded(row, h, f, c)
    BY <1>5 DEF Good
  <2>1. ASSUME NEW n \in Nat, NEW b \in Nat, Within(row, h, f, c, n, b)
        PROVE  Within(row2, h, f, c, n, b)
    BY <2>1, <1>4, WithinWeaker
  <2>2. Within(row2, h, f, c, MaxTargets + 1, 0)
    BY <2>0, <2>1, <1>3 DEF Bounded
  <2>3. ASSUME NEW s \in Runs, Current(row2, f, c, s)
        PROVE  /\ ~f[s].lapsed => Within(row2, h, f, c, Reached(f[s]), 0)
               /\ f[s].lapsed => Within(row2, h, f, c, Reached(f[s]), 2 + Reserve(f, c))
    <3>1. Current(row, f, c, s) /\ Reached(f[s]) \in Nat /\ 2 + Reserve(f, c) \in Nat
      BY <2>3, <1>1, SenderType, ReserveType DEF Current
    <3>2. /\ ~f[s].lapsed => Within(row, h, f, c, Reached(f[s]), 0)
          /\ f[s].lapsed => Within(row, h, f, c, Reached(f[s]), 2 + Reserve(f, c))
      BY <2>0, <3>1 DEF Bounded
    <3> QED
      BY <3>1, <3>2, <2>1
  <2>4. ~NoCurrent(row2, f, c)
    BY <1>1 DEF NoCurrent
  <2> QED
    BY <2>2, <2>3, <2>4 DEF Bounded
<1>6. ASSUME row2.groupOnly, h.lapses = 0 PROVE Complete(row2, h, f, c)
  <2>0. Complete(row, h, f, c)
    BY <1>6 DEF Good
  <2>1. /\ f[r].i <= row.sentCount + row.failedCount + 1 /\ row.totalTarget < f[r].i
        /\ row.sentCount + row.failedCount <= Below(h, row.sentCount + row.failedCount + 1)
    BY <2>0, <1>6 DEF Complete, Exact
  <2>2. row.sentCount + row.failedCount + 1 \in Nat
    BY <1>3
  <2>3. /\ Below(h, row.sentCount + row.failedCount + 1) \in Nat
        /\ Below(h, MaxTargets + 1) \in Nat
        /\ Below(h, row.sentCount + row.failedCount + 1) <= Below(h, MaxTargets + 1)
    <3>1. \A n \in Nat : Below(h, n) \in Nat /\ Below(h, n) <= Below(h, MaxTargets + 1)
      <4>1. ASSUME NEW n \in Nat
            PROVE  Below(h, n) \in Nat /\ Below(h, n) <= Below(h, MaxTargets + 1)
        BY ONLY h \in Cycles, BelowType, BelowAll
      <4> QED
        BY ONLY <4>1
    <3>2. MaxTargets + 1 \in Nat
      BY <1>3
    <3> QED
      BY ONLY <3>1, <3>2, <2>2
  <2>4. row2.totalTarget <= Below(h, MaxTargets + 1)
    BY <2>1, <2>3, <1>3
  <2>5. \A s \in Runs : Candidate(f, c, s) /\ f[s].pc = "claim" => SameCounts(row2, f[s])
    BY <2>0, <1>6 DEF Complete, SameCounts
  <2> QED
    BY <2>1, <2>4, <2>5 DEF Complete
<1>7. row2.groupOnly => Complete(row2, h, f, c)
  BY <1>6 DEF Complete
<1> QED
  BY <1>2, <1>5, <1>7 DEF Good

-----------------------------------------------------------------------------
\* Writing nextRunAt makes jobs in memory old and changes nothing else.
LEMMA OldFacts ==
    ASSUME NEW c, NEW f \in Execs, NEW s \in Runs
    PROVE  /\ OldRuns(c, f) \in Execs
           /\ OldRuns(c, f)[s].pc = f[s].pc /\ OldRuns(c, f)[s].c = f[s].c
           /\ OldRuns(c, f)[s].i = f[s].i /\ OldRuns(c, f)[s].lapsed = f[s].lapsed
           /\ OldRuns(c, f)[s].sentCount = f[s].sentCount
           /\ OldRuns(c, f)[s].failedCount = f[s].failedCount
           /\ OldRuns(c, f)[s].runAt # f[s].runAt => OldRuns(c, f)[s].runAt = "old"
           /\ ~Candidate(OldRuns(c, f), c, s)
           /\ f[s] = Idle => OldRuns(c, f)[s] = Idle
<1> DEFINE g == OldRuns(c, f)
<1>1. \A r \in Runs :
         \/ g[r] = f[r] /\ ~(f[r].pc \in {"read", "claim"} /\ f[r].c = c)
         \/ /\ g[r] = [f[r] EXCEPT !.runAt = "old"]
            /\ f[r].pc \in {"read", "claim"} /\ f[r].c = c
  BY DEF OldRuns
<1>2. ASSUME NEW x \in Executions
      PROVE  /\ [x EXCEPT !.runAt = "old"] \in Executions
             /\ [x EXCEPT !.runAt = "old"].pc = x.pc /\ [x EXCEPT !.runAt = "old"].c = x.c
             /\ [x EXCEPT !.runAt = "old"].i = x.i
             /\ [x EXCEPT !.runAt = "old"].lapsed = x.lapsed
             /\ [x EXCEPT !.runAt = "old"].sentCount = x.sentCount
             /\ [x EXCEPT !.runAt = "old"].failedCount = x.failedCount
             /\ [x EXCEPT !.runAt = "old"].runAt = "old"
  BY DEF Executions
<1>3. \A r \in Runs : f[r] \in Executions \/ (f[r] = Idle /\ f[r].pc = "idle")
  BY DEF Execs, Idle
<1>4. DOMAIN g = Runs /\ g = [r \in Runs |-> g[r]]
  BY DEF OldRuns
<1>5. g \in Execs
  <2>1. ASSUME NEW r \in Runs PROVE g[r] \in Executions \cup {Idle}
    <3>1. CASE g[r] = f[r]
      BY <1>3, <3>1
    <3>2. CASE g[r] # f[r]
      <4>1. g[r] = [f[r] EXCEPT !.runAt = "old"] /\ f[r].pc # "idle"
        BY <1>1, <3>2
      <4> QED
        BY <1>2, <1>3, <4>1
    <3> QED
      BY <3>1, <3>2
  <2> QED
    BY <2>1, <1>4 DEF Execs
<1> HIDE DEF g
<1>6. CASE f[s].pc \in {"read", "claim"} /\ f[s].c = c
  <2>1. f[s] \in Executions /\ g[s] = [f[s] EXCEPT !.runAt = "old"]
    BY <1>1, <1>3, <1>6
  <2>2. f[s] # Idle
    BY <1>6 DEF Idle
  <2> QED
    BY <2>1, <2>2, <1>2, <1>5 DEF g, Candidate
<1>7. CASE ~(f[s].pc \in {"read", "claim"} /\ f[s].c = c)
  BY <1>1, <1>5, <1>7 DEF g, Candidate
<1> QED
  BY <1>6, <1>7

\* The executions stay executions.
LEMMA OldType ==
    ASSUME NEW c, NEW f \in Execs
    PROVE  OldRuns(c, f) \in Execs
  BY DEF OldRuns, Execs, Executions, Idle

\* Nobody notices it but the candidates of the campaign.
LEMMA OldSame ==
    ASSUME NEW c, NEW d, NEW f \in Execs, NEW s \in Runs
    PROVE  Same(f, OldRuns(c, f), d, s)
<1>1. Candidate(OldRuns(c, f), d, s) => Candidate(f, d, s)
  BY OldFacts DEF Candidate
<1> QED
  BY <1>1, OldFacts DEF Same, Sender

\* One execution is replaced.
LEMMA OneRun ==
    ASSUME NEW f \in Execs, NEW r \in Runs, NEW x \in Executions \cup {Idle}
    PROVE  /\ [f EXCEPT ![r] = x] \in Execs
           /\ [f EXCEPT ![r] = x][r] = x
           /\ \A s \in Runs : s # r => [f EXCEPT ![r] = x][s] = f[s]
  BY DEF Execs

\* What Leaving leaves.
LEMMA LeavingType ==
    ASSUME run \in Execs, NEW r \in Runs, run[r].pc # "idle"
    PROVE  /\ Leaving(r) \in Executions /\ Leaving(r).pc = "release"
           /\ Leaving(r).c = run[r].c /\ Leaving(r).lapsed = run[r].lapsed
           /\ Placed(Leaving(r)) /\ run[r] \in Executions
<1>1. run[r] \in Executions
  BY DEF Execs, Idle
<1> QED
  BY <1>1 DEF Leaving, Executions, Placed

\* The jobs of the queue.
Jobs == [c : Campaigns, runAt : {"armed", "old"}]

\* Jobs keep their type, and their campaigns.
LEMMA OldJobsType ==
    ASSUME queue \subseteq Jobs, NEW c
    PROVE  /\ OldJobs(c) \subseteq Jobs
           /\ \A j \in OldJobs(c) : \E k \in queue : j.c = k.c
<1>1. \A j \in queue : /\ [j EXCEPT !.runAt = "old"] \in Jobs
                       /\ [j EXCEPT !.runAt = "old"].c = j.c
  BY DEF Jobs
<1> QED
  BY <1>1 DEF OldJobs

\* So they do when one is added.
LEMMA AddJobType ==
    ASSUME queue \subseteq Jobs, NEW c \in Campaigns, addUserbotCampaignJob(c)
    PROVE  /\ queue' \subseteq Jobs
           /\ \A j \in queue' : j.c = c \/ \E k \in queue : j.c = k.c
<1>1. [c |-> c, runAt |-> "armed"] \in Jobs /\ [c |-> c, runAt |-> "armed"].c = c
  BY DEF Jobs
<1> QED
  BY <1>1, OldJobsType DEF addUserbotCampaignJob

\* A new cycle has counted nothing but the executions about to send.
LEMMA NewCycleType ==
    ASSUME NEW c
    PROVE  /\ NewCycle(c) \in Cycles
           /\ \A t \in 1 .. MaxTargets : NewCycle(c).got[t] = 0
           /\ NewCycle(c).lapses = 0
           /\ NewCycle(c).strays = Cardinality({r \in Sending(c) : run[r].pc = "send"})
<1>1. Cardinality({r \in Sending(c) : run[r].pc = "send"}) \in Nat
  BY Part, CampaignAssumption DEF Sending, Busy
<1> QED
  BY <1>1 DEF NewCycle, Cycles

\* The campaign's row is replaced.
LEMMA OneRow ==
    ASSUME NEW f \in [Campaigns -> Rows], NEW c \in Campaigns, NEW x \in Rows
    PROVE  /\ [f EXCEPT ![c] = x] \in [Campaigns -> Rows]
           /\ [f EXCEPT ![c] = x][c] = x
           /\ \A d \in Campaigns : d # c => [f EXCEPT ![c] = x][d] = f[d]
  OBVIOUS

\* The campaign's record of its cycle is replaced.
LEMMA OneCycle ==
    ASSUME NEW f \in [Campaigns -> Cycles], NEW c \in Campaigns, NEW x \in Cycles
    PROVE  /\ [f EXCEPT ![c] = x] \in [Campaigns -> Cycles]
           /\ [f EXCEPT ![c] = x][c] = x
           /\ \A d \in Campaigns : d # c => [f EXCEPT ![c] = x][d] = f[d]
  OBVIOUS

\* Writing nextRunAt leaves the executions where they are.
LEMMA OldPlaced ==
    ASSUME NEW c, NEW f \in Execs, \A s \in Runs : Placed(f[s])
    PROVE  \A s \in Runs : Placed(OldRuns(c, f)[s])
  BY OldFacts DEF Placed

\* One event more.
LEMMA CountedType ==
    ASSUME events \in Nat, events <= MaxEvents, Counted \/ events' = events
    PROVE  events' \in Nat /\ events' <= MaxEvents
  BY CampaignAssumption DEF Counted

-----------------------------------------------------------------------------
\* The seller's calls and the scheduler's sweep keep the types.
LEMMA TypedCampaign ==
    ASSUME Typed, NEW c \in Campaigns,
           \/ createCampaign(c) \/ startCampaign(c) \/ pauseCampaign(c) \/ TimeComes(c)
           \/ FindStuck(c) \/ RearmStuck(c) \/ EnqueueDue(c)
    PROVE  Typed'
<1>0. /\ camp \in [Campaigns -> Rows] /\ camp[c] \in Rows /\ queue \subseteq Jobs /\ run \in Execs
      /\ \A s \in Runs : Placed(run[s])
      /\ hist \in [Campaigns -> Cycles] /\ seen \subseteq Campaigns
      /\ events \in Nat /\ events <= MaxEvents /\ lock \in Runs \cup {"free", "dead"}
  BY DEF Typed, Jobs, Execs
<1> SUFFICES /\ camp' \in [Campaigns -> Rows] /\ queue' \subseteq Jobs /\ run' \in Execs
             /\ \A s \in Runs : Placed(run'[s])
             /\ hist' \in [Campaigns -> Cycles] /\ seen' \subseteq Campaigns
             /\ events' \in Nat /\ events' <= MaxEvents /\ lock' \in Runs \cup {"free", "dead"}
  BY DEF Typed, Jobs, Execs
<1>1. CASE createCampaign(c)
  <2> DEFINE draft(k) == [camp[c] EXCEPT !.status = "DRAFT", !.groupOnly = k.groupOnly,
                                         !.recurs = k.recurs, !.totalTarget = k.totalTarget]
             armed(k) == [camp[c] EXCEPT !.status = "RUNNING", !.groupOnly = k.groupOnly,
                                         !.recurs = k.recurs, !.totalTarget = k.totalTarget,
                                         !.nextRunAt = "future"]
  <2>1. ASSUME NEW k \in Kinds PROVE draft(k) \in Rows /\ armed(k) \in Rows
    <3>1. k \in [groupOnly : BOOLEAN, recurs : BOOLEAN, totalTarget : 1 .. MaxTargets]
      BY CampaignAssumption
    <3> QED
      BY <3>1, <1>0 DEF Rows, Statuses
  <2>2. \E k \in Kinds : \/ camp' = [camp EXCEPT ![c] = draft(k)]
                         \/ camp' = [camp EXCEPT ![c] = armed(k)]
    BY <1>0, <1>1 DEF createCampaign
  <2> HIDE DEF draft, armed
  <2>3. camp' \in [Campaigns -> Rows]
    BY <2>1, <2>2, <1>0, OneRow
  <2>4. queue' \subseteq Jobs
    BY <1>0, <1>1, AddJobType DEF createCampaign
  <2> QED
    BY <2>3, <2>4, <1>0, <1>1 DEF createCampaign
<1>2. CASE startCampaign(c)
  <2> DEFINE started(p) == [camp[c] EXCEPT !.status = "RUNNING", !.nextRunAt = p,
                              !.lastRunAt = "null", !.sentCount = 0, !.failedCount = 0]
  <2>1. \A p \in {"future", "due"} : started(p) \in Rows
    BY <1>0 DEF Rows, Statuses
  <2>8. \E p \in {"future", "due"} : camp' = [camp EXCEPT ![c] = started(p)]
    BY <1>0, <1>2 DEF startCampaign
  <2> HIDE DEF started
  <2>2. camp' \in [Campaigns -> Rows]
    BY <2>1, <2>8, <1>0, OneRow
  <2>3. queue' \subseteq Jobs
    BY <1>0, <1>2, AddJobType DEF startCampaign
  <2>4. run' \in Execs /\ \A s \in Runs : Placed(run'[s])
    BY <1>0, <1>2, OldType, OldPlaced DEF startCampaign
  <2>5. hist' \in [Campaigns -> Cycles]
    BY <1>0, <1>2, OneCycle, NewCycleType DEF startCampaign
  <2>6. events' \in Nat /\ events' <= MaxEvents
    BY <1>0, <1>2, CountedType DEF startCampaign
  <2>7. lock' = lock /\ seen' = seen
    BY <1>2 DEF startCampaign
  <2> QED
    BY <2>2, <2>3, <2>4, <2>5, <2>6, <2>7, <1>0
<1>3. CASE pauseCampaign(c)
  <2>1. [camp[c] EXCEPT !.status = "PAUSED", !.nextRunAt = "null"] \in Rows
    BY <1>0 DEF Rows, Statuses
  <2>2. camp' = [camp EXCEPT ![c] = [camp[c] EXCEPT !.status = "PAUSED", !.nextRunAt = "null"]]
    BY <1>0, <1>3 DEF pauseCampaign
  <2>3. camp' \in [Campaigns -> Rows]
    BY <2>1, <2>2, <1>0, OneRow
  <2>4. queue' \subseteq Jobs /\ run' \in Execs /\ \A s \in Runs : Placed(run'[s])
    BY <1>0, <1>3, OldJobsType, OldType, OldPlaced DEF pauseCampaign
  <2>5. lock' = lock /\ seen' = seen /\ hist' = hist /\ events' = events
    BY <1>3 DEF pauseCampaign
  <2> QED
    BY <2>3, <2>4, <2>5, <1>0
<1>4. CASE TimeComes(c)
  <2>1. [camp[c] EXCEPT !.nextRunAt = "due"] \in Rows
    BY <1>0 DEF Rows
  <2>2. camp' = [camp EXCEPT ![c] = [camp[c] EXCEPT !.nextRunAt = "due"]]
    BY <1>0, <1>4 DEF TimeComes
  <2>3. camp' \in [Campaigns -> Rows]
    BY <2>1, <2>2, <1>0, OneRow
  <2> QED
    BY <2>3, <1>0, <1>4 DEF TimeComes
<1>5. CASE FindStuck(c)
  BY <1>0, <1>5 DEF FindStuck
<1>6. CASE RearmStuck(c)
  <2>1. [camp[c] EXCEPT !.nextRunAt = "due"] \in Rows
    BY <1>0 DEF Rows
  <2>2. \/ camp' = [camp EXCEPT ![c] = [camp[c] EXCEPT !.nextRunAt = "due"]]
        \/ camp' = camp
    BY <1>0, <1>6 DEF RearmStuck
  <2>3. camp' \in [Campaigns -> Rows]
    BY <2>1, <2>2, <1>0, OneRow
  <2>4. queue' \subseteq Jobs /\ run' \in Execs /\ \A s \in Runs : Placed(run'[s])
    BY <1>0, <1>6, OldJobsType, OldType, OldPlaced DEF RearmStuck
  <2>5. lock' = lock /\ seen' \subseteq seen /\ hist' = hist /\ events' = events
    BY <1>6 DEF RearmStuck
  <2> QED
    BY <2>3, <2>4, <2>5, <1>0
<1>7. CASE EnqueueDue(c)
  <2>1. [c |-> c, runAt |-> "armed"] \in Jobs
    BY DEF Jobs
  <2> QED
    BY <2>1, <1>0, <1>7 DEF EnqueueDue
<1> QED
  BY <1>1, <1>2, <1>3, <1>4, <1>5, <1>6, <1>7

\* The parts of a typed state.
LEMMA TypedParts ==
    ASSUME Typed
    PROVE  /\ camp \in [Campaigns -> Rows] /\ queue \subseteq Jobs /\ run \in Execs
           /\ \A s \in Runs : Placed(run[s])
           /\ hist \in [Campaigns -> Cycles] /\ seen \subseteq Campaigns
           /\ events \in Nat /\ events <= MaxEvents /\ lock \in Runs \cup {"free", "dead"}
           /\ \A s \in Runs : run[s].pc # "idle" =>
                 /\ run[s] \in Executions /\ run[s].c \in Campaigns
                 /\ camp[run[s].c] \in Rows /\ hist[run[s].c] \in Cycles
<1>1. /\ camp \in [Campaigns -> Rows] /\ queue \subseteq Jobs /\ run \in Execs
      /\ \A s \in Runs : Placed(run[s])
      /\ hist \in [Campaigns -> Cycles] /\ seen \subseteq Campaigns
      /\ events \in Nat /\ events <= MaxEvents /\ lock \in Runs \cup {"free", "dead"}
  BY DEF Typed, Jobs, Execs
<1>2. ASSUME NEW s \in Runs, run[s].pc # "idle" PROVE run[s] \in Executions
  BY <1>1, <1>2 DEF Execs, Idle
<1>3. \A x \in Executions : x.c \in Campaigns
  BY DEF Executions
<1> QED
  BY <1>1, <1>2, <1>3

\* One execution goes on and the others stay, but for what is old now.
LEMMA TypedRun ==
    ASSUME Typed, NEW r \in Runs, NEW x \in Executions \cup {Idle}, Placed(x),
           \/ run' = [run EXCEPT ![r] = x]
           \/ \E c \in Campaigns : run' = OldRuns(c, [run EXCEPT ![r] = x])
    PROVE  run' \in Execs /\ \A s \in Runs : Placed(run'[s])
<1>1. /\ [run EXCEPT ![r] = x] \in Execs
      /\ \A s \in Runs : Placed([run EXCEPT ![r] = x][s])
  <2>1. run \in Execs /\ \A s \in Runs : Placed(run[s])
    BY TypedParts
  <2>2. \A s \in Runs : [run EXCEPT ![r] = x][s] = run[s] \/ [run EXCEPT ![r] = x][s] = x
    BY <2>1, OneRun
  <2>3. [run EXCEPT ![r] = x] \in Execs
    BY <2>1, OneRun
  <2> QED
    BY <2>1, <2>2, <2>3
<1> QED
  BY <1>1, OldType, OldPlaced

\* The row of one campaign is written.
LEMMA TypedRow ==
    ASSUME Typed, NEW c \in Campaigns, NEW x \in Rows,
           camp' = camp \/ camp' = [camp EXCEPT ![c] = x]
    PROVE  camp' \in [Campaigns -> Rows]
  BY OneRow, TypedParts

\* Leaving an execution with its campaign failed or not keeps the types.
LEMMA TypedAbort ==
    ASSUME Typed, NEW r \in Runs, run[r].pc # "idle", Abort(r)
    PROVE  /\ camp' \in [Campaigns -> Rows] /\ queue' \subseteq Jobs /\ run' \in Execs
           /\ \A s \in Runs : Placed(run'[s])
<1> DEFINE c == run[r].c
           failed == [camp[c] EXCEPT !.status = "FAILED", !.nextRunAt = "null"]
<1>1. c \in Campaigns /\ camp[c] \in Rows /\ queue \subseteq Jobs
  BY TypedParts
<1>2. failed \in Rows
  BY <1>1 DEF Rows, Statuses
<1>3. camp' = camp \/ camp' = [camp EXCEPT ![c] = failed]
  BY <1>1, TypedParts DEF Abort
<1>4. \/ run' = [run EXCEPT ![r] = Leaving(r)]
      \/ run' = OldRuns(c, [run EXCEPT ![r] = Leaving(r)])
  BY DEF Abort
<1>5. queue' = queue \/ queue' = OldJobs(c)
  BY DEF Abort
<1> HIDE DEF c, failed
<1>6. camp' \in [Campaigns -> Rows]
  BY <1>1, <1>2, <1>3, TypedRow
<1>7. run' \in Execs /\ \A s \in Runs : Placed(run'[s])
  BY <1>1, <1>4, TypedRun, LeavingType, TypedParts
<1> QED
  BY <1>1, <1>5, <1>6, <1>7, OldJobsType

\* Taking, reading and claiming a run keep the types.
LEMMA TypedStart ==
    ASSUME Typed, NEW r \in Runs,
           (\E j \in queue : PickUp(r, j)) \/ ReadFresh(r) \/ Claim(r)
    PROVE  Typed'
<1>0. /\ camp \in [Campaigns -> Rows] /\ queue \subseteq Jobs /\ run \in Execs
      /\ \A s \in Runs : Placed(run[s])
      /\ hist \in [Campaigns -> Cycles] /\ seen \subseteq Campaigns
      /\ events \in Nat /\ events <= MaxEvents /\ lock \in Runs \cup {"free", "dead"}
  BY TypedParts
<1> SUFFICES /\ camp' \in [Campaigns -> Rows] /\ queue' \subseteq Jobs /\ run' \in Execs
             /\ \A s \in Runs : Placed(run'[s])
             /\ hist' \in [Campaigns -> Cycles] /\ seen' \subseteq Campaigns
             /\ events' \in Nat /\ events' <= MaxEvents /\ lock' \in Runs \cup {"free", "dead"}
  BY DEF Typed, Jobs, Execs
<1>1. ASSUME NEW j \in queue, PickUp(r, j)
      PROVE  /\ camp' = camp /\ queue' \subseteq Jobs /\ run' \in Execs
             /\ \A s \in Runs : Placed(run'[s])
             /\ hist' = hist /\ seen' = seen /\ events' = events /\ lock' \in {lock, r}
  <2> DEFINE x == [pc |-> "read", c |-> j.c, runAt |-> j.runAt, freshLast |-> "null", i |-> 0,
                   sentCount |-> 0, failedCount |-> 0, lockLost |-> FALSE, lapsed |-> FALSE]
  <2>1. x \in Executions /\ Placed(x)
    BY <1>0 DEF Jobs, Executions, Placed
  <2>2. run' = run \/ run' = [run EXCEPT ![r] = x]
    BY <1>1 DEF PickUp
  <2> HIDE DEF x
  <2>3. run' \in Execs /\ \A s \in Runs : Placed(run'[s])
    BY <2>1, <2>2, <1>0, TypedRun
  <2> QED
    BY <2>3, <1>0, <1>1 DEF PickUp
<1>2. CASE ReadFresh(r)
  <2> DEFINE row == camp[run[r].c]
             x == [run[r] EXCEPT !.pc = "claim", !.freshLast = row.lastRunAt,
                                 !.sentCount = row.sentCount, !.failedCount = row.failedCount]
  <2>1. run[r].pc # "idle" /\ run[r] \in Executions /\ row \in Rows
    BY <1>2, TypedParts DEF ReadFresh
  <2>2. x \in Executions /\ Placed(x)
    BY <2>1 DEF Rows, Executions, Placed
  <2>3. run' = [run EXCEPT ![r] = x] \/ run' = [run EXCEPT ![r] = Leaving(r)]
    BY <1>0, <1>2 DEF ReadFresh, Execs
  <2> HIDE DEF x
  <2>4. run' \in Execs /\ \A s \in Runs : Placed(run'[s])
    BY <1>0, <2>1, <2>2, <2>3, TypedRun, LeavingType
  <2> QED
    BY <2>4, <1>0, <1>2 DEF ReadFresh
<1>3. CASE Claim(r)
  <2> DEFINE c == run[r].c
             first == IF camp[c].groupOnly THEN run[r].sentCount + run[r].failedCount + 1 ELSE 1
             x == [run[r] EXCEPT !.pc = "check", !.i = first, !.runAt = "old", !.freshLast = "null"]
             row == [camp[c] EXCEPT !.nextRunAt = "null", !.lastRunAt = r]
  <2>1. run[r].pc # "idle" /\ run[r] \in Executions /\ camp[c] \in Rows /\ c \in Campaigns
    BY <1>3, TypedParts DEF Claim
  <2>2. first \in Nat /\ first >= 1
    BY <2>1 DEF Executions
  <2> HIDE DEF first
  <2>3. x \in Executions /\ Placed(x)
    BY <2>1, <2>2 DEF Executions, Placed
  <2>4. row \in Rows
    BY <2>1 DEF Rows
  <2>5. \/ run' = OldRuns(c, [run EXCEPT ![r] = x])
        \/ run' = [run EXCEPT ![r] = Leaving(r)]
    BY <1>0, <1>3 DEF Claim, StartRun, Execs, first
  <2>6. camp' = camp \/ camp' = [camp EXCEPT ![c] = row]
    BY <1>0, <1>3 DEF Claim, StartRun
  <2>7. queue' \subseteq Jobs
    BY <1>0, <1>3, OldJobsType DEF Claim, StartRun
  <2>8. hist' = hist /\ seen' = seen /\ events' = events /\ lock' = lock
    BY <1>3 DEF Claim
  <2> HIDE DEF x, row, c
  <2>9. run' \in Execs /\ \A s \in Runs : Placed(run'[s])
    BY <1>0, <2>1, <2>3, <2>5, TypedRun, LeavingType
  <2>10. camp' \in [Campaigns -> Rows]
    BY <2>1, <2>4, <2>6, TypedRow
  <2> QED
    BY <2>7, <2>8, <2>9, <2>10, <1>0
<1> QED
  BY <1>0, <1>1, <1>2, <1>3

\* The sending loop keeps the types.
LEMMA TypedLoop ==
    ASSUME Typed, NEW r \in Runs,
           \/ Throw(r) \/ Check(r) \/ SendArrives(r) \/ SendFails(r) \/ PeerFlood(r)
           \/ FloodWait(r) \/ CountSent(r) \/ CountSentThrows(r)
    PROVE  Typed'
<1> DEFINE c == run[r].c
<1>0. /\ camp \in [Campaigns -> Rows] /\ queue \subseteq Jobs /\ run \in Execs
      /\ \A s \in Runs : Placed(run[s])
      /\ hist \in [Campaigns -> Cycles] /\ seen \subseteq Campaigns
      /\ events \in Nat /\ events <= MaxEvents /\ lock \in Runs \cup {"free", "dead"}
  BY TypedParts
<1>a. run[r].pc # "idle"
  BY DEF Throw, Check, SendArrives, SendFails, PeerFlood, FloodWait, CountSent, CountSentThrows
<1>b. /\ run[r] \in Executions /\ c \in Campaigns /\ camp[c] \in Rows /\ hist[c] \in Cycles
      /\ Leaving(r) \in Executions /\ Placed(Leaving(r)) /\ Placed(run[r])
  BY <1>0, <1>a, TypedParts, LeavingType
<1>c. lock' = lock /\ seen' = seen /\ events' \in Nat /\ events' <= MaxEvents
  <2>1. lock' = lock /\ seen' = seen /\ (Counted \/ events' = events)
    BY DEF Throw, Check, SendArrives, SendFails, PeerFlood, FloodWait, CountSent, CountSentThrows
  <2> QED
    BY <2>1, <1>0, CountedType
<1> SUFFICES /\ camp' \in [Campaigns -> Rows] /\ queue' \subseteq Jobs /\ run' \in Execs
             /\ \A s \in Runs : Placed(run'[s])
             /\ hist' \in [Campaigns -> Cycles]
  BY <1>0, <1>c DEF Typed, Jobs, Execs
<1>1. CASE Throw(r)
  BY <1>0, <1>a, <1>1, TypedAbort DEF Throw
<1>2. CASE Check(r)
  <2>1. CASE Abort(r)
    BY <1>0, <1>a, <1>2, <2>1, TypedAbort DEF Check
  <2>2. CASE ~Abort(r)
    <3> DEFINE x == [run[r] EXCEPT !.pc = "finish"]
               y == [run[r] EXCEPT !.pc = "send"]
    <3>1. x \in Executions /\ Placed(x)
      BY <1>b, <1>2 DEF Executions, Placed, Check
    <3>2. y \in Executions /\ (run[r].i <= camp[c].totalTarget => Placed(y))
      BY <1>b, <1>2, CampaignAssumption DEF Executions, Placed, Check, Rows
    <3>3. /\ camp' = camp /\ queue' = queue /\ hist' = hist
          /\ \/ run' = [run EXCEPT ![r] = x]
             \/ run' = [run EXCEPT ![r] = y] /\ run[r].i <= camp[c].totalTarget
      <4>1. run[r].i \in Nat /\ camp[c].totalTarget \in Nat
        BY <1>b DEF Executions, Rows
      <4> QED
        BY <4>1, <1>0, <1>2, <2>2 DEF Check, Execs
    <3> HIDE DEF x, y
    <3> QED
      BY <3>1, <3>2, <3>3, <1>0, TypedRun
  <2> QED
    BY <2>1, <2>2
<1>3. CASE SendArrives(r)
  <2> DEFINE x == [run[r] EXCEPT !.pc = "countSent", !.sentCount = run[r].sentCount + 1]
             h == [hist[c] EXCEPT !.got = [hist[c].got EXCEPT ![run[r].i] =
                                              hist[c].got[run[r].i] + 1],
                                  !.tried = Tried(r)]
  <2>1. run[r].i \in 1 .. MaxTargets
    BY <1>b, <1>3, CampaignAssumption DEF Placed, SendArrives, Executions
  <2>2. x \in Executions /\ Placed(x)
    <3>1. ASSUME NEW e \in Executions, NEW n \in Nat
          PROVE  /\ [e EXCEPT !.pc = "countSent", !.sentCount = n] \in Executions
                 /\ [e EXCEPT !.pc = "countSent", !.sentCount = n].i = e.i
      BY DEF Executions
    <3>2. run[r].sentCount + 1 \in Nat
      BY <1>b DEF Executions
    <3>3. x \in Executions /\ x.i = run[r].i
      BY <3>1, <3>2, <1>b
    <3> HIDE DEF x
    <3> QED
      BY <3>3, <1>b, <1>3 DEF Placed, SendArrives
  <2>3. h \in Cycles
    <3>1. /\ hist[c].got \in [1 .. MaxTargets -> Nat] /\ hist[c].tried \subseteq 1 .. MaxTargets
          /\ Tried(r) \subseteq 1 .. MaxTargets
      BY <1>b, <2>1 DEF Cycles, Tried
    <3>2. ASSUME NEW got \in [1 .. MaxTargets -> Nat], NEW t \in 1 .. MaxTargets
          PROVE  [got EXCEPT ![t] = got[t] + 1] \in [1 .. MaxTargets -> Nat]
      <4>1. got[t] + 1 \in Nat
        OBVIOUS
      <4> QED
        BY <4>1
    <3> QED
      BY <3>1, <3>2, <2>1, <1>b DEF Cycles
  <2>4. /\ run' = [run EXCEPT ![r] = x] /\ hist' = [hist EXCEPT ![c] = h]
        /\ camp' = camp /\ queue' = queue
    BY <1>0, <1>b, <1>3 DEF SendArrives, Execs
  <2> HIDE DEF x, h
  <2> QED
    BY <2>2, <2>3, <2>4, <1>0, <1>b, TypedRun, OneCycle
<1>f. ASSUME FailTarget(r), run[r].pc \in {"send", "countSent"}
      PROVE  camp' \in [Campaigns -> Rows] /\ run' \in Execs /\ \A s \in Runs : Placed(run'[s])
  <2> DEFINE n == run[r].i + 1
             m == run[r].failedCount + 1
             x == [run[r] EXCEPT !.pc = "check", !.i = n, !.failedCount = m]
             row == [camp[c] EXCEPT !.failedCount = m]
  <2>1. run[r].i \in Nat /\ run[r].i >= 1 /\ run[r].failedCount \in Nat
    BY <1>b, <1>f DEF Executions, Placed
  <2>2. n \in Nat /\ n >= 1 /\ m \in Nat
    BY <2>1
  <2>6. x \in Executions /\ Placed(x)
    <3> HIDE DEF n, m
    <3>1. x \in Executions /\ x.pc = "check" /\ x.i = n
      BY <1>b, <2>2 DEF Executions
    <3> HIDE DEF x
    <3> QED
      BY <3>1, <2>2 DEF Placed
  <2>4. row \in Rows
    BY <1>b, <2>1 DEF Rows
  <2>5. /\ run' = [run EXCEPT ![r] = x]
        /\ camp' = camp \/ camp' = [camp EXCEPT ![c] = row]
    BY <1>0, <1>b, <1>f DEF FailTarget, Execs
  <2> HIDE DEF x, row
  <2> QED
    BY <2>6, <2>4, <2>5, <1>b, TypedRun, TypedRow
<1>4. CASE SendFails(r)
  <2> DEFINE h == [hist[c] EXCEPT !.tried = Tried(r)]
  <2>1. run[r].i \in 1 .. MaxTargets
    BY <1>b, <1>4, CampaignAssumption DEF Placed, SendFails, Executions
  <2>2. h \in Cycles
    BY <2>1, <1>b DEF Cycles, Tried
  <2>3. hist' = [hist EXCEPT ![c] = h] /\ queue' = queue /\ FailTarget(r) /\ run[r].pc = "send"
    BY <1>0, <1>b, <1>4 DEF SendFails
  <2> HIDE DEF h
  <2> QED
    BY <2>2, <2>3, <1>0, <1>b, <1>f, OneCycle
<1>5. CASE PeerFlood(r)
  <2> DEFINE row == [camp[c] EXCEPT !.status = "PAUSED", !.failedCount = run[r].failedCount + 1]
  <2>1. row \in Rows
    <3>1. run[r].failedCount + 1 \in Nat
      BY <1>b DEF Executions
    <3> QED
      BY <3>1, <1>b DEF Rows, Statuses
  <2>2. /\ camp' = camp \/ camp' = [camp EXCEPT ![c] = row]
        /\ run' = [run EXCEPT ![r] = Leaving(r)]
        /\ queue' = queue /\ hist' = hist
    BY <1>0, <1>b, <1>5 DEF PeerFlood
  <2> HIDE DEF row
  <2> QED
    BY <2>1, <2>2, <1>0, <1>b, TypedRun, TypedRow
<1>6. CASE FloodWait(r)
  <2> DEFINE row == [camp[c] EXCEPT !.nextRunAt = "future"]
  <2>1. row \in Rows
    BY <1>b DEF Rows
  <2>2. /\ camp' = camp \/ camp' = [camp EXCEPT ![c] = row]
        /\ \/ run' = [run EXCEPT ![r] = Leaving(r)]
           \/ run' = OldRuns(c, [run EXCEPT ![r] = Leaving(r)])
        /\ queue' = queue \/ addUserbotCampaignJob(c)
        /\ hist' = hist
    BY <1>0, <1>b, <1>6 DEF FloodWait
  <2> HIDE DEF row, c
  <2> QED
    BY <2>1, <2>2, <1>0, <1>b, TypedRun, TypedRow, AddJobType
<1>7. CASE CountSent(r)
  <2> DEFINE n == run[r].i + 1
             x == [run[r] EXCEPT !.pc = "check", !.i = n]
             row == [camp[c] EXCEPT !.sentCount = run[r].sentCount]
  <2>1. run[r].i \in Nat /\ run[r].i >= 1
    BY <1>b, <1>7 DEF Executions, Placed, CountSent
  <2>2. n \in Nat /\ n >= 1
    BY <2>1
  <2>6. x \in Executions /\ Placed(x)
    <3> HIDE DEF n
    <3>1. x \in Executions /\ x.pc = "check" /\ x.i = n
      BY <1>b, <2>2 DEF Executions
    <3> HIDE DEF x
    <3> QED
      BY <3>1, <2>2 DEF Placed
  <2>4. row \in Rows
    BY <1>b DEF Rows, Executions
  <2>5. /\ run' = [run EXCEPT ![r] = x] /\ queue' = queue /\ hist' = hist
        /\ camp' = camp \/ camp' = [camp EXCEPT ![c] = row]
    BY <1>0, <1>b, <1>7 DEF CountSent, Execs
  <2> HIDE DEF x, row
  <2> QED
    BY <2>6, <2>4, <2>5, <1>0, <1>b, TypedRun, TypedRow
<1>8. CASE CountSentThrows(r)
  <2> DEFINE h == [hist[c] EXCEPT !.slips = hist[c].slips + 1]
  <2>1. h \in Cycles
    BY <1>b DEF Cycles
  <2>2. hist' = [hist EXCEPT ![c] = h] /\ queue' = queue /\ FailTarget(r) /\ run[r].pc = "countSent"
    BY <1>0, <1>b, <1>8 DEF CountSentThrows
  <2> HIDE DEF h
  <2> QED
    BY <2>1, <2>2, <1>0, <1>b, <1>f, OneCycle
<1> QED
  BY <1>1, <1>2, <1>3, <1>4, <1>5, <1>6, <1>7, <1>8

\* The end of an execution, and what may befall it, keep the types.
LEMMA TypedEnd ==
    ASSUME Typed, Existing, NEW r \in Runs,
           Finish(r) \/ Release(r) \/ Crash(r) \/ LockLapses(r) \/ Heartbeat(r)
    PROVE  Typed'
<1> DEFINE c == run[r].c
<1>0. /\ camp \in [Campaigns -> Rows] /\ queue \subseteq Jobs /\ run \in Execs
      /\ \A s \in Runs : Placed(run[s])
      /\ hist \in [Campaigns -> Cycles] /\ seen \subseteq Campaigns
      /\ events \in Nat /\ events <= MaxEvents /\ lock \in Runs \cup {"free", "dead"}
  BY TypedParts
<1>a. ASSUME run[r].pc # "idle"
      PROVE  /\ run[r] \in Executions /\ c \in Campaigns /\ camp[c] \in Rows /\ hist[c] \in Cycles
             /\ Leaving(r) \in Executions /\ Placed(Leaving(r)) /\ Placed(run[r])
  BY <1>0, <1>a, TypedParts, LeavingType
<1>b. Placed(Idle) /\ Idle \in Executions \cup {Idle}
  BY DEF Placed, Idle
<1>c. seen' = seen /\ events' \in Nat /\ events' <= MaxEvents /\ lock' \in Runs \cup {"free", "dead"}
  <2>1. seen' = seen /\ (Counted \/ events' = events) /\ lock' \in {lock, "free", "dead"}
    BY DEF Finish, Release, Crash, LockLapses, Heartbeat
  <2> QED
    BY <2>1, <1>0, CountedType
<1> SUFFICES /\ camp' \in [Campaigns -> Rows] /\ queue' \subseteq Jobs /\ run' \in Execs
             /\ \A s \in Runs : Placed(run'[s])
             /\ hist' \in [Campaigns -> Cycles]
  BY <1>0, <1>c DEF Typed, Jobs, Execs
<1>1. CASE Finish(r)
  <2> DEFINE again == [camp[c] EXCEPT !.sentCount = 0, !.failedCount = 0, !.nextRunAt = "future"]
             over == [camp[c] EXCEPT !.status = "COMPLETED", !.nextRunAt = "null"]
  <2>1. run[r].pc # "idle"
    BY <1>1 DEF Finish
  <2>2. again \in Rows /\ over \in Rows
    BY <2>1, <1>a DEF Rows, Statuses
  <2>3. camp' = camp \/ camp' = [camp EXCEPT ![c] = again] \/ camp' = [camp EXCEPT ![c] = over]
    BY <1>0, <1>1, <1>a, <2>1 DEF Finish
  <2>4. /\ \/ run' = [run EXCEPT ![r] = Leaving(r)]
           \/ run' = OldRuns(c, [run EXCEPT ![r] = Leaving(r)])
        /\ queue' = queue \/ queue' = OldJobs(c) \/ addUserbotCampaignJob(c)
        /\ hist' = hist \/ hist' = [hist EXCEPT ![c] = NewCycle(c)]
    BY <1>1 DEF Finish
  <2> HIDE DEF again, over, c
  <2>5. camp' \in [Campaigns -> Rows]
    BY <2>1, <2>2, <2>3, <1>a, TypedRow
  <2>6. run' \in Execs /\ \A s \in Runs : Placed(run'[s])
    BY <2>1, <2>4, <1>a, TypedRun
  <2>7. queue' \subseteq Jobs
    BY <2>1, <2>4, <1>0, <1>a, OldJobsType, AddJobType
  <2>8. hist' \in [Campaigns -> Cycles]
    <3>1. NewCycle(c) \in Cycles /\ c \in Campaigns
      BY <2>1, <1>a, NewCycleType
    <3>2. [hist EXCEPT ![c] = NewCycle(c)] \in [Campaigns -> Cycles]
      BY <3>1, <1>0, OneCycle
    <3> QED
      BY <3>2, <2>4, <1>0
  <2> QED
    BY <2>5, <2>6, <2>7, <2>8
<1>2. CASE Release(r)
  <2>1. /\ run' = [run EXCEPT ![r] = Idle]
        /\ camp' = camp /\ queue' = queue /\ hist' = hist
    BY <1>2 DEF Release
  <2> QED
    BY <2>1, <1>0, <1>b, TypedRun
<1>3. CASE Crash(r)
  <2> DEFINE h == [hist[c] EXCEPT !.strays = hist[c].strays + 1]
             j == [c |-> c, runAt |-> run[r].runAt]
  <2>1. run[r].pc # "idle"
    BY <1>3 DEF Crash, Busy
  <2>2. h \in Cycles
    BY <2>1, <1>a DEF Cycles
  <2>3. run[r].pc \in {"read", "claim"} => j \in Jobs
    BY <2>1, <1>a DEF Jobs, Executions
  <2>4. /\ run' = [run EXCEPT ![r] = Idle] /\ camp' = camp
        /\ queue' = queue \/ (queue' = queue \cup {j} /\ run[r].pc \in {"read", "claim"})
        /\ hist' = hist \/ hist' = [hist EXCEPT ![c] = h]
    BY <1>0, <1>3, <1>a, <2>1 DEF Crash
  <2> HIDE DEF h, j, c
  <2>5. run' \in Execs /\ \A s \in Runs : Placed(run'[s])
    BY <2>4, <1>b, TypedRun
  <2>6. hist' \in [Campaigns -> Cycles]
    BY <2>1, <2>2, <2>4, <1>0, <1>a, OneCycle
  <2> QED
    BY <2>3, <2>4, <2>5, <2>6, <1>0
<1>4. CASE LockLapses(r)
  <2> DEFINE h == [hist[c] EXCEPT !.lapses = hist[c].lapses + 1]
             x == [run[r] EXCEPT !.lapsed = TRUE]
  <2>1. run[r].pc # "idle"
    BY <1>4 DEF LockLapses, Existing
  <2>2. h \in Cycles
    BY <2>1, <1>a DEF Cycles
  <2>3. x \in Executions /\ Placed(x)
    BY <2>1, <1>a DEF Executions, Placed
  <2>4. /\ run' = [run EXCEPT ![r] = x] /\ camp' = camp /\ queue' = queue
        /\ hist' = [hist EXCEPT ![c] = h]
    BY <1>0, <1>4, <1>a, <2>1 DEF LockLapses, Execs
  <2> HIDE DEF h, x
  <2> QED
    BY <2>1, <2>2, <2>3, <2>4, <1>0, <1>a, TypedRun, OneCycle
<1>5. CASE Heartbeat(r)
  <2> DEFINE x == [run[r] EXCEPT !.lockLost = TRUE]
  <2>1. run[r].pc # "idle"
    BY <1>5 DEF Heartbeat, Busy
  <2>2. x \in Executions /\ Placed(x)
    BY <2>1, <1>a DEF Executions, Placed
  <2>3. /\ run' = [run EXCEPT ![r] = x] /\ camp' = camp /\ queue' = queue /\ hist' = hist
    BY <1>0, <1>5 DEF Heartbeat, Execs
  <2> HIDE DEF x
  <2> QED
    BY <2>2, <2>3, <1>0, TypedRun
<1> QED
  BY <1>1, <1>2, <1>3, <1>4, <1>5

-----------------------------------------------------------------------------
\* A step of execution r leaves the other executions and other campaigns alone.
Others(r) ==
    /\ \A s \in Runs : s # r =>
          /\ \A d \in Campaigns : Same(run, run', d, s)
          /\ run'[s].pc = run[s].pc /\ run'[s].c = run[s].c /\ run'[s].lapsed = run[s].lapsed
    /\ \A d \in Campaigns : d # run[r].c => camp'[d] = camp[d] /\ hist'[d] = hist[d]

\* What it does to its own campaign is what it does to the invariant.
LEMMA OwnCampaign ==
    ASSUME Typed, Typed', Existing, CampInv, NEW r \in Runs, run[r].pc # "idle", Others(r),
           run'[r].pc = "idle" \/ (/\ run'[r].c = run[r].c
                                   /\ run[r].lapsed => run'[r].lapsed),
           lock = r => lock' = r \/ run'[r].pc = "idle" \/ run'[r].lapsed,
           lock' = r => lock = r /\ run'[r].pc # "idle",
           \A s \in Runs : s # r => (lock' = s <=> lock = s),
           \A j \in queue' : j.c = run[r].c \/ \E k \in queue : j.c = k.c,
           camp'[run[r].c].status # "NONE",
           Good(camp'[run[r].c], hist'[run[r].c], run', run[r].c)
    PROVE  Existing' /\ CampInv'
<1>1. /\ camp \in [Campaigns -> Rows] /\ queue \subseteq Jobs /\ run \in Execs /\ run' \in Execs
      /\ hist \in [Campaigns -> Cycles] /\ run[r].c \in Campaigns /\ queue' \subseteq Jobs
  BY TypedParts DEF Typed, Execs, Jobs
<1>2. \A d \in Campaigns : camp[d].status # "NONE" => camp'[d].status # "NONE"
  BY DEF Others
<1>3. ASSUME NEW j \in queue' PROVE camp'[j.c].status # "NONE"
  <2>1. CASE j.c = run[r].c
    BY <2>1
  <2>2. ASSUME NEW k \in queue, j.c = k.c PROVE camp'[j.c].status # "NONE"
    BY <2>2, <1>1, <1>2 DEF Existing, Jobs
  <2> QED
    BY <2>1, <2>2
<1>4. ASSUME NEW s \in Runs, run'[s].pc # "idle" PROVE camp'[run'[s].c].status # "NONE"
  <2>1. CASE s = r
    BY <2>1, <1>4
  <2>2. CASE s # r
    <3>1. run[s].pc # "idle" /\ run'[s].c = run[s].c
      BY <2>2, <1>4 DEF Others
    <3>2. run[s].c \in Campaigns
      BY <3>1, TypedParts
    <3> QED
      BY <3>1, <3>2, <1>2 DEF Existing
  <2> QED
    BY <2>1, <2>2
<1>5. \A s \in Runs : lock' = s => run'[s].pc # "idle"
  BY DEF Existing, Others
<1>6. Existing'
  BY <1>3, <1>4, <1>5 DEF Existing
<1>7. SessionExclusive'
  BY DEF SessionExclusive, CampInv, Busy, Others
<1>8. ASSUME NEW d \in Campaigns PROVE Good(camp'[d], hist'[d], run', d)
  <2>1. CASE d = run[r].c
    BY <2>1
  <2>2. CASE d # run[r].c
    <3>1. /\ camp'[d] = camp[d] /\ hist'[d] = hist[d] /\ camp[d] \in Rows /\ hist[d] \in Cycles
          /\ Good(camp[d], hist[d], run, d)
      BY <2>2, <1>1 DEF Others, CampInv
    <3>2. Same(run, run', d, r)
      BY <2>2 DEF Same, Sender, Candidate
    <3>3. \A s \in Runs : Same(run, run', d, s)
      BY <3>2 DEF Others
    <3>4. KeepsRow(camp[d], camp[d])
      BY DEF KeepsRow
    <3> QED
      BY <3>1, <3>3, <3>4, <1>1, LeaveGood
  <2> QED
    BY <2>1, <2>2
<1> QED
  BY <1>6, <1>7, <1>8 DEF CampInv

\* The usual case: the lock stays, and the execution keeps its campaign.
LEMMA OwnStep ==
    ASSUME Typed, Typed', Existing, CampInv, NEW r \in Runs, run[r].pc # "idle", Others(r),
           run'[r].pc # "idle", run'[r].c = run[r].c, run'[r].lapsed = run[r].lapsed, lock' = lock,
           \A j \in queue' : j.c = run[r].c \/ \E k \in queue : j.c = k.c,
           camp'[run[r].c].status # "NONE",
           Good(camp'[run[r].c], hist'[run[r].c], run', run[r].c)
    PROVE  Existing' /\ CampInv'
  BY OwnCampaign

\* Execution r becomes x; the others are where they were.
Became(r, x) ==
    /\ \A s \in Runs : s # r =>
          /\ \A d \in Campaigns : Same(run, run', d, s)
          /\ run'[s].pc = run[s].pc /\ run'[s].c = run[s].c /\ run'[s].lapsed = run[s].lapsed
    /\ run'[r].pc = x.pc /\ run'[r].c = x.c /\ run'[r].lapsed = x.lapsed /\ run'[r].i = x.i
    /\ run'[r].sentCount = x.sentCount /\ run'[r].failedCount = x.failedCount

\* An execution is replaced, and a campaign may be armed anew.
LEMMA OthersRun ==
    ASSUME Typed, NEW r \in Runs, NEW x \in Executions \cup {Idle},
           \/ run' = [run EXCEPT ![r] = x]
           \/ \E c \in Campaigns : run' = OldRuns(c, [run EXCEPT ![r] = x])
    PROVE  Became(r, x)
<1> DEFINE g == [run EXCEPT ![r] = x]
<1>1. /\ run \in Execs /\ g \in Execs /\ g[r] = x
      /\ \A s \in Runs : s # r => g[s] = run[s]
  <2>1. run \in Execs
    BY TypedParts
  <2>2. g \in Execs
    BY <2>1, OneRun
  <2>3. g[r] = x
    BY <2>1 DEF Execs
  <2>4. \A s \in Runs : s # r => g[s] = run[s]
    BY <2>1 DEF Execs
  <2> QED
    BY <2>1, <2>2, <2>3, <2>4
<1> HIDE DEF g
<1>2. ASSUME NEW f \in Execs, NEW c, NEW k \in Execs, k = f \/ k = OldRuns(c, f), NEW s \in Runs
      PROVE  /\ k[s].pc = f[s].pc /\ k[s].c = f[s].c /\ k[s].lapsed = f[s].lapsed
             /\ k[s].i = f[s].i /\ k[s].sentCount = f[s].sentCount
             /\ k[s].failedCount = f[s].failedCount
             /\ \A d : Same(f, k, d, s)
  <2>1. CASE k = f
    BY <2>1 DEF Same
  <2>2. CASE k = OldRuns(c, f)
    BY <2>2, OldFacts, OldSame
  <2> QED
    BY <1>2, <2>1, <2>2
<1>3. ASSUME NEW k \in Execs, k = g \/ \E c \in Campaigns : k = OldRuns(c, g), NEW s \in Runs
      PROVE  /\ k[s].pc = g[s].pc /\ k[s].c = g[s].c /\ k[s].lapsed = g[s].lapsed
             /\ k[s].i = g[s].i /\ k[s].sentCount = g[s].sentCount
             /\ k[s].failedCount = g[s].failedCount
             /\ \A d : Same(g, k, d, s)
  BY <1>1, <1>2, <1>3
<1>4. run' \in Execs /\ (run' = g \/ \E c \in Campaigns : run' = OldRuns(c, g))
  BY <1>1, OldType DEF g
<1>5. ASSUME NEW s \in Runs, s # r, NEW d \in Campaigns PROVE Same(run, run', d, s)
  <2>1. Same(g, run', d, s) /\ g[s] = run[s]
    BY <1>1, <1>3, <1>4, <1>5
  <2> QED
    BY <2>1 DEF Same, Sender, Candidate
<1>6. ASSUME NEW s \in Runs, s # r
      PROVE  run'[s].pc = run[s].pc /\ run'[s].c = run[s].c /\ run'[s].lapsed = run[s].lapsed
  BY <1>1, <1>3, <1>4, <1>6
<1> QED
  BY <1>1, <1>3, <1>4, <1>5, <1>6 DEF Became

-----------------------------------------------------------------------------
\* An execution that has only to give back its lock does no harm, unless a
\* message it sent for a running campaign is not counted.
LEMMA LeaveStep ==
    ASSUME Typed, Typed', Existing, CampInv, NEW r \in Runs, run[r].pc # "idle",
           \/ run' = [run EXCEPT ![r] = Leaving(r)]
           \/ run' = OldRuns(run[r].c, [run EXCEPT ![r] = Leaving(r)]),
           KeepsRow(camp[run[r].c], camp'[run[r].c]), camp'[run[r].c].status # "NONE",
           \A d \in Campaigns : d # run[r].c => camp'[d] = camp[d],
           hist' = hist, lock' = lock,
           \A j \in queue' : j.c = run[r].c \/ \E k \in queue : j.c = k.c,
           camp'[run[r].c].status = "RUNNING" /\ camp'[run[r].c].lastRunAt = r
               => run[r].pc # "countSent"
    PROVE  Existing' /\ CampInv'
<1>1. /\ run[r].c \in Campaigns /\ camp[run[r].c] \in Rows /\ hist[run[r].c] \in Cycles
      /\ run \in Execs /\ run' \in Execs /\ camp'[run[r].c] \in Rows
  BY TypedParts DEF Typed, Execs, Rows
<1>2. /\ Leaving(r) \in Executions /\ Leaving(r).pc = "release" /\ Leaving(r).c = run[r].c
      /\ Leaving(r).lapsed = run[r].lapsed
  BY <1>1, LeavingType
<1>3. /\ Others(r) /\ run'[r].pc = "release" /\ run'[r].c = run[r].c
      /\ run'[r].lapsed = run[r].lapsed
  <2>1. Became(r, Leaving(r))
    BY <1>1, <1>2, OthersRun
  <2> QED
    BY <1>2, <2>1 DEF Became, Others
<1>4. Gone(camp'[run[r].c], run, run', run[r].c, r)
  BY <1>3 DEF Gone, Sender, Candidate, Current
<1>5. Good(camp'[run[r].c], hist[run[r].c], run', run[r].c)
  <2>1. \A s \in Runs : Same(run, run', run[r].c, s) \/ Gone(camp'[run[r].c], run, run', run[r].c, s)
    BY <1>1, <1>3, <1>4 DEF Others
  <2>2. Good(camp[run[r].c], hist[run[r].c], run, run[r].c)
    BY <1>1 DEF CampInv
  <2> QED
    BY <2>1, <2>2, <1>1, LeaveGood
<1> QED
  BY <1>1, <1>3, <1>5, OwnStep

\* So a throw does none: the campaign fails or is another execution's.
LEMMA AbortStep ==
    ASSUME Typed, Typed', Existing, CampInv, NEW r \in Runs, run[r].pc # "idle",
           Abort(r), hist' = hist, lock' = lock
    PROVE  Existing' /\ CampInv'
<1>1. /\ run[r].c \in Campaigns /\ camp[run[r].c] \in Rows /\ camp \in [Campaigns -> Rows]
      /\ queue \subseteq Jobs /\ camp[run[r].c].status # "NONE"
  BY TypedParts DEF Existing
<1>2. /\ KeepsRow(camp[run[r].c], camp'[run[r].c]) /\ camp'[run[r].c].status # "NONE"
      /\ camp'[run[r].c].status = "RUNNING" => camp'[run[r].c].lastRunAt # r
      /\ \A d \in Campaigns : d # run[r].c => camp'[d] = camp[d]
  BY <1>1 DEF Abort, Mine, KeepsRow, Rows
<1>3. /\ \/ run' = [run EXCEPT ![r] = Leaving(r)]
         \/ run' = OldRuns(run[r].c, [run EXCEPT ![r] = Leaving(r)])
      /\ queue' = queue \/ queue' = OldJobs(run[r].c)
  BY DEF Abort
<1>4. \A j \in queue' : j.c = run[r].c \/ \E k \in queue : j.c = k.c
  BY <1>1, <1>3, OldJobsType
<1> QED
  BY <1>2, <1>3, <1>4, LeaveStep

\* Reading the row keeps the invariant.
LEMMA ReadStep ==
    ASSUME Typed, Typed', Existing, CampInv, NEW r \in Runs, ReadFresh(r)
    PROVE  Existing' /\ CampInv'
<1> DEFINE row == camp[run[r].c]
           x == [run[r] EXCEPT !.pc = "claim", !.freshLast = row.lastRunAt,
                               !.sentCount = row.sentCount, !.failedCount = row.failedCount]
<1>1. /\ run[r].pc = "read" /\ camp' = camp /\ queue' = queue /\ hist' = hist /\ lock' = lock
      /\ \/ run' = [run EXCEPT ![r] = x] /\ run[r].runAt = "armed"
         \/ run' = [run EXCEPT ![r] = Leaving(r)]
  BY TypedParts DEF ReadFresh, Execs
<1>2. /\ run[r].c \in Campaigns /\ row \in Rows /\ row.status # "NONE" /\ run[r] \in Executions
      /\ hist[run[r].c] \in Cycles /\ run \in Execs /\ run' \in Execs
      /\ Good(row, hist[run[r].c], run, run[r].c)
  BY <1>1, TypedParts DEF Existing, Typed, Execs, CampInv
<1>3. CASE run' = [run EXCEPT ![r] = Leaving(r)]
  <2>1. KeepsRow(row, row)
    BY DEF KeepsRow
  <2> QED
    BY <1>1, <1>2, <1>3, <2>1, LeaveStep
<1>4. CASE run' = [run EXCEPT ![r] = x] /\ run[r].runAt = "armed"
  <2>1. /\ x \in Executions /\ x.pc = "claim" /\ x.c = run[r].c /\ x.lapsed = run[r].lapsed
        /\ x.sentCount = row.sentCount /\ x.failedCount = row.failedCount
    BY <1>2 DEF Rows, Executions
  <2> HIDE DEF x
  <2>2. /\ Others(r) /\ run'[r].pc = "claim" /\ run'[r].c = run[r].c
        /\ run'[r].lapsed = run[r].lapsed /\ SameCounts(row, run'[r])
    <3>1. /\ run'[r].pc = x.pc /\ run'[r].c = x.c /\ run'[r].lapsed = x.lapsed
          /\ run'[r].sentCount = x.sentCount /\ run'[r].failedCount = x.failedCount
          /\ \A s \in Runs : s # r =>
                /\ \A d \in Campaigns : Same(run, run', d, s)
                /\ run'[s].pc = run[s].pc /\ run'[s].c = run[s].c /\ run'[s].lapsed = run[s].lapsed
      <4>1. Became(r, x)
        BY <1>4, <2>1, OthersRun
      <4> QED
        BY <4>1 DEF Became
    <3> QED
      BY <1>1, <2>1, <3>1 DEF Others, SameCounts
  <2>3. Good(row, hist[run[r].c], run', run[r].c)
    <3>1. Candidate(run, run[r].c, r)
      BY <1>1, <1>4 DEF Candidate
    <3>2. \A s \in Runs : s # r => Same(run, run', run[r].c, s)
      BY <1>2, <2>2 DEF Others
    <3> QED
      BY <1>1, <1>2, <2>2, <3>1, <3>2, ReadGood
  <2> QED
    BY <1>1, <1>2, <2>2, <2>3, OwnStep
<1> QED
  BY <1>1, <1>3, <1>4

\* Claiming the run keeps the invariant.
LEMMA ClaimStep ==
    ASSUME Typed, Typed', Existing, CampInv, NEW r \in Runs, Claim(r)
    PROVE  Existing' /\ CampInv'
<1> DEFINE c == run[r].c
           row == camp[c]
           first == IF row.groupOnly THEN run[r].sentCount + run[r].failedCount + 1 ELSE 1
           x == [run[r] EXCEPT !.pc = "check", !.i = first, !.runAt = "old", !.freshLast = "null"]
           row2 == [row EXCEPT !.nextRunAt = "null", !.lastRunAt = r]
<1>1. /\ run[r].pc = "claim" /\ hist' = hist /\ lock' = lock
      /\ \/ /\ run' = [run EXCEPT ![r] = Leaving(r)] /\ camp' = camp /\ queue' = queue
         \/ /\ run' = OldRuns(c, [run EXCEPT ![r] = x]) /\ camp' = [camp EXCEPT ![c] = row2]
            /\ queue' = OldJobs(c) /\ row.status = "RUNNING" /\ run[r].runAt = "armed"
  BY TypedParts DEF Claim, StartRun, Execs
<1>2. /\ c \in Campaigns /\ row \in Rows /\ row.status # "NONE" /\ run[r] \in Executions
      /\ hist[c] \in Cycles /\ run \in Execs /\ run' \in Execs /\ queue \subseteq Jobs
      /\ camp \in [Campaigns -> Rows]
  BY <1>1, TypedParts DEF Existing, Typed, Execs
<1>3. CASE run' = [run EXCEPT ![r] = Leaving(r)] /\ camp' = camp /\ queue' = queue
  <2>1. KeepsRow(row, row)
    BY DEF KeepsRow
  <2> QED
    BY <1>1, <1>2, <1>3, <2>1, LeaveStep
<1>4. CASE /\ run' = OldRuns(c, [run EXCEPT ![r] = x]) /\ camp' = [camp EXCEPT ![c] = row2]
           /\ queue' = OldJobs(c) /\ row.status = "RUNNING" /\ run[r].runAt = "armed"
  <2>1. /\ row2 \in Rows /\ row2.status = "RUNNING" /\ row2.lastRunAt = r
        /\ row2.groupOnly = row.groupOnly
        /\ row2.sentCount = row.sentCount /\ row2.failedCount = row.failedCount
    BY <1>2, <1>4 DEF Rows
  <2>2. first \in Nat /\ (row.groupOnly => first = run[r].sentCount + run[r].failedCount + 1)
    BY <1>2 DEF Executions
  <2> HIDE DEF first, row2
  <2>3. /\ x \in Executions /\ x.pc = "check" /\ x.c = c /\ x.lapsed = run[r].lapsed
        /\ x.i = first /\ x.sentCount = run[r].sentCount /\ x.failedCount = run[r].failedCount
    BY <1>2, <2>2 DEF Executions
  <2> HIDE DEF x
  <2>4. /\ camp'[c] = row2 /\ \A d \in Campaigns : d # c => camp'[d] = camp[d]
    BY <1>2, <1>4, <2>1, OneRow
  <2>5. /\ run'[r].pc = x.pc /\ run'[r].c = x.c /\ run'[r].lapsed = x.lapsed /\ run'[r].i = x.i
        /\ run'[r].sentCount = x.sentCount /\ run'[r].failedCount = x.failedCount
        /\ \A s \in Runs : s # r =>
              /\ \A d \in Campaigns : Same(run, run', d, s)
              /\ run'[s].pc = run[s].pc /\ run'[s].c = run[s].c /\ run'[s].lapsed = run[s].lapsed
    <3>1. run' = OldRuns(c, [run EXCEPT ![r] = x]) /\ c \in Campaigns
      BY <1>2, <1>4
    <3> HIDE DEF c
    <3> QED
      <4>1. Became(r, x)
        BY <2>3, <3>1, OthersRun
      <4> QED
        BY <4>1 DEF Became
  <2>6. \A s \in Runs : ~Candidate(run', c, s)
    <3>1. [run EXCEPT ![r] = x] \in Execs
      BY <1>2, <2>3, OneRun
    <3> QED
      BY <3>1, <1>4, OldFacts
  <2>7. Others(r)
    BY <1>1, <2>4, <2>5 DEF Others
  <2>8. Candidate(run, c, r) /\ Sender(run', c, r)
    BY <1>1, <1>4, <2>3, <2>5 DEF Candidate, Sender
  <2>9. Good(row, hist[c], run, c)
    BY <1>2 DEF CampInv
  <2> HIDE DEF c, row
  <2>10. Good(row2, hist[c], run', c)
    <3>1. \A s \in Runs : s # r => Same(run, run', c, s)
      BY <1>2, <2>5
    <3>2. /\ run'[r].pc = "check" /\ run'[r].lapsed = run[r].lapsed
          /\ run'[r].sentCount = run[r].sentCount /\ run'[r].failedCount = run[r].failedCount
          /\ row.groupOnly => run'[r].i = run[r].sentCount + run[r].failedCount + 1
      BY ONLY <2>2, <2>3, <2>5
    <3> QED
      BY ONLY <1>1, <1>2, <1>4, <2>1, <2>6, <2>8, <2>9, <3>1, <3>2, r \in Runs, ClaimGood
  <2>11. \A j \in queue' : j.c = c \/ \E k \in queue : j.c = k.c
    BY <1>2, <1>4, OldJobsType
  <2> USE DEF c
  <2> QED
    BY <1>1, <2>1, <2>3, <2>4, <2>5, <2>7, <2>10, <2>11, OwnStep
<1> QED
  BY <1>1, <1>3, <1>4

\* A step of the sending loop keeps the invariant if it does what StepGood asks.
LEMMA LoopStep ==
    ASSUME Typed, Typed', Existing, CampInv, NEW r \in Runs, NEW c \in Campaigns, c = run[r].c,
           Sender(run, c, r), NEW x \in Executions, run' = [run EXCEPT ![r] = x],
           x.pc \in {"check", "send", "countSent", "finish"}, x.c = c, x.lapsed = run[r].lapsed,
           \A d \in Campaigns : d # c => camp'[d] = camp[d] /\ hist'[d] = hist[d],
           lock' = lock, queue' = queue,
           camp'[c].lastRunAt = camp[c].lastRunAt, camp'[c].groupOnly = camp[c].groupOnly,
           camp'[c].status = camp[c].status, camp'[c].totalTarget = camp[c].totalTarget,
           ~Mine(r) => /\ camp'[c].sentCount = camp[c].sentCount
                       /\ camp'[c].failedCount = camp[c].failedCount,
           hist'[c].lapses = hist[c].lapses, hist'[c].strays = hist[c].strays,
           \A t \in 1 .. MaxTargets :
               \/ hist'[c].got[t] = hist[c].got[t]
               \/ /\ hist'[c].got[t] = hist[c].got[t] + 1
                  /\ t = run[r].i /\ run[r].pc = "send" /\ x.pc = "countSent" /\ x.i = run[r].i,
           x.pc = "send" => camp[c].lastRunAt = r,
           Reached(run[r]) <= Reached(x),
           Mine(r) /\ Exact(camp[c], run[r]) => Exact(camp'[c], x),
           \A m \in Nat : Below(hist[c], m) <= Below(hist'[c], m),
           Mine(r) =>
               /\ run[r].sentCount + run[r].failedCount <= Below(hist[c], Reached(run[r]))
                    => x.sentCount + x.failedCount <= Below(hist'[c], Reached(x))
               /\ x.pc = "finish" => camp[c].totalTarget < x.i
    PROVE  Existing' /\ CampInv'
<1>1. /\ camp[c] \in Rows /\ camp'[c] \in Rows /\ hist[c] \in Cycles /\ hist'[c] \in Cycles
      /\ run \in Execs /\ run' \in Execs /\ Good(camp[c], hist[c], run, c)
      /\ run[r].pc # "idle" /\ camp[c].status # "NONE"
  <2>1. run[r].pc # "idle"
    BY DEF Sender
  <2>2. camp' \in [Campaigns -> Rows] /\ hist' \in [Campaigns -> Cycles] /\ run' \in Execs
    BY DEF Typed, Execs, Rows, Cycles
  <2> QED
    BY <2>1, <2>2, TypedParts DEF CampInv, Existing
<1>2. /\ run'[r] = x
      /\ \A s \in Runs : s # r =>
            /\ \A d \in Campaigns : Same(run, run', d, s)
            /\ run'[s].pc = run[s].pc /\ run'[s].c = run[s].c /\ run'[s].lapsed = run[s].lapsed
  <2>1. run'[r] = x
    BY <1>1 DEF Execs
  <2>2. Became(r, x)
    BY <1>1, OthersRun
  <2> QED
    BY <2>1, <2>2 DEF Became
<1>3. Sender(run', c, r)
  BY <1>2 DEF Sender
<1>4. Mine(r) <=> (camp[c].status = "RUNNING" /\ camp[c].lastRunAt = r)
  BY DEF Mine
<1>5. Good(camp'[c], hist'[c], run', c)
  <2>1. \A t \in 1 .. MaxTargets :
           \/ hist'[c].got[t] = hist[c].got[t]
           \/ /\ hist'[c].got[t] = hist[c].got[t] + 1
              /\ t = run[r].i /\ run[r].pc = "send" /\ run'[r].pc = "countSent"
              /\ run'[r].i = run[r].i
    BY <1>2
  <2>2. /\ run'[r].lapsed = run[r].lapsed
        /\ run'[r].pc = "send" => camp[c].lastRunAt = r
        /\ Reached(run[r]) <= Reached(run'[r])
    BY <1>2
  <2>3. camp[c].status = "RUNNING" /\ camp[c].lastRunAt = r /\ Exact(camp[c], run[r])
           => Exact(camp'[c], run'[r])
    BY <1>2, <1>4
  <2>4. camp[c].status = "RUNNING" /\ camp[c].lastRunAt = r =>
           /\ run[r].sentCount + run[r].failedCount <= Below(hist[c], Reached(run[r]))
                => run'[r].sentCount + run'[r].failedCount <= Below(hist'[c], Reached(run'[r]))
           /\ run'[r].pc = "finish" => camp[c].totalTarget < run'[r].i
    BY <1>2, <1>4
  <2>5. ~(camp[c].status = "RUNNING" /\ camp[c].lastRunAt = r) =>
            camp'[c].sentCount = camp[c].sentCount /\ camp'[c].failedCount = camp[c].failedCount
    BY <1>4
  <2>6. /\ camp'[c].lastRunAt = camp[c].lastRunAt /\ camp'[c].groupOnly = camp[c].groupOnly
        /\ camp'[c].status = camp[c].status /\ camp'[c].totalTarget = camp[c].totalTarget
        /\ hist'[c].lapses = hist[c].lapses /\ hist'[c].strays = hist[c].strays
        /\ \A m \in Nat : Below(hist[c], m) <= Below(hist'[c], m)
        /\ Sender(run, c, r)
    OBVIOUS
  <2>7. \A s \in Runs : s # r => Same(run, run', c, s)
    BY <1>2
  <2>8. Stepped(camp[c], camp'[c], hist[c], hist'[c], run, run', c, r)
    BY ONLY <1>3, <2>1, <2>2, <2>3, <2>4, <2>5, <2>6, <2>7 DEF Stepped
  <2> QED
    BY ONLY r \in Runs, <1>1, <2>8, StepGood
<1>6. Others(r)
  BY <1>2 DEF Others
<1> QED
  BY <1>1, <1>2, <1>5, <1>6, OwnStep

\* Looking at the row before a message keeps the invariant.
LEMMA CheckStep ==
    ASSUME Typed, Typed', Existing, CampInv, NEW r \in Runs, Check(r)
    PROVE  Existing' /\ CampInv'
<1>1. run[r].pc = "check" /\ hist' = hist /\ lock' = lock
  BY DEF Check
<1>2. /\ run[r].c \in Campaigns /\ camp[run[r].c] \in Rows /\ run[r] \in Executions /\ run \in Execs
      /\ hist[run[r].c] \in Cycles
  BY <1>1, TypedParts
<1>3. CASE Abort(r)
  BY <1>1, <1>3, AbortStep
<1>4. CASE ~Abort(r)
  <2>1. \E p \in {"send", "finish"} :
           /\ run' = [run EXCEPT ![r] = [run[r] EXCEPT !.pc = p]] /\ camp' = camp /\ queue' = queue
           /\ p = "send" => Mine(r)
           /\ p = "finish" /\ Mine(r) => camp[run[r].c].totalTarget < run[r].i
    <3>1. run[r].i \in Nat /\ camp[run[r].c].totalTarget \in Nat
      BY <1>2 DEF Executions, Rows
    <3>2. ASSUME NEW p
          PROVE  [run EXCEPT ![r].pc = p] = [run EXCEPT ![r] = [run[r] EXCEPT !.pc = p]]
      BY <1>2 DEF Execs
    <3>3. \/ /\ run' = [run EXCEPT ![r].pc = "finish"] /\ camp' = camp /\ queue' = queue
             /\ run[r].i > camp[run[r].c].totalTarget \/ ~Mine(r)
          \/ /\ run' = [run EXCEPT ![r].pc = "send"] /\ camp' = camp /\ queue' = queue
             /\ Mine(r)
      BY <1>4 DEF Check
    <3> QED
      BY <3>1, <3>2, <3>3
  <2>2. PICK p \in {"send", "finish"} :
           /\ run' = [run EXCEPT ![r] = [run[r] EXCEPT !.pc = p]] /\ camp' = camp /\ queue' = queue
           /\ p = "send" => Mine(r)
           /\ p = "finish" /\ Mine(r) => camp[run[r].c].totalTarget < run[r].i
    BY <2>1
  <2> DEFINE x == [run[r] EXCEPT !.pc = p]
  <2>3. /\ x \in Executions /\ x.pc = p /\ x.c = run[r].c /\ x.lapsed = run[r].lapsed
        /\ x.i = run[r].i /\ x.sentCount = run[r].sentCount /\ x.failedCount = run[r].failedCount
    BY <1>2 DEF Executions
  <2>4. run' = [run EXCEPT ![r] = x]
    BY <2>2
  <2> HIDE DEF x
  <2>5. Reached(x) = run[r].i /\ Reached(run[r]) = run[r].i /\ run[r].i \in Nat
    BY <1>1, <1>2, <2>3 DEF Reached, Executions
  <2>6. Exact(camp[run[r].c], run[r]) => Exact(camp[run[r].c], x)
    BY <2>3 DEF Exact
  <2>7. Sender(run, run[r].c, r)
    BY <1>1 DEF Sender
  <2>8. \A m \in Nat : Below(hist[run[r].c], m) <= Below(hist'[run[r].c], m)
    <3>1. ASSUME NEW m \in Nat PROVE Below(hist[run[r].c], m) \in Nat
      BY <1>2, BelowType
    <3> QED
      BY <1>1, <3>1
  <2>9. x.pc = "send" => camp[run[r].c].lastRunAt = r
    BY <2>2, <2>3 DEF Mine
  <2> QED
    <3>1. /\ \A d \in Campaigns : d # run[r].c => camp'[d] = camp[d] /\ hist'[d] = hist[d]
          /\ lock' = lock /\ queue' = queue /\ camp'[run[r].c] = camp[run[r].c]
          /\ hist'[run[r].c] = hist[run[r].c]
          /\ x.pc \in {"check", "send", "countSent", "finish"}
      BY <1>1, <2>2, <2>3
    <3>2. /\ Mine(r) /\ Exact(camp[run[r].c], run[r]) => Exact(camp'[run[r].c], x)
          /\ Reached(run[r]) <= Reached(x)
      BY <2>5, <2>6, <3>1
    <3>3. Mine(r) =>
             /\ run[r].sentCount + run[r].failedCount <= Below(hist[run[r].c], Reached(run[r]))
                  => x.sentCount + x.failedCount <= Below(hist'[run[r].c], Reached(x))
             /\ x.pc = "finish" => camp[run[r].c].totalTarget < x.i
      BY <2>2, <2>3, <2>5, <3>1
    <3> QED
      BY <1>2, <2>3, <2>4, <2>7, <2>8, <2>9, <3>1, <3>2, <3>3, LoopStep
<1> QED
  BY <1>3, <1>4

\* A message that arrives keeps the invariant.
LEMMA ArriveStep ==
    ASSUME Typed, Typed', Existing, CampInv, NEW r \in Runs, SendArrives(r)
    PROVE  Existing' /\ CampInv'
<1> DEFINE c == run[r].c
           n == run[r].sentCount + 1
           x == [run[r] EXCEPT !.pc = "countSent", !.sentCount = n]
<1>1. /\ run[r].pc = "send" /\ camp' = camp /\ queue' = queue /\ lock' = lock
      /\ run' = [run EXCEPT ![r] = x]
  BY TypedParts DEF SendArrives, Execs
<1>2. /\ c \in Campaigns /\ camp[c] \in Rows /\ run[r] \in Executions /\ run \in Execs
      /\ hist[c] \in Cycles /\ hist \in [Campaigns -> Cycles] /\ Placed(run[r])
  BY <1>1, TypedParts
<1>3. /\ run[r].i \in 1 .. MaxTargets /\ run[r].sentCount \in Nat /\ run[r].failedCount \in Nat
      /\ n \in Nat /\ n > run[r].sentCount /\ run[r].i \in Nat /\ run[r].i + 1 \in Nat
  BY <1>1, <1>2, CampaignAssumption DEF Executions, Placed
<1>4. /\ \A d \in Campaigns : d # c => hist'[d] = hist[d]
      /\ hist'[c].tried = Tried(r) /\ hist'[c].slips = hist[c].slips
      /\ hist'[c].lapses = hist[c].lapses /\ hist'[c].strays = hist[c].strays
      /\ \A t \in 1 .. MaxTargets :
            hist'[c].got[t] = IF t = run[r].i THEN hist[c].got[t] + 1 ELSE hist[c].got[t]
  <2> DEFINE h == [hist[c] EXCEPT !.got = [hist[c].got EXCEPT ![run[r].i] =
                                              hist[c].got[run[r].i] + 1],
                                  !.tried = Tried(r)]
  <2>1. hist' = [hist EXCEPT ![c] = h]
    BY <1>2 DEF SendArrives
  <2>2. hist'[c] = h /\ \A d \in Campaigns : d # c => hist'[d] = hist[d]
    BY <1>2, <2>1
  <2>3. /\ h.tried = Tried(r) /\ h.slips = hist[c].slips
        /\ h.lapses = hist[c].lapses /\ h.strays = hist[c].strays
        /\ \A t \in 1 .. MaxTargets :
              h.got[t] = IF t = run[r].i THEN hist[c].got[t] + 1 ELSE hist[c].got[t]
    BY <1>2, <1>3 DEF Cycles
  <2> HIDE DEF h
  <2> QED
    BY <2>2, <2>3
<1>5. /\ x \in Executions /\ x.pc = "countSent" /\ x.c = c /\ x.lapsed = run[r].lapsed
      /\ x.i = run[r].i /\ x.sentCount = n /\ x.failedCount = run[r].failedCount
  <2> HIDE DEF n
  <2> QED
    BY <1>2, <1>3 DEF Executions
<1>6. hist'[c] \in Cycles
  BY <1>2 DEF Typed, Cycles
<1>7. /\ \A m \in Nat : Below(hist[c], m) <= Below(hist'[c], m)
      /\ Mine(r) => Below(hist[c], run[r].i) + 1 <= Below(hist'[c], run[r].i + 1)
  <2>1. CASE Mine(r)
    <3>1. hist'[c].tried = hist[c].tried \cup {run[r].i} /\ run[r].i \in Nat
      BY <1>3, <1>4, <2>1 DEF Tried
    <3> QED
      BY <3>1, <1>2, <1>3, <1>4, <1>6, BelowTried
  <2>2. CASE ~Mine(r)
    <3>1. \A m \in Nat : Below(hist'[c], m) = Below(hist[c], m) /\ Below(hist[c], m) \in Nat
      BY <1>2, <1>4, <2>2, BelowType DEF Tried, Below
    <3> QED
      BY <3>1, <2>2
  <2> QED
    BY <2>1, <2>2
<1> HIDE DEF x
<1>8. Reached(x) = run[r].i + 1 /\ Reached(run[r]) = run[r].i
  BY <1>1, <1>5 DEF Reached
<1>9. Exact(camp[c], run[r]) => Exact(camp[c], x)
  BY <1>2, <1>3, <1>5 DEF Exact, Rows
<1>10. Sender(run, c, r) /\ (Mine(r) => camp[c].lastRunAt = r)
  BY <1>1 DEF Sender, Mine
<1>11. /\ Mine(r) /\ run[r].sentCount + run[r].failedCount <= Below(hist[c], Reached(run[r]))
            => x.sentCount + x.failedCount <= Below(hist'[c], Reached(x))
  <2>1. Below(hist[c], run[r].i) \in Nat /\ Below(hist'[c], run[r].i + 1) \in Nat
    BY <1>2, <1>3, <1>6, BelowType
  <2> QED
    BY <2>1, <1>3, <1>5, <1>7, <1>8
<1>12. \A t \in 1 .. MaxTargets :
           \/ hist'[c].got[t] = hist[c].got[t]
           \/ /\ hist'[c].got[t] = hist[c].got[t] + 1
              /\ t = run[r].i /\ run[r].pc = "send" /\ x.pc = "countSent" /\ x.i = run[r].i
  BY <1>1, <1>4, <1>5
<1>13. /\ camp'[c] = camp[c] /\ Reached(run[r]) <= Reached(x)
       /\ Mine(r) /\ Exact(camp[c], run[r]) => Exact(camp'[c], x)
       /\ x.pc = "countSent" /\ x.c = c /\ c = run[r].c
       /\ \A d \in Campaigns : d # c => camp'[d] = camp[d] /\ hist'[d] = hist[d]
  BY <1>1, <1>3, <1>4, <1>5, <1>8, <1>9
<1> HIDE DEF n, c
<1> QED
  BY <1>1, <1>2, <1>4, <1>5, <1>7, <1>10, <1>11, <1>12, <1>13, LoopStep

\* A message counted as failed keeps the invariant, if the record of the cycle
\* knows the target as tried or the failure as counted twice.
LEMMA FailStep ==
    ASSUME Typed, Typed', Existing, CampInv, NEW r \in Runs, run[r].pc \in {"send", "countSent"},
           FailTarget(r), lock' = lock, queue' = queue, NEW c, c = run[r].c,
           \A d \in Campaigns : d # c => hist'[d] = hist[d],
           hist'[c].got = hist[c].got,
           hist'[c].lapses = hist[c].lapses, hist'[c].strays = hist[c].strays,
           \A m \in Nat : Below(hist[c], m) <= Below(hist'[c], m),
           Mine(r) => Below(hist[c], Reached(run[r])) + 1 <= Below(hist'[c], run[r].i + 1)
    PROVE  Existing' /\ CampInv'
<1> DEFINE n == run[r].i + 1
           m == run[r].failedCount + 1
           x == [run[r] EXCEPT !.pc = "check", !.i = n, !.failedCount = m]
           row2 == [camp[c] EXCEPT !.failedCount = m]
<1>1. /\ c \in Campaigns /\ camp[c] \in Rows /\ run[r] \in Executions /\ run \in Execs
      /\ hist[c] \in Cycles /\ camp \in [Campaigns -> Rows]
  BY TypedParts
<1>2. /\ run' = [run EXCEPT ![r] = x]
      /\ camp' = IF Mine(r) THEN [camp EXCEPT ![c] = row2] ELSE camp
  BY <1>1 DEF FailTarget, Execs
<1>3. /\ run[r].i \in Nat /\ run[r].sentCount \in Nat /\ run[r].failedCount \in Nat
      /\ n \in Nat /\ m \in Nat /\ n = run[r].i + 1 /\ m = run[r].failedCount + 1
      /\ Reached(run[r]) \in Nat /\ Reached(run[r]) <= n
  BY <1>1 DEF Executions, Reached
<1> HIDE DEF n, m
<1>4. /\ row2 \in Rows /\ row2.failedCount = m /\ row2.sentCount = camp[c].sentCount
      /\ row2.lastRunAt = camp[c].lastRunAt /\ row2.groupOnly = camp[c].groupOnly
      /\ row2.status = camp[c].status /\ row2.totalTarget = camp[c].totalTarget
  BY <1>1, <1>3 DEF Rows
<1>5. /\ x \in Executions /\ x.pc = "check" /\ x.c = run[r].c /\ x.lapsed = run[r].lapsed
      /\ x.i = n /\ x.sentCount = run[r].sentCount /\ x.failedCount = m
  BY <1>1, <1>3 DEF Executions
<1> HIDE DEF x, row2
<1>6. camp'[c] = IF Mine(r) THEN row2 ELSE camp[c]
  BY <1>1, <1>2
<1>7. \A d \in Campaigns : d # c => camp'[d] = camp[d]
  BY <1>1, <1>2
<1>8. /\ camp'[c].lastRunAt = camp[c].lastRunAt /\ camp'[c].groupOnly = camp[c].groupOnly
      /\ camp'[c].status = camp[c].status /\ camp'[c].totalTarget = camp[c].totalTarget
      /\ ~Mine(r) => /\ camp'[c].sentCount = camp[c].sentCount
                     /\ camp'[c].failedCount = camp[c].failedCount
  BY <1>4, <1>6
<1>9. Reached(x) = n
  BY <1>5 DEF Reached
<1>10. Mine(r) /\ Exact(camp[c], run[r]) => Exact(camp'[c], x)
  <2>1. /\ camp[c].sentCount \in Nat /\ camp[c].failedCount \in Nat
    BY <1>1 DEF Rows
  <2> QED
    BY <2>1, <1>3, <1>4, <1>5, <1>6 DEF Exact
<1>11. Mine(r) =>
          /\ run[r].sentCount + run[r].failedCount <= Below(hist[c], Reached(run[r]))
               => x.sentCount + x.failedCount <= Below(hist'[c], Reached(x))
          /\ x.pc = "finish" => camp[c].totalTarget < x.i
  <2>1. hist'[c] \in Cycles
    BY <1>1 DEF Typed, Cycles
  <2>2. Below(hist[c], Reached(run[r])) \in Nat /\ Below(hist'[c], n) \in Nat
    BY <2>1, <1>1, <1>3, BelowType
  <2> QED
    BY <2>2, <1>3, <1>5, <1>9
<1>12. Sender(run, c, r)
  BY DEF Sender
<1>13. /\ \A d \in Campaigns : d # c => camp'[d] = camp[d] /\ hist'[d] = hist[d]
       /\ Reached(run[r]) <= Reached(x) /\ x.c = c
       /\ \A t \in 1 .. MaxTargets : hist'[c].got[t] = hist[c].got[t]
  BY <1>3, <1>5, <1>7, <1>9
<1> QED
  BY <1>1, <1>2, <1>5, <1>8, <1>10, <1>11, <1>12, <1>13, LoopStep

\* A refused message keeps the invariant.
LEMMA RefusedStep ==
    ASSUME Typed, Typed', Existing, CampInv, NEW r \in Runs, SendFails(r)
    PROVE  Existing' /\ CampInv'
<1> DEFINE c == run[r].c
           h == [hist[c] EXCEPT !.tried = Tried(r)]
<1>1. /\ run[r].pc = "send" /\ FailTarget(r) /\ queue' = queue /\ lock' = lock
  BY DEF SendFails
<1>2. /\ c \in Campaigns /\ hist[c] \in Cycles /\ hist \in [Campaigns -> Cycles]
      /\ run[r] \in Executions /\ Placed(run[r])
  BY <1>1, TypedParts
<1>3. /\ run[r].i \in 1 .. MaxTargets /\ run[r].i \in Nat /\ Reached(run[r]) = run[r].i
  BY <1>1, <1>2, CampaignAssumption DEF Executions, Placed, Reached
<1>4. hist' = [hist EXCEPT ![c] = h]
  BY <1>2 DEF SendFails
<1>5. hist'[c] = h /\ \A d \in Campaigns : d # c => hist'[d] = hist[d]
  BY <1>2, <1>4
<1>6. /\ h.tried = Tried(r) /\ h.got = hist[c].got /\ h.slips = hist[c].slips
      /\ h.lapses = hist[c].lapses /\ h.strays = hist[c].strays
  BY <1>2 DEF Cycles
<1> HIDE DEF h
<1>7. h \in Cycles
  BY <1>2, <1>5 DEF Typed, Cycles
<1>8. /\ \A m \in Nat : Below(hist[c], m) <= Below(h, m)
      /\ Mine(r) => Below(hist[c], run[r].i) + 1 <= Below(h, run[r].i + 1)
  <2>1. CASE Mine(r)
    <3>1. h.tried = hist[c].tried \cup {run[r].i}
      BY <1>6, <2>1 DEF Tried
    <3> QED
      BY <3>1, <1>2, <1>3, <1>6, <1>7, BelowTried
  <2>2. CASE ~Mine(r)
    <3>1. \A m \in Nat : Below(h, m) = Below(hist[c], m) /\ Below(hist[c], m) \in Nat
      BY <1>2, <1>6, <2>2, BelowType DEF Tried, Below
    <3> QED
      BY <3>1, <2>2
  <2> QED
    BY <2>1, <2>2
<1> QED
  BY <1>1, <1>3, <1>5, <1>6, <1>8, FailStep

\* A sent message that is counted as failed keeps the invariant.
LEMMA SlipStep ==
    ASSUME Typed, Typed', Existing, CampInv, NEW r \in Runs, CountSentThrows(r)
    PROVE  Existing' /\ CampInv'
<1> DEFINE c == run[r].c
           h == [hist[c] EXCEPT !.slips = hist[c].slips + 1]
<1>1. /\ run[r].pc = "countSent" /\ FailTarget(r) /\ queue' = queue /\ lock' = lock
  BY DEF CountSentThrows
<1>2. /\ c \in Campaigns /\ hist[c] \in Cycles /\ hist \in [Campaigns -> Cycles]
      /\ run[r] \in Executions
  BY <1>1, TypedParts
<1>3. /\ run[r].i + 1 \in Nat /\ Reached(run[r]) = run[r].i + 1
  BY <1>1, <1>2 DEF Executions, Reached
<1>4. hist' = [hist EXCEPT ![c] = h]
  BY <1>2 DEF CountSentThrows
<1>5. hist'[c] = h /\ \A d \in Campaigns : d # c => hist'[d] = hist[d]
  BY <1>2, <1>4
<1>6. /\ h.tried = hist[c].tried /\ h.got = hist[c].got /\ h.slips = hist[c].slips + 1
      /\ h.lapses = hist[c].lapses /\ h.strays = hist[c].strays
  BY <1>2 DEF Cycles
<1> HIDE DEF h
<1>7. ASSUME NEW m \in Nat PROVE Below(hist[c], m) + 1 = Below(h, m) /\ Below(hist[c], m) \in Nat
  <2>1. Cardinality({t \in hist[c].tried : t < m}) \in Nat /\ hist[c].slips \in Nat
    BY <1>2, BelowType DEF Cycles
  <2> QED
    BY <2>1, <1>6 DEF Below
<1>8. /\ \A m \in Nat : Below(hist[c], m) <= Below(h, m)
      /\ Below(hist[c], run[r].i + 1) + 1 <= Below(h, run[r].i + 1)
  BY <1>3, <1>7
<1> QED
  BY <1>1, <1>3, <1>5, <1>6, <1>8, FailStep

\* Counting a sent message keeps the invariant.
LEMMA CountStep ==
    ASSUME Typed, Typed', Existing, CampInv, NEW r \in Runs, CountSent(r)
    PROVE  Existing' /\ CampInv'
<1> DEFINE c == run[r].c
           n == run[r].i + 1
           x == [run[r] EXCEPT !.pc = "check", !.i = n]
           row2 == [camp[c] EXCEPT !.sentCount = run[r].sentCount]
<1>0. run[r].pc = "countSent" /\ hist' = hist /\ lock' = lock /\ queue' = queue
  BY DEF CountSent
<1>1. /\ c \in Campaigns /\ camp[c] \in Rows /\ run[r] \in Executions /\ run \in Execs
      /\ hist[c] \in Cycles /\ camp \in [Campaigns -> Rows]
  BY <1>0, TypedParts
<1>2. /\ run' = [run EXCEPT ![r] = x]
      /\ camp' = IF Mine(r) THEN [camp EXCEPT ![c] = row2] ELSE camp
  BY <1>1 DEF CountSent, Execs
<1>3. /\ run[r].i \in Nat /\ run[r].sentCount \in Nat /\ run[r].failedCount \in Nat
      /\ n \in Nat /\ n = run[r].i + 1 /\ Reached(run[r]) = n
  BY <1>0, <1>1 DEF Executions, Reached
<1> HIDE DEF n
<1>4. /\ row2 \in Rows /\ row2.failedCount = camp[c].failedCount
      /\ row2.sentCount = run[r].sentCount
      /\ row2.lastRunAt = camp[c].lastRunAt /\ row2.groupOnly = camp[c].groupOnly
      /\ row2.status = camp[c].status /\ row2.totalTarget = camp[c].totalTarget
  BY <1>1, <1>3 DEF Rows
<1>5. /\ x \in Executions /\ x.pc = "check" /\ x.c = run[r].c /\ x.lapsed = run[r].lapsed
      /\ x.i = n /\ x.sentCount = run[r].sentCount /\ x.failedCount = run[r].failedCount
  BY <1>1, <1>3 DEF Executions
<1> HIDE DEF x, row2
<1>6. camp'[c] = IF Mine(r) THEN row2 ELSE camp[c]
  BY <1>1, <1>2
<1>7. \A d \in Campaigns : d # c => camp'[d] = camp[d]
  BY <1>1, <1>2
<1>8. /\ camp'[c].lastRunAt = camp[c].lastRunAt /\ camp'[c].groupOnly = camp[c].groupOnly
      /\ camp'[c].status = camp[c].status /\ camp'[c].totalTarget = camp[c].totalTarget
      /\ ~Mine(r) => /\ camp'[c].sentCount = camp[c].sentCount
                     /\ camp'[c].failedCount = camp[c].failedCount
  BY <1>4, <1>6
<1>9. Reached(x) = n
  BY <1>5 DEF Reached
<1>10. Mine(r) /\ Exact(camp[c], run[r]) => Exact(camp'[c], x)
  <2>1. camp[c].sentCount \in Nat /\ camp[c].failedCount \in Nat
    BY <1>1 DEF Rows
  <2> QED
    BY <2>1, <1>0, <1>3, <1>4, <1>5, <1>6 DEF Exact
<1>11. Mine(r) =>
          /\ run[r].sentCount + run[r].failedCount <= Below(hist[c], Reached(run[r]))
               => x.sentCount + x.failedCount <= Below(hist'[c], Reached(x))
          /\ x.pc = "finish" => camp[c].totalTarget < x.i
  BY <1>0, <1>3, <1>5, <1>9
<1>12. Sender(run, c, r)
  BY <1>0 DEF Sender
<1>13. \A m \in Nat : Below(hist[c], m) <= Below(hist'[c], m)
  <2>1. ASSUME NEW m \in Nat PROVE Below(hist[c], m) \in Nat
    BY <1>1, BelowType
  <2> QED
    BY <1>0, <2>1
<1>14. /\ \A d \in Campaigns : d # c => camp'[d] = camp[d] /\ hist'[d] = hist[d]
       /\ Reached(run[r]) <= Reached(x) /\ x.c = c /\ hist'[c] = hist[c]
  BY <1>0, <1>3, <1>5, <1>7, <1>9
<1> QED
  BY <1>0, <1>1, <1>2, <1>5, <1>8, <1>10, <1>11, <1>12, <1>13, <1>14, LoopStep

\* PEER_FLOOD keeps the invariant: it stops a campaign that writes to members.
LEMMA PeerFloodStep ==
    ASSUME Typed, Typed', Existing, CampInv, NEW r \in Runs, PeerFlood(r)
    PROVE  Existing' /\ CampInv'
<1> DEFINE c == run[r].c
<1>1. /\ run[r].pc = "send" /\ run' = [run EXCEPT ![r] = Leaving(r)] /\ ~camp[c].groupOnly
      /\ queue' = queue /\ hist' = hist /\ lock' = lock
  BY DEF PeerFlood
<1>2. /\ c \in Campaigns /\ camp[c] \in Rows /\ hist[c] \in Cycles /\ camp[c].status # "NONE"
      /\ run \in Execs /\ run' \in Execs /\ camp \in [Campaigns -> Rows]
      /\ Good(camp[c], hist[c], run, c)
  BY <1>1, TypedParts DEF Typed, Execs, Existing, CampInv
<1>3. /\ camp'[c].status \in {camp[c].status, "PAUSED"} /\ camp'[c].groupOnly = camp[c].groupOnly
      /\ camp'[c].lastRunAt = camp[c].lastRunAt
      /\ \A d \in Campaigns : d # c => camp'[d] = camp[d]
  BY <1>2 DEF PeerFlood, Rows
<1>4. /\ Leaving(r) \in Executions /\ Leaving(r).pc = "release" /\ Leaving(r).c = c
      /\ Leaving(r).lapsed = run[r].lapsed
  BY <1>1, <1>2, LeavingType
<1> HIDE DEF c
<1>5. /\ run'[r].pc = "release" /\ run'[r].c = c /\ run'[r].lapsed = run[r].lapsed
      /\ \A s \in Runs : s # r =>
            /\ \A d \in Campaigns : Same(run, run', d, s)
            /\ run'[s].pc = run[s].pc /\ run'[s].c = run[s].c /\ run'[s].lapsed = run[s].lapsed
  <2>1. Became(r, Leaving(r))
    BY <1>1, <1>4, OthersRun
  <2> QED
    BY <1>4, <2>1 DEF Became
<1>6. Good(camp'[c], hist[c], run', c)
  <2>1. Marked(camp[c], hist[c], run', c)
    <3>1. \A s \in Runs : Same(run, run', c, s) \/ Gone(camp[c], run, run', c, s)
      BY <1>1, <1>2, <1>5 DEF Gone, Sender, Candidate
    <3>2. KeepsRow(camp[c], camp[c])
      BY DEF KeepsRow
    <3> QED
      BY <3>1, <3>2, <1>2, LeaveGood DEF Good
  <2>2. Marked(camp'[c], hist[c], run', c)
    BY <2>1, <1>2, <1>3 DEF Marked, Current
  <2> QED
    BY <2>2, <1>1, <1>3 DEF Good
<1>7. Others(r)
  BY <1>1, <1>3, <1>5 DEF Others, c
<1>8. camp'[c].status # "NONE"
  BY <1>2, <1>3
<1> QED
  BY <1>1, <1>5, <1>6, <1>7, <1>8, OwnStep DEF c

\* FLOOD_WAIT keeps the invariant.
LEMMA FloodWaitStep ==
    ASSUME Typed, Typed', Existing, CampInv, NEW r \in Runs, FloodWait(r)
    PROVE  Existing' /\ CampInv'
<1>1. /\ run[r].pc = "send" /\ hist' = hist /\ lock' = lock
      /\ \/ run' = [run EXCEPT ![r] = Leaving(r)]
         \/ run' = OldRuns(run[r].c, [run EXCEPT ![r] = Leaving(r)])
      /\ queue' = queue \/ addUserbotCampaignJob(run[r].c)
  BY DEF FloodWait
<1>2. /\ run[r].c \in Campaigns /\ camp[run[r].c] \in Rows /\ camp[run[r].c].status # "NONE"
      /\ camp \in [Campaigns -> Rows] /\ queue \subseteq Jobs
  BY <1>1, TypedParts DEF Existing
<1>3. /\ KeepsRow(camp[run[r].c], camp'[run[r].c]) /\ camp'[run[r].c].status # "NONE"
      /\ \A d \in Campaigns : d # run[r].c => camp'[d] = camp[d]
  BY <1>2 DEF FloodWait, KeepsRow, Rows
<1>4. \A j \in queue' : j.c = run[r].c \/ \E k \in queue : j.c = k.c
  BY <1>1, <1>2, AddJobType
<1> QED
  BY <1>1, <1>3, <1>4, LeaveStep

\* The end of the loop keeps the invariant: a campaign that recurs begins a new
\* cycle, another completes.
LEMMA FinishStep ==
    ASSUME Typed, Typed', Existing, CampInv, NEW r \in Runs, Finish(r)
    PROVE  Existing' /\ CampInv'
<1> DEFINE c == run[r].c
           again == [camp[c] EXCEPT !.sentCount = 0, !.failedCount = 0, !.nextRunAt = "future"]
           over == [camp[c] EXCEPT !.status = "COMPLETED", !.nextRunAt = "null"]
<1>1. run[r].pc = "finish" /\ lock' = lock
  BY DEF Finish
<1>2. /\ c \in Campaigns /\ camp[c] \in Rows /\ hist[c] \in Cycles /\ camp[c].status # "NONE"
      /\ run \in Execs /\ run' \in Execs /\ camp \in [Campaigns -> Rows]
      /\ hist \in [Campaigns -> Cycles] /\ queue \subseteq Jobs
      /\ Good(camp[c], hist[c], run, c)
  BY <1>1, TypedParts DEF Typed, Execs, Existing, CampInv
<1>3. \/ /\ ~Mine(r) /\ run' = [run EXCEPT ![r] = Leaving(r)]
         /\ camp' = camp /\ queue' = queue /\ hist' = hist
      \/ /\ Mine(r) /\ camp' = [camp EXCEPT ![c] = again]
         /\ run' = OldRuns(c, [run EXCEPT ![r] = Leaving(r)])
         /\ hist' = [hist EXCEPT ![c] = NewCycle(c)] /\ addUserbotCampaignJob(c)
      \/ /\ Mine(r) /\ camp' = [camp EXCEPT ![c] = over]
         /\ run' = OldRuns(c, [run EXCEPT ![r] = Leaving(r)])
         /\ hist' = hist /\ queue' = OldJobs(c)
  BY <1>1, <1>2 DEF Finish
<1>4. /\ Leaving(r) \in Executions /\ Leaving(r).pc = "release" /\ Leaving(r).c = c
      /\ Leaving(r).lapsed = run[r].lapsed
  BY <1>1, <1>2, LeavingType
<1>5. /\ run'[r].pc = "release" /\ run'[r].c = c /\ run'[r].lapsed = run[r].lapsed
      /\ \A s \in Runs : s # r =>
            /\ \A d \in Campaigns : Same(run, run', d, s)
            /\ run'[s].pc = run[s].pc /\ run'[s].c = run[s].c /\ run'[s].lapsed = run[s].lapsed
  <2>1. Became(r, Leaving(r))
    BY <1>2, <1>3, <1>4, OthersRun
  <2> QED
    BY <1>4, <2>1 DEF Became
<1>6. CASE /\ ~Mine(r) /\ run' = [run EXCEPT ![r] = Leaving(r)]
           /\ camp' = camp /\ queue' = queue /\ hist' = hist
  <2>1. KeepsRow(camp[c], camp[c])
    BY DEF KeepsRow
  <2> QED
    BY <1>1, <1>2, <1>6, <2>1, LeaveStep
<1>7. CASE /\ Mine(r) /\ camp' = [camp EXCEPT ![c] = again]
           /\ run' = OldRuns(c, [run EXCEPT ![r] = Leaving(r)])
           /\ hist' = [hist EXCEPT ![c] = NewCycle(c)] /\ addUserbotCampaignJob(c)
  <2>1. /\ again \in Rows /\ again.status = "RUNNING" /\ again.lastRunAt = r
        /\ again.sentCount = 0 /\ again.failedCount = 0
    BY <1>2, <1>7 DEF Rows, Mine
  <2> HIDE DEF again
  <2>2. /\ camp'[c] = again /\ hist'[c] = NewCycle(c)
        /\ \A d \in Campaigns : d # c => camp'[d] = camp[d] /\ hist'[d] = hist[d]
    BY <1>2, <1>7
  <2>3. ASSUME NEW s \in Runs PROVE ~Current(again, run', c, s) /\ ~Candidate(run', c, s)
    <3>1. [run EXCEPT ![r] = Leaving(r)] \in Execs
      BY <1>2, <1>4, OneRun
    <3> QED
      BY <3>1, <1>5, <1>7, <2>1, OldFacts DEF Current, Sender
  <2>4. ASSUME NEW t \in 1 .. MaxTargets
        PROVE  Astray(again, run', c, t) \subseteq {s \in Sending(c) : run[s].pc = "send"}
    <3>1. ASSUME NEW s \in Astray(again, run', c, t)
          PROVE  s \in Sending(c) /\ run[s].pc = "send"
      <4>1. s \in Runs /\ s # r /\ run'[s].pc = "send" /\ run'[s].c = c
        BY <3>1, <1>5 DEF Astray
      <4>2. run[s].pc = "send" /\ run[s].c = c
        BY <4>1, <1>5
      <4> QED
        BY <4>1, <4>2 DEF Sending, Busy
    <3> QED
      BY <3>1
  <2>5. {s \in Sending(c) : run[s].pc = "send"} \subseteq Runs
    BY DEF Sending, Busy
  <2>6. Good(again, NewCycle(c), run', c)
    <3> DEFINE S == {s \in Sending(c) : run[s].pc = "send"}
               h == NewCycle(c)
    <3>1. /\ h \in Cycles /\ h.lapses = 0 /\ h.strays = Cardinality(S)
          /\ \A t \in 1 .. MaxTargets : h.got[t] = 0
      BY NewCycleType
    <3>2. S \in SUBSET Runs /\ \A t \in 1 .. MaxTargets : Astray(again, run', c, t) \subseteq S
      BY <2>4, <2>5
    <3> HIDE DEF S, h
    <3>3. Good(again, h, run', c)
      BY ONLY <2>1, <2>3, <3>1, <3>2, CycleGood
    <3> QED
      BY <3>3 DEF h
  <2>7. Others(r)
    BY <2>2, <1>5 DEF Others
  <2>8. \A j \in queue' : j.c = c \/ \E k \in queue : j.c = k.c
    BY <1>2, <1>7, AddJobType
  <2> QED
    BY <1>1, <1>5, <2>1, <2>2, <2>6, <2>7, <2>8, OwnStep
<1>8. CASE /\ Mine(r) /\ camp' = [camp EXCEPT ![c] = over]
           /\ run' = OldRuns(c, [run EXCEPT ![r] = Leaving(r)])
           /\ hist' = hist /\ queue' = OldJobs(c)
  <2>1. /\ over \in Rows /\ over.status = "COMPLETED" /\ over.lastRunAt = camp[c].lastRunAt
        /\ over.groupOnly = camp[c].groupOnly /\ over.totalTarget = camp[c].totalTarget
        /\ over.sentCount = camp[c].sentCount /\ over.failedCount = camp[c].failedCount
    BY <1>2 DEF Rows, Statuses
  <2> HIDE DEF over
  <2>2. /\ camp'[c] = over /\ \A d \in Campaigns : d # c => camp'[d] = camp[d]
    BY <1>2, <1>8
  <2>3. Good(over, hist[c], run, c)
    <3>1. Current(camp[c], run, c, r) /\ camp[c].status = "RUNNING"
      BY <1>1, <1>8 DEF Current, Sender, Mine
    <3> QED
      BY <3>1, <1>1, <1>2, <2>1, FinishGood
  <2>4. Good(over, hist[c], run', c)
    <3>1. \A s \in Runs : Same(run, run', c, s) \/ Gone(over, run, run', c, s)
      BY <1>2, <1>5, <2>1 DEF Gone, Sender, Candidate
    <3>2. KeepsRow(over, over)
      BY DEF KeepsRow
    <3> QED
      BY <3>1, <3>2, <2>1, <2>3, <1>2, LeaveGood
  <2>5. Others(r)
    BY <2>2, <1>5, <1>8 DEF Others
  <2>6. \A j \in queue' : j.c = c \/ \E k \in queue : j.c = k.c
    BY <1>2, <1>8, OldJobsType
  <2> QED
    BY <1>1, <1>5, <1>8, <2>1, <2>2, <2>4, <2>5, <2>6, OwnStep
<1> QED
  BY <1>3, <1>6, <1>7, <1>8

\* A throw keeps the invariant.
LEMMA ThrowStep ==
    ASSUME Typed, Typed', Existing, CampInv, NEW r \in Runs, Throw(r)
    PROVE  Existing' /\ CampInv'
  BY AbortStep DEF Throw

\* Giving back the lock keeps the invariant.
LEMMA ReleaseStep ==
    ASSUME Typed, Typed', Existing, CampInv, NEW r \in Runs, Release(r)
    PROVE  Existing' /\ CampInv'
<1> DEFINE c == run[r].c
<1>1. /\ run[r].pc = "release" /\ run' = [run EXCEPT ![r] = Idle]
      /\ lock' = IF lock = r THEN "free" ELSE lock
      /\ camp' = camp /\ queue' = queue /\ hist' = hist
  BY DEF Release
<1>2. /\ c \in Campaigns /\ camp[c] \in Rows /\ hist[c] \in Cycles /\ camp[c].status # "NONE"
      /\ run \in Execs /\ run' \in Execs /\ Good(camp[c], hist[c], run, c)
  BY <1>1, TypedParts DEF Typed, Execs, Existing, CampInv
<1> HIDE DEF c
<1>3. /\ run'[r].pc = "idle"
      /\ \A s \in Runs : s # r =>
            /\ \A d \in Campaigns : Same(run, run', d, s)
            /\ run'[s].pc = run[s].pc /\ run'[s].c = run[s].c /\ run'[s].lapsed = run[s].lapsed
  <2>1. Idle \in Executions \cup {Idle} /\ Idle.pc = "idle"
    BY DEF Idle
  <2> QED
    <3>1. Became(r, Idle)
      BY <1>1, <2>1, OthersRun
    <3> QED
      BY <2>1, <3>1 DEF Became
<1>4. Good(camp[c], hist[c], run', c)
  <2>1. Gone(camp[c], run, run', c, r)
    BY <1>1, <1>3 DEF Gone, Sender, Candidate, Current
  <2>2. \A s \in Runs : Same(run, run', c, s) \/ Gone(camp[c], run, run', c, s)
    BY <1>2, <1>3, <2>1
  <2>3. KeepsRow(camp[c], camp[c])
    BY DEF KeepsRow
  <2> QED
    BY <2>2, <2>3, <1>2, LeaveGood
<1>5. Others(r)
  BY <1>1, <1>3 DEF Others
<1>6. lock' # r /\ \A s \in Runs : s # r => (lock' = s <=> lock = s)
  BY <1>1, CampaignAssumption
<1> QED
  BY <1>1, <1>2, <1>3, <1>4, <1>5, <1>6, OwnCampaign DEF c

\* A crash keeps the invariant.
LEMMA CrashStep ==
    ASSUME Typed, Typed', Existing, CampInv, NEW r \in Runs, Crash(r)
    PROVE  Existing' /\ CampInv'
<1> DEFINE c == run[r].c
           h == [hist[c] EXCEPT !.strays = hist[c].strays + 1]
<1>1. /\ run[r].pc # "idle" /\ run' = [run EXCEPT ![r] = Idle]
      /\ lock' = IF lock = r THEN "dead" ELSE lock
      /\ camp' = camp
  BY DEF Crash, Busy
<1>2. /\ c \in Campaigns /\ camp[c] \in Rows /\ hist[c] \in Cycles /\ camp[c].status # "NONE"
      /\ run \in Execs /\ run' \in Execs /\ Good(camp[c], hist[c], run, c)
      /\ hist \in [Campaigns -> Cycles] /\ run[r] \in Executions
  BY <1>1, TypedParts DEF Typed, Execs, Existing, CampInv
<1>3. IF Sender(run, c, r) THEN hist' = [hist EXCEPT ![c] = h] ELSE hist' = hist
  <2>1. r \in Sending(c) <=> Sender(run, c, r)
    BY <1>1, <1>2 DEF Sending, Busy, Sender, Executions
  <2> QED
    BY <2>1, <1>2 DEF Crash
<1>4. \A j \in queue' : j.c = c \/ \E k \in queue : j.c = k.c
  BY DEF Crash
<1>5. /\ run'[r].pc = "idle"
      /\ \A s \in Runs : s # r =>
            /\ \A d \in Campaigns : Same(run, run', d, s)
            /\ run'[s].pc = run[s].pc /\ run'[s].c = run[s].c /\ run'[s].lapsed = run[s].lapsed
  <2>1. Idle \in Executions \cup {Idle} /\ Idle.pc = "idle"
    BY DEF Idle
  <2> QED
    <3>1. Became(r, Idle)
      BY <1>1, <2>1, OthersRun
    <3> QED
      BY <2>1, <3>1 DEF Became
<1>6. \A d \in Campaigns : d # c => hist'[d] = hist[d]
  BY <1>2, <1>3
<1>7. Good(camp[c], hist'[c], run', c)
  <2>1. CASE Sender(run, c, r)
    <3>1. hist'[c] = h
      BY <1>2, <1>3, <2>1
    <3>2. /\ h \in Cycles /\ h.got = hist[c].got /\ h.tried = hist[c].tried
          /\ h.slips = hist[c].slips /\ h.lapses = hist[c].lapses
          /\ h.strays = hist[c].strays + 1
      <4>1. h \in Cycles
        <5>1. hist[c] \in Cycles
          BY <1>2
        <5> QED
          BY ONLY <5>1 DEF h, Cycles
      <4> QED
        BY <4>1, <1>2 DEF Cycles
    <3> HIDE DEF h
    <3>3. ~Sender(run', c, r) /\ ~Candidate(run', c, r)
      BY <1>5 DEF Sender, Candidate
    <3>4. \A s \in Runs : s # r => Same(run, run', c, s)
      BY <1>2, <1>5
    <3> HIDE DEF c
    <3>5. Good(camp[c], h, run', c)
      BY ONLY r \in Runs, <1>2, <2>1, <3>2, <3>3, <3>4, CrashGood
    <3> QED
      BY <3>1, <3>5
  <2>2. CASE ~Sender(run, c, r)
    <3>1. hist'[c] = hist[c]
      BY <1>3, <2>2
    <3>2. Gone(camp[c], run, run', c, r)
      BY <1>5, <2>2 DEF Gone, Sender, Candidate, Current
    <3>3. \A s \in Runs : Same(run, run', c, s) \/ Gone(camp[c], run, run', c, s)
      BY <1>2, <1>5, <3>2
    <3>4. KeepsRow(camp[c], camp[c])
      BY DEF KeepsRow
    <3> QED
      BY <3>1, <3>3, <3>4, <1>2, LeaveGood
  <2> QED
    BY <2>1, <2>2
<1> HIDE DEF c
<1>8. Others(r)
  BY <1>1, <1>5, <1>6 DEF Others, c
<1>9. lock' # r /\ \A s \in Runs : s # r => (lock' = s <=> lock = s)
  BY <1>1, CampaignAssumption
<1> QED
  BY <1>1, <1>2, <1>4, <1>5, <1>7, <1>8, <1>9, OwnCampaign DEF c

\* A lock that expires under a worker keeps the invariant.
LEMMA LapseStep ==
    ASSUME Typed, Typed', Existing, CampInv, NEW r \in Runs, LockLapses(r)
    PROVE  Existing' /\ CampInv'
<1> DEFINE c == run[r].c
           h == [hist[c] EXCEPT !.lapses = hist[c].lapses + 1]
           x == [run[r] EXCEPT !.lapsed = TRUE]
<1>1. /\ lock = r /\ lock' = "free" /\ run[r].pc # "idle" /\ camp' = camp /\ queue' = queue
  BY DEF LockLapses, Existing
<1>2. /\ c \in Campaigns /\ camp[c] \in Rows /\ hist[c] \in Cycles /\ camp[c].status # "NONE"
      /\ run \in Execs /\ run' \in Execs /\ Good(camp[c], hist[c], run, c)
      /\ hist \in [Campaigns -> Cycles] /\ run[r] \in Executions
  BY <1>1, TypedParts DEF Typed, Execs, Existing, CampInv
<1>3. /\ run' = [run EXCEPT ![r] = x] /\ hist' = [hist EXCEPT ![c] = h]
  BY <1>2 DEF LockLapses, Execs
<1>4. /\ h \in Cycles /\ h.got = hist[c].got /\ h.lapses = hist[c].lapses + 1
      /\ h.strays = hist[c].strays
  <2>1. h \in Cycles
    <3>1. hist[c] \in Cycles
      BY <1>2
    <3> QED
      BY ONLY <3>1 DEF h, Cycles
  <2> QED
    BY <2>1, <1>2 DEF Cycles
<1>5. /\ x \in Executions /\ x.pc = run[r].pc /\ x.c = c /\ x.lapsed /\ x.i = run[r].i
      /\ x.runAt = run[r].runAt
      /\ x.sentCount = run[r].sentCount /\ x.failedCount = run[r].failedCount
  BY <1>2 DEF Executions
<1> HIDE DEF h, x
<1>6. hist'[c] = h /\ \A d \in Campaigns : d # c => hist'[d] = hist[d]
  BY <1>2, <1>3
<1>7. run'[r] = x /\ \A s \in Runs : s # r => run'[s] = run[s]
  BY <1>2, <1>3 DEF Execs
<1>8. Good(camp[c], h, run', c)
  <2>1. /\ run'[r].lapsed /\ \A s \in Runs : s # r => run'[s].lapsed = run[s].lapsed
    BY <1>5, <1>7
  <2>2. \A s \in Runs :
           /\ run'[s].pc = run[s].pc /\ run'[s].c = run[s].c /\ run'[s].i = run[s].i
           /\ run'[s].runAt = run[s].runAt
           /\ run'[s].sentCount = run[s].sentCount /\ run'[s].failedCount = run[s].failedCount
    BY <1>5, <1>7
  <2>3. \A s \in Runs :
           /\ Sender(run', c, s) <=> Sender(run, c, s)
           /\ Candidate(run', c, s) <=> Candidate(run, c, s)
           /\ run'[s].pc = run[s].pc /\ run'[s].i = run[s].i
           /\ run'[s].sentCount = run[s].sentCount /\ run'[s].failedCount = run[s].failedCount
    BY <2>2 DEF Sender, Candidate
  <2>4. run[r].c = c
    OBVIOUS
  <2> HIDE DEF c
  <2> QED
    BY ONLY r \in Runs, <1>1, <1>2, <1>4, <2>1, <2>3, <2>4, LapseGood
<1>9. Others(r)
  BY <1>1, <1>6, <1>7 DEF Others, Same, Sender, Candidate
<1>10. lock' # r /\ \A s \in Runs : s # r => (lock' = s <=> lock = s)
  BY <1>1, CampaignAssumption
<1>11. run'[r].c = c /\ run'[r].lapsed /\ hist'[c] = h /\ camp'[c] = camp[c]
  BY <1>1, <1>5, <1>6, <1>7
<1> QED
  BY <1>1, <1>2, <1>8, <1>9, <1>10, <1>11, OwnCampaign

\* Finding the lock lost keeps the invariant.
LEMMA HeartbeatStep ==
    ASSUME Typed, Typed', Existing, CampInv, NEW r \in Runs, Heartbeat(r)
    PROVE  Existing' /\ CampInv'
<1> DEFINE c == run[r].c
           x == [run[r] EXCEPT !.lockLost = TRUE]
<1>1. /\ run[r].pc # "idle" /\ camp' = camp /\ queue' = queue /\ lock' = lock /\ hist' = hist
  BY DEF Heartbeat, Busy
<1>2. /\ c \in Campaigns /\ camp[c] \in Rows /\ hist[c] \in Cycles /\ camp[c].status # "NONE"
      /\ run \in Execs /\ run' \in Execs /\ Good(camp[c], hist[c], run, c)
      /\ run[r] \in Executions
  BY <1>1, TypedParts DEF Typed, Execs, Existing, CampInv
<1>3. run' = [run EXCEPT ![r] = x]
  BY <1>2 DEF Heartbeat, Execs
<1>4. /\ x.pc = run[r].pc /\ x.c = c /\ x.lapsed = run[r].lapsed /\ x.i = run[r].i
      /\ x.runAt = run[r].runAt
      /\ x.sentCount = run[r].sentCount /\ x.failedCount = run[r].failedCount
  BY <1>2 DEF Executions
<1> HIDE DEF x
<1>5. run'[r] = x /\ \A s \in Runs : s # r => run'[s] = run[s]
  BY <1>2, <1>3 DEF Execs
<1>6. \A d \in Campaigns, s \in Runs : Same(run, run', d, s)
  BY <1>4, <1>5 DEF Same, Sender, Candidate
<1>7. Good(camp[c], hist[c], run', c)
  <2>1. KeepsRow(camp[c], camp[c])
    BY DEF KeepsRow
  <2>2. \A s \in Runs : Same(run, run', c, s) \/ Gone(camp[c], run, run', c, s)
    BY <1>2, <1>6
  <2> QED
    BY <2>1, <2>2, <1>2, LeaveGood
<1>8. Others(r)
  BY <1>1, <1>5, <1>6 DEF Others
<1> QED
  BY <1>1, <1>2, <1>4, <1>5, <1>7, <1>8, OwnStep

\* Taking a job keeps the invariant: the lock was free, so every execution
\* under way has lost its own.
LEMMA PickUpStep ==
    ASSUME Typed, Typed', Existing, CampInv, NEW r \in Runs, NEW j \in queue, PickUp(r, j)
    PROVE  Existing' /\ CampInv'
<1>1. /\ run[r] = Idle /\ run[r].pc = "idle" /\ queue' \subseteq queue /\ camp' = camp /\ hist' = hist
  BY DEF PickUp, Idle
<1>2. /\ camp \in [Campaigns -> Rows] /\ hist \in [Campaigns -> Cycles] /\ run \in Execs
      /\ run' \in Execs /\ j.c \in Campaigns /\ camp[j.c].status # "NONE"
  BY TypedParts DEF Typed, Execs, Jobs, Existing
<1>3. CASE camp[j.c].status # "RUNNING"
  <2>1. lock' = lock /\ run' = run
    BY <1>3 DEF PickUp
  <2>2. Existing'
    BY <1>1, <2>1 DEF Existing
  <2>3. SessionExclusive'
    BY <2>1 DEF SessionExclusive, Busy, CampInv
  <2> QED
    BY <1>1, <2>1, <2>2, <2>3 DEF CampInv
<1>4. CASE camp[j.c].status = "RUNNING"
  <2> DEFINE x == [pc |-> "read", c |-> j.c, runAt |-> j.runAt, freshLast |-> "null", i |-> 0,
                   sentCount |-> 0, failedCount |-> 0, lockLost |-> FALSE, lapsed |-> FALSE]
  <2>1. lock = "free" /\ lock' = r /\ run' = [run EXCEPT ![r] = x]
    BY <1>4 DEF PickUp
  <2>2. x.pc = "read" /\ x.c = j.c /\ ~x.lapsed
    OBVIOUS
  <2> HIDE DEF x
  <2>3. run'[r] = x /\ \A s \in Runs : s # r => run'[s] = run[s]
    BY <1>2, <2>1 DEF Execs
  <2>4. \A s \in Runs : run[s].pc # "idle" => run[s].lapsed
    BY <2>1, CampaignAssumption DEF CampInv, SessionExclusive, Busy
  <2>5. \A s \in Runs : s # r => \A d \in Campaigns : Same(run, run', d, s)
    BY <2>3 DEF Same, Sender, Candidate
  <2>6. Existing'
    BY <1>1, <1>2, <2>1, <2>2, <2>3 DEF Existing
  <2>7. SessionExclusive'
    BY <2>1, <2>3, <2>4 DEF SessionExclusive, Busy
  <2>8. ASSUME NEW d \in Campaigns PROVE Good(camp'[d], hist'[d], run', d)
    <3>1. /\ Good(camp[d], hist[d], run, d) /\ camp[d] \in Rows /\ hist[d] \in Cycles
          /\ camp'[d] = camp[d] /\ hist'[d] = hist[d]
      BY <1>1, <1>2 DEF CampInv
    <3>2. ~Sender(run, d, r) /\ ~Candidate(run, d, r) /\ ~Sender(run', d, r)
      BY <1>1, <2>2, <2>3 DEF Sender, Candidate
    <3>3. CASE d = j.c
      <4>1. /\ run'[r].pc = "read" /\ ~run'[r].lapsed /\ camp[d].status = "RUNNING"
            /\ \A s \in Runs : Sender(run, d, s) => run[s].lapsed
            /\ \A s \in Runs : s # r => Same(run, run', d, s)
        BY <1>4, <2>2, <2>3, <2>4, <2>5, <3>3 DEF Sender
      <4>2. Good(camp[d], hist[d], run', d)
        BY ONLY r \in Runs, <1>2, <3>1, <3>2, <4>1, PickUpGood
      <4> QED
        BY <3>1, <4>2
    <3>4. CASE d # j.c
      <4>1. Same(run, run', d, r)
        BY <3>2, <3>4, <2>2, <2>3 DEF Same, Candidate
      <4>2. \A s \in Runs : Same(run, run', d, s)
        BY <2>5, <4>1
      <4>3. KeepsRow(camp[d], camp[d])
        BY DEF KeepsRow
      <4> QED
        BY <3>1, <4>2, <4>3, <1>2, LeaveGood
    <3> QED
      BY <3>3, <3>4
  <2> QED
    BY <2>6, <2>7, <2>8 DEF CampInv
<1> QED
  BY <1>3, <1>4

\* What the seller or the scheduler does to one campaign is what it does to the
\* invariant.
LEMMA CampaignStep ==
    ASSUME Typed, Typed', Existing, CampInv, NEW c \in Campaigns,
           run' = run \/ run' = OldRuns(c, run), lock' = lock,
           \A d \in Campaigns : d # c => camp'[d] = camp[d] /\ hist'[d] = hist[d],
           camp[c].status # "NONE" => camp'[c].status # "NONE",
           \A j \in queue' : \/ \E k \in queue : j.c = k.c
                             \/ j.c = c /\ camp'[c].status # "NONE",
           Good(camp'[c], hist'[c], run', c)
    PROVE  Existing' /\ CampInv'
<1>1. /\ camp \in [Campaigns -> Rows] /\ hist \in [Campaigns -> Cycles] /\ run \in Execs
      /\ run' \in Execs /\ queue \subseteq Jobs
  BY TypedParts DEF Typed, Execs
<1>2. \A s \in Runs : /\ run'[s].pc = run[s].pc /\ run'[s].c = run[s].c
                      /\ run'[s].lapsed = run[s].lapsed
                      /\ \A d \in Campaigns : Same(run, run', d, s)
  <2>1. CASE run' = run
    BY <2>1 DEF Same
  <2>2. CASE run' = OldRuns(c, run)
    BY <2>2, <1>1, OldFacts, OldSame
  <2> QED
    BY <2>1, <2>2
<1>3. \A d \in Campaigns : camp[d].status # "NONE" => camp'[d].status # "NONE"
  OBVIOUS
<1>4. ASSUME NEW j \in queue' PROVE camp'[j.c].status # "NONE"
  <2>1. ASSUME NEW k \in queue, j.c = k.c PROVE camp'[j.c].status # "NONE"
    BY <2>1, <1>1, <1>3 DEF Existing, Jobs
  <2> QED
    BY <2>1
<1>5. ASSUME NEW s \in Runs, run'[s].pc # "idle" PROVE camp'[run'[s].c].status # "NONE"
  <2>1. run[s].pc # "idle" /\ run'[s].c = run[s].c
    BY <1>2, <1>5
  <2>2. run[s].c \in Campaigns
    BY <2>1, TypedParts
  <2> QED
    BY <2>1, <2>2, <1>3 DEF Existing
<1>6. Existing'
  <2>1. \A s \in Runs : lock' = s => run'[s].pc # "idle"
    BY <1>2 DEF Existing
  <2> QED
    BY <1>4, <1>5, <2>1 DEF Existing
<1>7. SessionExclusive'
  BY <1>2 DEF SessionExclusive, Busy, CampInv
<1>8. ASSUME NEW d \in Campaigns PROVE Good(camp'[d], hist'[d], run', d)
  <2>1. CASE d = c
    BY <2>1
  <2>2. CASE d # c
    <3>1. /\ Good(camp[d], hist[d], run, d) /\ camp[d] \in Rows /\ hist[d] \in Cycles
          /\ camp'[d] = camp[d] /\ hist'[d] = hist[d]
      BY <2>2, <1>1 DEF CampInv
    <3>2. KeepsRow(camp[d], camp[d])
      BY DEF KeepsRow
    <3> QED
      BY <3>1, <3>2, <1>1, <1>2, LeaveGood
  <2> QED
    BY <2>1, <2>2
<1> QED
  BY <1>6, <1>7, <1>8 DEF CampInv

\* Creating a campaign keeps the invariant.
LEMMA CreateStep ==
    ASSUME Typed, Typed', Existing, CampInv, NEW c \in Campaigns, createCampaign(c)
    PROVE  Existing' /\ CampInv'
<1>1. /\ camp[c].status = "NONE" /\ lock' = lock /\ run' = run /\ hist' = hist
  BY DEF createCampaign
<1>2. /\ camp \in [Campaigns -> Rows] /\ camp' \in [Campaigns -> Rows]
      /\ hist \in [Campaigns -> Cycles] /\ run \in Execs /\ queue \subseteq Jobs
      /\ Good(camp[c], hist[c], run, c)
  BY TypedParts DEF Typed, Rows, CampInv
<1>3. /\ camp'[c].status \in {"DRAFT", "RUNNING"}
      /\ camp'[c].sentCount = camp[c].sentCount /\ camp'[c].failedCount = camp[c].failedCount
      /\ \A d \in Campaigns : d # c => camp'[d] = camp[d]
      /\ queue' = queue \/ addUserbotCampaignJob(c)
  <2> DEFINE draft(k) == [camp[c] EXCEPT !.status = "DRAFT", !.groupOnly = k.groupOnly,
                                         !.recurs = k.recurs, !.totalTarget = k.totalTarget]
             armed(k) == [camp[c] EXCEPT !.status = "RUNNING", !.groupOnly = k.groupOnly,
                                         !.recurs = k.recurs, !.totalTarget = k.totalTarget,
                                         !.nextRunAt = "future"]
  <2>1. \A k : /\ draft(k).status = "DRAFT" /\ armed(k).status = "RUNNING"
              /\ draft(k).sentCount = camp[c].sentCount /\ armed(k).sentCount = camp[c].sentCount
              /\ draft(k).failedCount = camp[c].failedCount
              /\ armed(k).failedCount = camp[c].failedCount
    BY <1>2 DEF Rows
  <2>2. \E k \in Kinds : \/ camp' = [camp EXCEPT ![c] = draft(k)]
                         \/ camp' = [camp EXCEPT ![c] = armed(k)]
    BY <1>2 DEF createCampaign
  <2>3. queue' = queue \/ addUserbotCampaignJob(c)
    BY DEF createCampaign
  <2> HIDE DEF draft, armed
  <2> QED
    BY <1>2, <2>1, <2>2, <2>3
<1>4. Good(camp'[c], hist[c], run, c)
  BY <1>1, <1>2, <1>3, CreateGood
<1>5. \A j \in queue' : j.c = c \/ \E k \in queue : j.c = k.c
  BY <1>2, <1>3, AddJobType
<1> QED
  BY <1>1, <1>3, <1>4, <1>5, CampaignStep

\* Starting a campaign begins a cycle, and keeps the invariant.
LEMMA StartStep ==
    ASSUME Typed, Typed', Existing, CampInv, NEW c \in Campaigns, startCampaign(c)
    PROVE  Existing' /\ CampInv'
<1>1. /\ lock' = lock /\ run' = OldRuns(c, run) /\ hist' = [hist EXCEPT ![c] = NewCycle(c)]
      /\ addUserbotCampaignJob(c)
  BY DEF startCampaign
<1>2. /\ camp \in [Campaigns -> Rows] /\ camp' \in [Campaigns -> Rows]
      /\ hist \in [Campaigns -> Cycles] /\ run \in Execs /\ queue \subseteq Jobs
      /\ run' \in Execs
  BY TypedParts DEF Typed, Rows, Execs
<1>3. /\ camp'[c].status = "RUNNING" /\ camp'[c].lastRunAt = "null"
      /\ camp'[c].sentCount = 0 /\ camp'[c].failedCount = 0
      /\ \A d \in Campaigns : d # c => camp'[d] = camp[d]
  BY <1>2 DEF startCampaign, Rows
<1> DEFINE S == {s \in Sending(c) : run[s].pc = "send"}
           h == NewCycle(c)
<1>4. /\ h \in Cycles /\ h.lapses = 0 /\ h.strays = Cardinality(S)
      /\ \A t \in 1 .. MaxTargets : h.got[t] = 0
  BY NewCycleType
<1>5. \A s \in Runs : /\ run'[s].pc = run[s].pc /\ run'[s].c = run[s].c
                      /\ ~Candidate(run', c, s)
  BY <1>1, <1>2, OldFacts
<1>6. \A s \in Runs : ~Current(camp'[c], run', c, s)
  BY <1>3, CampaignAssumption DEF Current
<1>7. S \in SUBSET Runs /\ \A t \in 1 .. MaxTargets : Astray(camp'[c], run', c, t) \subseteq S
  <2>1. ASSUME NEW t \in 1 .. MaxTargets, NEW s \in Astray(camp'[c], run', c, t) PROVE s \in S
    <3>1. s \in Runs /\ run[s].pc = "send" /\ run[s].c = c
      BY <2>1, <1>5 DEF Astray
    <3> QED
      BY <3>1 DEF Sending, Busy
  <2>2. S \subseteq Runs
    BY DEF Sending, Busy
  <2> QED
    BY <2>1, <2>2
<1>8. hist'[c] = h /\ \A d \in Campaigns : d # c => hist'[d] = hist[d]
  BY <1>1, <1>2
<1>9. camp'[c] \in Rows
  BY <1>2
<1> HIDE DEF S, h
<1>10. Good(camp'[c], h, run', c)
  BY ONLY <1>3, <1>4, <1>5, <1>6, <1>7, <1>9, CycleGood
<1>11. \A j \in queue' : j.c = c \/ \E k \in queue : j.c = k.c
  BY <1>1, <1>2, AddJobType
<1> QED
  BY <1>1, <1>3, <1>8, <1>10, <1>11, CampaignStep

\* Pausing, the coming of its time, and the scheduler's search and second
\* arming keep the invariant.
LEMMA SweepStep ==
    ASSUME Typed, Typed', Existing, CampInv, NEW c \in Campaigns,
           \/ pauseCampaign(c) \/ TimeComes(c) \/ FindStuck(c) \/ RearmStuck(c) \/ EnqueueDue(c)
    PROVE  Existing' /\ CampInv'
<1>1. /\ camp \in [Campaigns -> Rows] /\ camp' \in [Campaigns -> Rows]
      /\ hist \in [Campaigns -> Cycles] /\ run \in Execs /\ run' \in Execs
      /\ queue \subseteq Jobs /\ Good(camp[c], hist[c], run, c)
  BY TypedParts DEF Typed, Rows, Execs, CampInv
<1>2. /\ lock' = lock /\ hist' = hist /\ (run' = run \/ run' = OldRuns(c, run))
      /\ \/ queue' = queue \/ queue' = OldJobs(c)
         \/ queue' = queue \cup {[c |-> c, runAt |-> "armed"]} /\ camp[c].status = "RUNNING"
  BY DEF pauseCampaign, TimeComes, FindStuck, RearmStuck, EnqueueDue
<1>3. /\ KeepsRow(camp[c], camp'[c])
      /\ camp[c].status # "NONE" => camp'[c].status # "NONE"
      /\ camp[c].status = "RUNNING" => camp'[c].status # "NONE"
      /\ \A d \in Campaigns : d # c => camp'[d] = camp[d]
  <2>1. CASE pauseCampaign(c)
    BY <1>1, <2>1 DEF pauseCampaign, KeepsRow, Rows
  <2>2. CASE TimeComes(c)
    BY <1>1, <2>2 DEF TimeComes, KeepsRow, Rows
  <2>3. CASE FindStuck(c)
    BY <2>3 DEF FindStuck, KeepsRow
  <2>4. CASE RearmStuck(c)
    BY <1>1, <2>4 DEF RearmStuck, KeepsRow, Rows
  <2>5. CASE EnqueueDue(c)
    BY <2>5 DEF EnqueueDue, KeepsRow
  <2> QED
    BY <2>1, <2>2, <2>3, <2>4, <2>5
<1>4. Good(camp'[c], hist[c], run', c)
  <2>1. \A s \in Runs : Same(run, run', c, s)
    <3>1. CASE run' = run
      BY <3>1 DEF Same
    <3>2. CASE run' = OldRuns(c, run)
      BY <3>2, <1>1, OldSame
    <3> QED
      BY <1>2, <3>1, <3>2
  <2>2. camp[c] \in Rows /\ camp'[c] \in Rows /\ hist[c] \in Cycles
    BY <1>1
  <2>3. \A s \in Runs : Same(run, run', c, s) \/ Gone(camp'[c], run, run', c, s)
    BY <2>1
  <2> QED
    BY <1>1, <1>3, <2>2, <2>3, LeaveGood
<1>5. \A j \in queue' : \/ \E k \in queue : j.c = k.c
                        \/ j.c = c /\ camp'[c].status # "NONE"
  <2>1. CASE queue' = queue \/ queue' = OldJobs(c)
    BY <1>1, <2>1, OldJobsType
  <2>2. CASE queue' = queue \cup {[c |-> c, runAt |-> "armed"]} /\ camp[c].status = "RUNNING"
    BY <1>3, <2>2
  <2> QED
    BY <1>2, <2>1, <2>2
<1> QED
  BY <1>2, <1>3, <1>4, <1>5, CampaignStep

-----------------------------------------------------------------------------
\* What every reachable state satisfies.
IndInv == Typed /\ Existing /\ CampInv

\* No campaign exists and no execution is under way at the beginning.
LEMMA InitInv == Init => IndInv
<1> SUFFICES ASSUME Init PROVE IndInv
  OBVIOUS
<1> USE CampaignAssumption
<1>0. Idle.pc = "idle"
  BY DEF Idle
<1>1. /\ \A r \in Runs : run[r] = Idle /\ run[r].pc = "idle"
      /\ \A c \in Campaigns : /\ camp[c].status = "NONE"
                              /\ camp[c].sentCount = 0 /\ camp[c].failedCount = 0
                              /\ \A t \in 1 .. MaxTargets : hist[c].got[t] = 0
  BY <1>0 DEF Init
<1>2. camp \in [Campaigns -> Rows] /\ hist \in [Campaigns -> Cycles]
  <2>1. 1 \in 1 .. MaxTargets
    OBVIOUS
  <2>2. [status |-> "NONE", groupOnly |-> TRUE, recurs |-> FALSE, totalTarget |-> 1,
         nextRunAt |-> "null", lastRunAt |-> "null", sentCount |-> 0, failedCount |-> 0] \in Rows
    BY <2>1 DEF Rows, Statuses
  <2>3. [got |-> [t \in 1 .. MaxTargets |-> 0], tried |-> {},
         slips |-> 0, lapses |-> 0, strays |-> 0] \in Cycles
    BY DEF Cycles
  <2> QED
    BY <2>2, <2>3 DEF Init
<1>3. Typed
  <2>1. run \in [Runs -> Executions \cup {Idle}]
    BY DEF Init
  <2>2. \A r \in Runs : Placed(run[r])
    BY <1>1 DEF Placed
  <2>3. /\ queue = {} /\ lock = "free" /\ seen = {} /\ events = 0
    BY DEF Init
  <2> QED
    BY <1>2, <2>1, <2>2, <2>3 DEF Typed
<1>4. Existing
  BY <1>1 DEF Existing, Init
<1>5. SessionExclusive
  BY <1>1 DEF SessionExclusive, Busy
<1>6. ASSUME NEW c \in Campaigns PROVE Good(camp[c], hist[c], run, c)
  <2>1. \A r \in Runs : ~Sender(run, c, r) /\ ~Candidate(run, c, r) /\ ~Current(camp[c], run, c, r)
    BY <1>1 DEF Sender, Candidate, Current
  <2>2. Marked(camp[c], hist[c], run, c)
    BY <1>1, <2>1 DEF Marked
  <2>3. Bounded(camp[c], hist[c], run, c)
    <3>1. hist[c] \in Cycles
      BY <1>2
    <3>2. \A t \in 1 .. MaxTargets : Astray(camp[c], run, c, t) = {}
      BY <1>1 DEF Astray
    <3>3. \A t \in 1 .. MaxTargets : Load(camp[c], hist[c], run, c, t) = 0
      BY <1>1, <3>2, FS_EmptySet DEF Load
    <3>4. Faults(hist[c]) \in Nat
      <4>1. hist[c].lapses \in Nat /\ hist[c].strays \in Nat
        BY <3>1 DEF Cycles
      <4> QED
        BY <4>1 DEF Faults
    <3>5. Within(camp[c], hist[c], run, c, MaxTargets + 1, 0)
      BY <3>3, <3>4 DEF Within
    <3> QED
      BY <1>1, <2>1, <3>5 DEF Bounded
  <2>4. Complete(camp[c], hist[c], run, c)
    <3>1. hist[c] \in Cycles /\ camp[c].sentCount + camp[c].failedCount + 1 \in Nat
      BY <1>1, <1>2
    <3>2. Below(hist[c], camp[c].sentCount + camp[c].failedCount + 1) \in Nat
      BY <3>1, BelowType
    <3> QED
      BY <1>1, <2>1, <3>2 DEF Complete
  <2> QED
    BY <2>2, <2>3, <2>4 DEF Good
<1> QED
  BY <1>3, <1>4, <1>5, <1>6 DEF IndInv, CampInv

\* The expiry of a dead worker's lock touches nothing else.
LEMMA ExpireStep ==
    ASSUME IndInv, DeadLockExpires \/ UNCHANGED vars
    PROVE  IndInv'
<1>1. /\ camp' = camp /\ queue' = queue /\ run' = run /\ seen' = seen /\ hist' = hist
      /\ events' = events /\ (lock' = lock \/ (lock = "dead" /\ lock' = "free"))
  BY DEF DeadLockExpires, vars
<1>2. Typed'
  BY <1>1 DEF IndInv, Typed
<1>3. Existing'
  BY <1>1, CampaignAssumption DEF IndInv, Existing
<1>4. SessionExclusive'
  BY <1>1, CampaignAssumption DEF IndInv, CampInv, SessionExclusive, Busy
<1>5. \A c \in Campaigns : Good(camp'[c], hist'[c], run', c)
  BY <1>1 DEF IndInv, CampInv
<1> QED
  BY <1>2, <1>3, <1>4, <1>5 DEF IndInv, CampInv

\* Every step keeps the invariant.
LEMMA NextInv == IndInv /\ [Next]_vars => IndInv'
<1> SUFFICES ASSUME IndInv, [Next]_vars PROVE IndInv'
  OBVIOUS
<1>1. Typed /\ Existing /\ CampInv
  BY DEF IndInv
<1>2. ASSUME NEW c \in Campaigns,
             \/ createCampaign(c) \/ startCampaign(c) \/ pauseCampaign(c) \/ TimeComes(c)
             \/ FindStuck(c) \/ RearmStuck(c) \/ EnqueueDue(c)
      PROVE  IndInv'
  <2>1. Typed'
    BY <1>1, <1>2, TypedCampaign
  <2>2. Existing' /\ CampInv'
    BY <1>1, <1>2, <2>1, CreateStep, StartStep, SweepStep
  <2> QED
    BY <2>1, <2>2 DEF IndInv
<1>3. ASSUME NEW r \in Runs, NEW j \in queue, PickUp(r, j) PROVE IndInv'
  <2>1. Typed'
    BY <1>1, <1>3, TypedStart
  <2> QED
    BY <1>1, <1>3, <2>1, PickUpStep DEF IndInv
<1>4. ASSUME NEW r \in Runs, ReadFresh(r) \/ Claim(r) PROVE IndInv'
  <2>1. Typed'
    BY <1>1, <1>4, TypedStart
  <2> QED
    BY <1>1, <1>4, <2>1, ReadStep, ClaimStep DEF IndInv
<1>5. ASSUME NEW r \in Runs,
             \/ Throw(r) \/ Check(r) \/ SendArrives(r) \/ SendFails(r) \/ PeerFlood(r)
             \/ FloodWait(r) \/ CountSent(r) \/ CountSentThrows(r)
      PROVE  IndInv'
  <2>1. Typed'
    BY <1>1, <1>5, TypedLoop
  <2>2. Existing' /\ CampInv'
    BY <1>1, <1>5, <2>1, ThrowStep, CheckStep, ArriveStep, RefusedStep, PeerFloodStep,
       FloodWaitStep, CountStep, SlipStep
  <2> QED
    BY <2>1, <2>2 DEF IndInv
<1>6. ASSUME NEW r \in Runs,
             Finish(r) \/ Release(r) \/ Crash(r) \/ LockLapses(r) \/ Heartbeat(r)
      PROVE  IndInv'
  <2>1. Typed'
    BY <1>1, <1>6, TypedEnd
  <2>2. Existing' /\ CampInv'
    BY <1>1, <1>6, <2>1, FinishStep, ReleaseStep, CrashStep, LapseStep, HeartbeatStep
  <2> QED
    BY <2>1, <2>2 DEF IndInv
<1> QED
  BY <1>2, <1>3, <1>4, <1>5, <1>6, ExpireStep DEF Next, Step

\* Every reachable state satisfies the invariant.
LEMMA Invariant == Spec => []IndInv
  BY InitInv, NextInv, PTL DEF Spec

\* Rows, jobs, the lock, executions and the records of cycles keep their types
\* (TelegramUserCampaign and the local variables of the worker), and no message
\* is sent to an index beyond the list.
THEOREM TypeCorrect == Spec => []TypeOK
<1>1. IndInv => TypeOK
  <2> SUFFICES ASSUME IndInv PROVE TypeOK
    OBVIOUS
  <2>1. ASSUME NEW r \in Busy
        PROVE  /\ run[r].pc \in {"read", "claim", "check", "send",
                                 "countSent", "finish", "release"}
               /\ run[r].pc = "send" => run[r].i \in 1 .. MaxTargets
    <3>1. r \in Runs /\ run[r] \in Executions /\ Placed(run[r])
      BY TypedParts DEF Busy, IndInv
    <3> QED
      BY <3>1, CampaignAssumption DEF Executions, Placed
  <2> QED
    BY <2>1 DEF TypeOK, IndInv, Typed, Rows
<1> QED
  BY <1>1, Invariant, PTL

\* Each execution under way holds the session's lock or lost it to its expiry,
\* so nobody's stall or release costs another its exclusive use of the account
\* (the lock's token).
THEOREM SessionExclusiveAlways == Spec => []SessionExclusive
<1>1. IndInv => SessionExclusive
  BY DEF IndInv, CampInv
<1> QED
  BY <1>1, Invariant, PTL

\* A group's messages of a cycle are bounded by the faults of that cycle, for
\* every list of groups and every number of executions (the atomic claim, the
\* index a run resumes from, and the check before each message).
THEOREM OneMessageEachAlways == Spec => []OneMessageEach
<1>1. IndInv => OneMessageEach
  <2> SUFFICES ASSUME IndInv, NEW c \in Campaigns, camp[c].groupOnly, NEW t \in 1 .. MaxTargets
               PROVE  hist[c].got[t] <= 1 + 2 * hist[c].lapses + hist[c].strays
    BY DEF OneMessageEach
  <2>1. Within(camp[c], hist[c], run, c, MaxTargets + 1, 0) /\ hist[c] \in Cycles
    BY TypedParts DEF IndInv, CampInv, Good, Bounded
  <2>2. Load(camp[c], hist[c], run, c, t) <= Faults(hist[c]) + 1
    <3>1. t < MaxTargets + 1 /\ Load(camp[c], hist[c], run, c, t) \in Nat
      BY <2>1, CampaignAssumption, LoadType
    <3> QED
      BY <2>1, <3>1, LoadType DEF Within
  <2>3. /\ hist[c].got[t] \in Nat /\ Cardinality(Astray(camp[c], run, c, t)) \in Nat
        /\ hist[c].lapses \in Nat /\ hist[c].strays \in Nat
    BY <2>1, LoadType DEF Cycles
  <2> QED
    BY <2>2, <2>3 DEF Load, Faults
<1> QED
  BY <1>1, Invariant, PTL

\* Without an expired lock, a run never resumes past groups nobody tried, and a
\* completed campaign has tried them all, but for messages counted twice.
THEOREM NoneSkippedAlways == Spec => []NoneSkipped
<1>1. IndInv => NoneSkipped
  <2> SUFFICES ASSUME IndInv, NEW c \in Campaigns, camp[c].groupOnly, hist[c].lapses = 0
               PROVE  LET tried == Cardinality(hist[c].tried) + hist[c].slips
                      IN  /\ camp[c].sentCount + camp[c].failedCount <= tried
                          /\ camp[c].status = "COMPLETED" => camp[c].totalTarget <= tried
    BY DEF NoneSkipped
  <2>1. hist[c] \in Cycles /\ camp[c] \in Rows /\ Complete(camp[c], hist[c], run, c)
    BY TypedParts DEF IndInv, CampInv, Good
  <2>2. /\ camp[c].sentCount + camp[c].failedCount + 1 \in Nat /\ MaxTargets + 1 \in Nat
        /\ camp[c].sentCount + camp[c].failedCount \in Nat /\ camp[c].totalTarget \in Nat
    BY <2>1, CampaignAssumption DEF Rows
  <2>3. Below(hist[c], MaxTargets + 1) = Cardinality(hist[c].tried) + hist[c].slips
    <3>1. {t \in hist[c].tried : t < MaxTargets + 1} = hist[c].tried
      BY <2>1, CampaignAssumption DEF Cycles
    <3> QED
      BY <3>1 DEF Below
  <2>4. /\ Below(hist[c], camp[c].sentCount + camp[c].failedCount + 1) \in Nat
        /\ Below(hist[c], MaxTargets + 1) \in Nat
        /\ Below(hist[c], camp[c].sentCount + camp[c].failedCount + 1)
             <= Below(hist[c], MaxTargets + 1)
    BY ONLY <2>1, <2>2, BelowType, BelowAll
  <2>5. /\ camp[c].sentCount + camp[c].failedCount
             <= Below(hist[c], camp[c].sentCount + camp[c].failedCount + 1)
        /\ camp[c].status = "COMPLETED" => camp[c].totalTarget <= Below(hist[c], MaxTargets + 1)
    BY <2>1 DEF Complete
  <2> QED
    BY <2>2, <2>3, <2>4, <2>5
<1> QED
  BY <1>1, Invariant, PTL
=============================================================================
