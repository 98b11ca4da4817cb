------------------------------ MODULE Sessions ------------------------------
(***************************************************************************)
(* The shared runtime (exec/session.rs): client threads submit jobs        *)
(* through a bounded channel, one runtime thread owns the engine and runs  *)
(* them.                                                                   *)
(*                                                                         *)
(* Under IsolationLevel::Serializable the runtime holds back the jobs of   *)
(* other sessions while a transaction is open: it moves them to a list of  *)
(* its own and fails those that wait too long.  Of the engine only the     *)
(* open transactions matter here, and which of them is installed (module   *)
(* Transactions has the rest).  run_jobs is split where it blocks: "loop"  *)
(* is the top of the loop, "recv" the wait for the next job, with the      *)
(* holder read before it.  with_engine's jobs are those of a session that  *)
(* is never dropped.                                                       *)
(***************************************************************************)
EXTENDS Naturals, Sequences, FiniteSets, Functions

CONSTANTS Sessions, None,
          Levels,        \* whether it is Serializable at the start
          ScheduledViews, \* whether a view is refreshed on a schedule
          Capacity,      \* of the channel
          MaxJobs,       \* bound on the statements submitted
          MaxSwitches    \* bound on the calls of set_isolation

ASSUME SessionsAssumption ==
  /\ Levels \subseteq BOOLEAN /\ ScheduledViews \in BOOLEAN /\ Capacity \in Nat \ {0}
  /\ MaxJobs \in Nat /\ MaxSwitches \in Nat /\ None \notin Sessions

VARIABLES
  \* clients
  sending,     \* for each session, the job it is blocked in send with, or None
  live,        \* sessions with a handle left
  closed,      \* the sender was dropped: Database::close, or the last handle
  serial,      \* the atomic flag set_isolation stores
  switches,    \* calls of set_isolation
  \* jobs, numbered in order of arrival
  queue,       \* the channel
  arrived,     \* number of jobs that entered it
  answered,    \* those that were run, skipped or failed
  cancelled,   \* those whose PendingResult was dropped before
  late,        \* those that have waited for the limit
  \* the runtime thread
  pc, holder, deferred, connected,
  \* the engine
  open, installed

clients == <<sending, live, closed, serial, switches>>
runtime == <<pc, holder, deferred, connected>>
engine == <<open, installed>>
jobs == <<queue, arrived, answered, cancelled, late>>
vars == <<clients, jobs, runtime, engine>>

Kinds == {"begin", "work", "end"}

\* The jobs that have not been run.
Waiting == Range(queue) \cup Range(deferred)

Init ==
  /\ sending = [s \in Sessions |-> None] /\ live = Sessions
  /\ closed = FALSE /\ serial \in Levels /\ switches = 0
  /\ queue = <<>> /\ arrived = 0 /\ answered = {} /\ cancelled = {} /\ late = {}
  /\ pc = "loop" /\ holder = None /\ deferred = <<>> /\ connected = TRUE
  /\ open = {} /\ installed = None

-----------------------------------------------------------------------------
(***************************************************************************)
(* Clients.                                                                *)
(***************************************************************************)
\* submit: make the job and clone the sender; send blocks while the channel is
\* full.
Submit(s, kind) ==
  /\ ~closed /\ s \in live /\ sending[s] = None
  /\ arrived + Cardinality({r \in Sessions : sending[r] # None})
       < MaxJobs + Cardinality(Sessions \ live)
  /\ sending' = [sending EXCEPT ![s] = [kind |-> kind]]
  /\ UNCHANGED <<live, closed, serial, switches, jobs, runtime, engine>>

Send(s) ==
  /\ sending[s] # None /\ Len(queue) < Capacity
  /\ queue' = Append(queue, [id |-> arrived + 1, session |-> s,
                             kind |-> sending[s].kind])
  /\ arrived' = arrived + 1
  /\ sending' = [sending EXCEPT ![s] = None]
  /\ UNCHANGED <<live, closed, serial, switches, answered, cancelled, late, runtime, engine>>

\* Mutant of DropSession: no rollback is sent.
DropSessionQuietly(s) ==
  /\ s \in live /\ sending[s] = None
  /\ live' = live \ {s}
  /\ UNCHANGED <<sending, closed, serial, switches, jobs, runtime, engine>>

\* The last handle of s goes: SessionGuard::drop sends a rollback.
DropSession(s) ==
  /\ s \in live /\ sending[s] = None
  /\ live' = live \ {s}
  /\ sending' = IF closed THEN sending
                ELSE [sending EXCEPT ![s] = [kind |-> "guard"]]
  /\ UNCHANGED <<closed, serial, switches, jobs, runtime, engine>>

\* Drop of a PendingResult.
Cancel(j) ==
  /\ j.kind # "guard" /\ j.id \notin cancelled
  /\ cancelled' = cancelled \cup {j.id}
  /\ UNCHANGED <<clients, queue, arrived, answered, late, runtime, engine>>

SetIsolation ==
  /\ ~closed /\ switches < MaxSwitches
  /\ serial' = ~serial /\ switches' = switches + 1
  /\ UNCHANGED <<sending, live, closed, jobs, runtime, engine>>

\* Database::close, or the drop of the last handle.
Close ==
  /\ ~closed /\ closed' = TRUE
  /\ UNCHANGED <<sending, live, serial, switches, jobs, runtime, engine>>

\* Job j has now waited for the limit.
TimePasses(j) ==
  /\ j.id \notin late
  /\ late' = late \cup {j.id}
  /\ UNCHANGED <<clients, queue, arrived, answered, cancelled, runtime, engine>>

-----------------------------------------------------------------------------
(***************************************************************************)
(* The runtime thread.                                                     *)
(***************************************************************************)
\* transaction_sessions().first(): the installed one, else any parked one.
First(s) == s \in open /\ (installed # None => s = installed)

Holder(h) == IF serial /\ open # {} THEN First(h) ELSE h = None

\* Mutant of MayRun: whoever asks.
MayRunAlways(h, job) == TRUE

MayRun(h, job) == h = None \/ h = job.session

\* The jobs ids got their answer, and are dropped.
Over(ids) ==
  /\ answered' = answered \cup ids
  /\ cancelled' = cancelled \ ids /\ late' = late \ ids
  /\ UNCHANGED arrived

\* activate_session has another state to install and fails: the job gets the
\* error, and a transaction that was taken out to be installed is dropped.
ActivationFails(s) ==
  /\ installed # IF s \in open THEN s ELSE None
  /\ open' = open \ {s} /\ installed' = None

\* The session is installed and the statement runs.  BEGIN inside a transaction
\* and COMMIT outside one fail and change nothing.
RunStatement(job) ==
  LET s == job.session
      skipped == job.id \in cancelled
      begins == ~skipped /\ job.kind = "begin" /\ s \notin open
      ends == ~skipped /\ job.kind \in {"end", "guard"} /\ s \in open
  IN /\ open' = CASE begins -> open \cup {s} [] ends -> open \ {s} [] OTHER -> open
     /\ installed' = IF s \in open' THEN s ELSE None

RunJob(job) == (ActivationFails(job.session) \/ RunStatement(job)) /\ Over({job.id})

\* The holder is gone: the oldest deferred job runs.
RunDeferred ==
  /\ pc = "loop" /\ Holder(None) /\ deferred # <<>>
  /\ RunJob(Head(deferred))
  /\ deferred' = Tail(deferred)
  /\ UNCHANGED <<clients, queue, pc, holder, connected>>

\* Views may be refreshed now, with the committed state installed for it.
RefreshesViews(h) == h = None /\ Holder(None) /\ ScheduledViews

\* Mutant of Rollback: the transactions of a closed database are left open.
RollbackNever(s) == FALSE /\ UNCHANGED vars

\* Every sender is gone: an open transaction is rolled back.
Rollback(s) ==
  /\ pc = "loop" /\ ~connected /\ (Holder(None) => deferred = <<>>)
  /\ First(s) \/ (RefreshesViews(None) /\ s \in open)
  /\ open' = open \ {s} /\ installed' = None
  /\ UNCHANGED <<clients, jobs, runtime>>

\* Mutant of Stop: as soon as nobody can send.
StopAtOnce ==
  /\ pc = "loop" /\ ~connected
  /\ pc' = "stopped"
  /\ UNCHANGED <<clients, jobs, holder, deferred, connected, engine>>

Stop ==
  /\ pc = "loop" /\ ~connected /\ (Holder(None) => deferred = <<>>)
  /\ open = {}
  /\ pc' = "stopped"
  /\ UNCHANGED <<clients, jobs, holder, deferred, connected, engine>>

\* The jobs of list, in their order, without those in ids.
Without(list, ids) ==
  LET first[i \in 0 .. Len(list)] ==
        IF i = 0 THEN <<>>
        ELSE IF list[i].id \in ids THEN first[i - 1] ELSE Append(first[i - 1], list[i])
  IN first[Len(list)]

\* Mutant of Expire: the job is dropped, its client not told.
ExpireSilently ==
  /\ deferred' = Without(deferred, late)
  /\ UNCHANGED <<arrived, answered, cancelled, late>>

\* Deferred jobs that waited too long fail.
Expire ==
  /\ deferred' = Without(deferred, late)
  /\ Over({j.id : j \in Range(deferred)} \cap late)

\* To the wait for a job, perhaps after a refresh of scheduled views.
Wait(h) ==
  /\ pc = "loop" /\ connected /\ Holder(h) /\ (h = None => deferred = <<>>)
  /\ Expire
  /\ installed' \in {installed} \cup (IF RefreshesViews(h) THEN {None} ELSE {})
  /\ holder' = h /\ pc' = "recv"
  /\ UNCHANGED <<clients, queue, connected, open>>

\* A job arrives: it runs or is deferred.
Receive ==
  /\ pc = "recv" /\ queue # <<>>
  /\ queue' = Tail(queue)
  /\ IF MayRun(holder, Head(queue))
       THEN RunJob(Head(queue)) /\ UNCHANGED deferred
       ELSE /\ deferred' = Append(deferred, Head(queue))
            /\ UNCHANGED <<arrived, answered, cancelled, late, engine>>
  /\ pc' = "loop"
  /\ UNCHANGED <<clients, holder, connected>>

\* Mutant of Timeout: recv instead of recv_timeout.
TimeoutNever == FALSE /\ UNCHANGED vars

HungUp == closed /\ \A s \in Sessions : sending[s] = None

\* recv_timeout gives up when the oldest deferred job has waited long enough.
Timeout ==
  /\ pc = "recv" /\ queue = <<>> /\ ~HungUp
  /\ \E j \in Range(deferred) : j.id \in late
  /\ pc' = "loop"
  /\ UNCHANGED <<clients, jobs, holder, deferred, connected, engine>>

\* It gives up for the next tick of scheduled views.
ViewTick ==
  /\ pc = "recv" /\ queue = <<>> /\ ~HungUp /\ ScheduledViews
  /\ pc' = "loop"
  /\ UNCHANGED <<clients, jobs, holder, deferred, connected, engine>>

\* recv reports that every sender is gone.
Disconnected ==
  /\ pc = "recv" /\ queue = <<>> /\ HungUp
  /\ connected' = FALSE /\ pc' = "loop"
  /\ UNCHANGED <<clients, jobs, holder, deferred, engine>>

Runtime ==
  \/ RunDeferred \/ Stop \/ Receive \/ Timeout \/ Disconnected
  \/ \E s \in Sessions : Rollback(s)
  \/ \E h \in Sessions \cup {None} : Wait(h)

Next ==
  \/ \E s \in Sessions : Send(s) \/ DropSession(s) \/ \E kind \in Kinds : Submit(s, kind)
  \/ \E j \in Waiting : Cancel(j)
  \/ \E j \in Waiting : TimePasses(j)
  \/ SetIsolation \/ Close
  \/ Runtime \/ ViewTick

Spec == Init /\ [][Next]_vars

\* The runtime thread runs, time passes, and the channel serves blocked senders
\* in turn.  No client need ever submit, commit or close anything, and no view
\* need ever be due: the behaviours without scheduled views are among these.
FairSpec ==
  /\ Spec
  /\ WF_vars(Runtime)
  /\ \A s \in Sessions : WF_vars(Send(s))
  /\ WF_vars(\E j \in Waiting : TimePasses(j))

-----------------------------------------------------------------------------
Job == [id : Nat, session : Sessions, kind : Kinds \cup {"guard"}]

TypeClients ==
  /\ sending \in [Sessions -> [kind : Kinds \cup {"guard"}] \cup {None}]
  /\ live \subseteq Sessions /\ closed \in BOOLEAN /\ serial \in BOOLEAN /\ switches \in Nat

TypeJobs ==
  /\ queue \in Seq(Job) /\ deferred \in Seq(Job) /\ Len(queue) <= Capacity
  /\ arrived \in Nat /\ answered \cup cancelled \cup late \subseteq 1 .. arrived

TypeRuntime ==
  /\ pc \in {"loop", "recv", "stopped"} /\ connected \in BOOLEAN
  /\ holder \in Sessions \cup {None}
  /\ open \subseteq Sessions /\ installed \in open \cup {None}

TypeOK == TypeClients /\ TypeJobs /\ TypeRuntime

\* A statement that has no result yet is somewhere it can still get one: in
\* the channel or in the runtime's list, and in one of them once.
NothingLost ==
  /\ {j.id : j \in Waiting} = (1 .. arrived) \ answered
  /\ Cardinality({j.id : j \in Waiting}) = Len(queue) + Len(deferred)

\* The step runs job j: it is over, and neither cancelled nor timed out on the
\* way to the wait.
Runs(j) == j.id \in answered' \ answered /\ j.id \notin cancelled /\ pc' = "loop"

\* "While one session's transaction is open, other sessions' statements wait":
\* under Serializable a statement runs only when no other session is in a
\* transaction, as long as the level has not been switched.
Exclusive ==
  [][serial /\ switches = 0 =>
       \A j \in Waiting : Runs(j) => open \subseteq {j.session}]_vars

\* close returns when every statement accepted has its result and every
\* transaction is rolled back.
CleanStop ==
  pc = "stopped" =>
    open = {} /\ queue = <<>> /\ deferred = <<>> /\ \A s \in Sessions : sending[s] = None

\* Every statement accepted gets a result: none waits for ever behind a
\* transaction nobody ends, also when no further job and no scheduled view ever
\* wakes the runtime.
Answered ==
  \A id \in 1 .. (MaxJobs + Cardinality(Sessions)) :
    (id <= arrived) ~> (id \in answered)

\* A closed database stops, open transactions and blocked senders included.
Stops == closed ~> (pc = "stopped")

\* "When the last handle of a session drops with its transaction still open,
\* the transaction is rolled back."
DroppedRolledBack ==
  \A s \in Sessions : (s \notin live) ~> (s \notin live /\ s \notin open)

\* The statements that wait, without the rollbacks of dropped sessions.
Statements == {j \in Waiting : j.kind # "guard"}

\* No statement overtakes an earlier one of its session.
InOrder == \A j, k \in Statements : Runs(j) /\ k.session = j.session => j.id <= k.id

\* Under Snapshot the transaction of a dropped session is always rolled back.
SnapshotDropped == []~serial => DroppedRolledBack

(***************************************************************************)
(* Two more that the documentation states and that do not hold (README).   *)
(***************************************************************************)
\* "Statements execute one at a time in arrival order", under any level.
SessionOrder == [][InOrder]_vars

\* "a submission blocks [...] or fails [...] while `capacity` statements are
\* already queued": no more than that wait to be run.
QueueBounded == Cardinality(Statements) <= Capacity
=============================================================================
