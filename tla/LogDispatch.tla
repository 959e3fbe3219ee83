---------------------------- MODULE LogDispatch ----------------------------
(***************************************************************************)
(* The log queue and its worker thread (server/observability/              *)
(* logging_sdk.py).  push_log puts a record into an unbounded queue; one   *)
(* thread per process takes the records out and sends each one to OCI      *)
(* Logging and then to Splunk.                                             *)
(*                                                                         *)
(* Records are numbered in the order in which the process pushes them.     *)
(***************************************************************************)
EXTENDS Integers, Sequences

CONSTANTS
    LoggingConfigured,   \* cfg.logging_configured
    MaxRecords,          \* bound: records pushed by one process
    MaxLogRestarts       \* bound: restarts of the process

ASSUME LogAssumption ==
    LoggingConfigured \in BOOLEAN /\ MaxRecords \in Nat /\ MaxLogRestarts \in Nat

VARIABLES
    queue,       \* _log_queue
    worker,      \* where the worker thread is
    hand,        \* the record it has taken out, 0 if there is none
    client,      \* _oci_logging_client is set
    pushed,      \* records pushed since the process began
    handled,     \* records the worker is done with
    logRestarts

logVars == <<queue, worker, hand, client, pushed, handled, logRestarts>>

LogInit ==
    /\ queue = <<>> /\ worker = "waiting" /\ hand = 0 /\ client = FALSE
    /\ pushed = 0 /\ handled = 0 /\ logRestarts = 0

PushLog ==
    /\ pushed < MaxRecords
    /\ pushed' = pushed + 1
    /\ queue' = Append(queue, pushed')
    /\ UNCHANGED <<worker, hand, client, handled, logRestarts>>

\* Mutant: the queue is a stack.
GetNewest ==
    /\ worker = "waiting" /\ queue # <<>>
    /\ hand' = queue[Len(queue)] /\ queue' = SubSeq(queue, 1, Len(queue) - 1)
    /\ worker' = "oci"
    /\ UNCHANGED <<client, pushed, handled, logRestarts>>

Get ==
    /\ worker = "waiting" /\ queue # <<>>
    /\ hand' = Head(queue) /\ queue' = Tail(queue)
    /\ worker' = "oci"
    /\ UNCHANGED <<client, pushed, handled, logRestarts>>

\* No client: OCI Logging is not configured, or the SDK raised and the client
\* is tried for again with the next record.
OciSkipped ==
    /\ worker = "oci" /\ ~client
    /\ worker' = "splunk"
    /\ UNCHANGED <<queue, hand, client, pushed, handled, logRestarts>>

OciPut ==
    /\ worker = "oci" /\ (client \/ LoggingConfigured)
    /\ client' = TRUE /\ worker' = "splunk"
    /\ UNCHANGED <<queue, hand, pushed, handled, logRestarts>>

\* put_logs raises.  Its handler finds the last report more than 60 s ago (it
\* is 0 at first) and names logger, which the module does not define: the
\* NameError leaves _log_worker and the thread is gone.
OciFails ==
    /\ worker = "oci" /\ (client \/ LoggingConfigured)
    /\ client' = TRUE /\ worker' = "dead"
    /\ UNCHANGED <<queue, hand, pushed, handled, logRestarts>>

\* Splunk is not configured, is sent the record, or fails: all the same here.
PushToSplunk ==
    /\ worker = "splunk"
    /\ worker' = "waiting" /\ hand' = 0 /\ handled' = handled + 1
    /\ UNCHANGED <<queue, client, pushed, logRestarts>>

\* The process ends and begins anew; what was queued is lost.
LogRestart ==
    /\ logRestarts < MaxLogRestarts
    /\ logRestarts' = logRestarts + 1
    /\ queue' = <<>> /\ worker' = "waiting" /\ hand' = 0 /\ client' = FALSE
    /\ pushed' = 0 /\ handled' = 0

LogWorker == Get \/ OciSkipped \/ OciPut \/ OciFails \/ PushToSplunk

LogNext == PushLog \/ LogWorker \/ LogRestart

\* The worker is a thread of its own, and every call it makes returns.
LogFairness == WF_logVars(LogWorker)

LogSpec == LogInit /\ [][LogNext]_logVars /\ LogFairness

-----------------------------------------------------------------------------
LogTypeOK ==
    /\ queue \in Seq(Nat)
    /\ worker \in {"waiting", "oci", "splunk", "dead"}
    /\ hand \in Nat /\ client \in BOOLEAN
    /\ pushed \in Nat /\ handled \in Nat /\ logRestarts \in Nat

\* push_log and the worker hand every record over once and in order: those done
\* with, the one in hand and those queued are the records pushed.  (The record
\* in hand when the worker dies is lost.)
LogInOrder ==
    /\ hand = IF worker = "waiting" THEN 0 ELSE handled + 1
    /\ Len(queue) + handled + (IF worker = "waiting" THEN 0 ELSE 1) = pushed
    /\ \A i \in 1..Len(queue) : queue[i] = pushed - Len(queue) + i

\* _log_worker drains the queue: a process that goes on hands every record it
\* pushes to the exporters, whether or not OCI Logging takes it.  (What the code
\* does instead: the first put_logs that fails ends the thread, and every later
\* record stays in the queue.)
RecordsDrain ==
    \A i \in 1..MaxRecords :
        (pushed >= i /\ logRestarts = MaxLogRestarts) ~> handled >= i
=============================================================================
