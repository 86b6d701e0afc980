----------------------------- MODULE Lifecycle -----------------------------
(***************************************************************************)
(* The life of the server process (src/server.ts): the schema is applied,  *)
(* connections are taken, and on a signal server.close waits for the last  *)
(* of them before the pool of src/db.ts is ended and the process exits.    *)
(* Handlers whose client has gone work on; a handler asks the pool for a   *)
(* client up to MaxTakes times, one after the other.                       *)
(***************************************************************************)
EXTENDS Integers, FiniteSets

CONSTANTS
    Conns,          \* connections, each with the handler of its last request
    PoolMax,        \* PG_POOL_MAX
    MaxTakes,       \* bound: clients a handler takes, one after the other
    MaxRequests     \* bound: requests sent on one connection slot

ASSUME LifecycleAssumption ==
    PoolMax \in Nat \ {0} /\ MaxTakes \in Nat \ {0} /\ MaxRequests \in Nat

VARIABLES
    phase,      \* "migrating", "listening", "closing", "ending", "exited"
    exit,       \* "none" while it runs, "clean" for exit(0), else "failed"
    tables,     \* whether the schema is applied
    callbacks,  \* how many server.close() callbacks wait for the last connection
    conn,       \* of each connection, "closed", "idle" or "busy"
    work,       \* of its handler, "none", "queued" for the pool or "holding" a client
    takes,      \* how many clients the handler has taken
    sent,       \* how many requests were sent
    failed      \* history: clients who waited and were told the pool is ended

processVars == <<phase, exit, tables, callbacks, conn, work, takes, sent, failed>>

Holders == {c \in Conns : work[c] = "holding"}

ProcessInit ==
    /\ phase = "migrating" /\ exit = "none" /\ tables = FALSE /\ callbacks = 0
    /\ conn = [c \in Conns |-> "closed"]
    /\ work = [c \in Conns |-> "none"]
    /\ takes = [c \in Conns |-> 0]
    /\ sent = [c \in Conns |-> 0]
    /\ failed = {}

\* Whatever was connected or under way goes with the process.
Exits(how) ==
    /\ phase' = "exited" /\ exit' = how
    /\ conn' = [c \in Conns |-> "closed"]
    /\ work' = [c \in Conns |-> "none"]
    /\ UNCHANGED <<takes, sent, failed>>

\* main: migrate(), then app.listen(); a failure of either ends the process.
Migrate ==
    /\ phase = "migrating"
    /\ UNCHANGED callbacks
    /\ \/ /\ tables' = TRUE /\ phase' = "listening"
          /\ UNCHANGED <<exit, conn, work, takes, sent, failed>>
       \/ tables' \in BOOLEAN /\ Exits("failed")

Connect(c) ==
    /\ phase = "listening"
    /\ conn[c] = "closed" /\ work[c] = "none"
    /\ conn' = [conn EXCEPT ![c] = "idle"]
    /\ UNCHANGED <<phase, exit, tables, callbacks, work, takes, sent, failed>>

\* A request on an open connection starts a handler, after close() too.
Request(c) ==
    /\ conn[c] = "idle" /\ sent[c] < MaxRequests
    /\ conn' = [conn EXCEPT ![c] = "busy"]
    /\ work' = [work EXCEPT ![c] = "queued"]
    /\ takes' = [takes EXCEPT ![c] = 0]
    /\ sent' = [sent EXCEPT ![c] = @ + 1]
    /\ UNCHANGED <<phase, exit, tables, callbacks, failed>>

\* The client goes away; its handler is not told.
Leave(c) ==
    /\ conn[c] # "closed"
    /\ conn' = [conn EXCEPT ![c] = "closed"]
    /\ UNCHANGED <<phase, exit, tables, callbacks, work, takes, sent, failed>>

\* keepAliveTimeout
IdleCloses(c) == conn[c] = "idle" /\ Leave(c)

\* The handler's request for a client of the pool is served.
Take(c) ==
    /\ work[c] = "queued" /\ phase # "ending"
    /\ Cardinality(Holders) < PoolMax
    /\ work' = [work EXCEPT ![c] = "holding"]
    /\ takes' = [takes EXCEPT ![c] = @ + 1]
    /\ UNCHANGED <<phase, exit, tables, callbacks, conn, sent, failed>>

Answered(c) ==
    /\ work' = [work EXCEPT ![c] = "none"]
    /\ conn' = [conn EXCEPT ![c] = IF @ = "busy" THEN "idle" ELSE @]

\* Fault variant: a handler whose client has gone keeps what it holds.
ReleaseWaited(c) ==
    /\ work[c] = "holding" /\ conn[c] = "busy"
    /\ \/ Answered(c)
       \/ /\ takes[c] < MaxTakes
          /\ work' = [work EXCEPT ![c] = "queued"]
          /\ UNCHANGED conn
    /\ UNCHANGED <<phase, exit, tables, callbacks, takes, sent, failed>>

\* client.release(), and the answer, or the next statement that wants a client.
Release(c) ==
    /\ work[c] = "holding"
    /\ \/ Answered(c)
       \/ /\ takes[c] < MaxTakes
          /\ work' = [work EXCEPT ![c] = "queued"]
          /\ UNCHANGED conn
    /\ UNCHANGED <<phase, exit, tables, callbacks, takes, sent, failed>>

\* pool.connect() after pool.end() is an error, which becomes a 500. (One that
\* was queued before is never served, to the same effect: see NobodyCutOff.)
TakeRefused(c) ==
    /\ work[c] = "queued" /\ phase = "ending"
    /\ Answered(c)
    /\ failed' = IF conn[c] = "busy" THEN failed \cup {c} ELSE failed
    /\ UNCHANGED <<phase, exit, tables, callbacks, takes, sent>>

-----------------------------------------------------------------------------
\* Fault variant: the pool is ended at once, not when the connections are gone.
SignalEnds ==
    /\ phase = "listening"
    /\ phase' = "ending"
    /\ UNCHANGED <<exit, tables, callbacks, conn, work, takes, sent, failed>>

\* shutdown: before there is a handler a signal ends the process; each later one
\* calls server.close, which turns new connections away and closes idle ones.
Signal ==
    /\ UNCHANGED tables
    /\ \/ /\ phase = "migrating"
          /\ Exits("failed") /\ UNCHANGED callbacks
       \/ /\ phase \in {"listening", "closing"} /\ callbacks < 2
          /\ phase' = "closing" /\ callbacks' = callbacks + 1
          /\ conn' = [c \in Conns |-> IF conn[c] = "idle" THEN "closed" ELSE conn[c]]
          /\ UNCHANGED <<exit, work, takes, sent, failed>>
       \/ /\ phase = "ending"
          /\ Exits("failed") /\ UNCHANGED callbacks

\* The last connection is gone: every callback ends the pool. The second end() is
\* a rejection nobody handles, unless the first resolves before it is reported.
Drained ==
    /\ phase = "closing"
    /\ \A c \in Conns : conn[c] = "closed"
    /\ UNCHANGED <<tables, callbacks>>
    /\ \/ /\ callbacks = 1
          /\ phase' = "ending"
          /\ UNCHANGED <<exit, conn, work, takes, sent, failed>>
       \/ callbacks > 1 /\ Exits("failed")
       \/ callbacks > 1 /\ Holders = {} /\ Exits("clean")

\* pool.end() resolves when no client is out any more: process.exit(0).
Exit ==
    /\ phase = "ending" /\ Holders = {}
    /\ Exits("clean")
    /\ UNCHANGED <<tables, callbacks>>

ProcessNext ==
    \/ Migrate \/ Signal \/ Drained \/ Exit
    \/ \E c \in Conns : \/ Connect(c) \/ Request(c) \/ Leave(c)
                        \/ Take(c) \/ Release(c) \/ TakeRefused(c)

\* The event loop and the database come to every handler and callback; the
\* queue of the pool is first come, first served, so whoever can be served again
\* and again is. A connection nobody uses is closed. Nobody has to send.
Fairness ==
    /\ WF_processVars(Drained) /\ WF_processVars(Exit)
    /\ \A c \in Conns : /\ WF_processVars(IdleCloses(c)) /\ WF_processVars(Release(c))
                        /\ WF_processVars(TakeRefused(c)) /\ SF_processVars(Take(c))

ProcessSpec == ProcessInit /\ [][ProcessNext]_processVars /\ Fairness

-----------------------------------------------------------------------------
\* Every variable of the process keeps its type.
ProcessTypeOK ==
    /\ phase \in {"migrating", "listening", "closing", "ending", "exited"}
    /\ exit \in {"none", "clean", "failed"}
    /\ exit = "none" <=> phase # "exited"
    /\ tables \in BOOLEAN
    /\ callbacks \in 0..2
    /\ conn \in [Conns -> {"closed", "idle", "busy"}]
    /\ work \in [Conns -> {"none", "queued", "holding"}]
    /\ takes \in [Conns -> 0..MaxTakes]
    /\ sent \in [Conns -> 0..MaxRequests]
    /\ failed \subseteq Conns

\* server.ts:9: "a fresh database just works": no handler meets a database
\* without tables.
TablesFirst == \A c \in Conns : work[c] # "none" => tables

\* server.ts:18-20: nobody who still waits for an answer is told that the pool has
\* been ended, whatever signals come.
NobodyCutOff == failed = {}

\* server.ts:16-21: once it is told to, the process exits, provided that the
\* clients it has stop sending (MaxRequests).
ShutsDown == (phase = "closing") ~> (phase = "exited")
=============================================================================
