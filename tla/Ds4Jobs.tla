------------------------------ MODULE Ds4Jobs ------------------------------
(***************************************************************************)
(* ds4-server: how requests reach the one worker thread and how the server   *)
(* stops.  The main thread accepts, a detached thread per connection reads   *)
(* the request, queues a job that lives on its own stack and sleeps until    *)
(* the worker is done with it.  A first signal drains, a second one exits.   *)
(*                                                                         *)
(* A thread in pthread_cond_wait is "asleep"; a signal moves it back to its  *)
(* test, and so may a spurious wakeup.  What happens between two operations  *)
(* on a mutex or on the job queue is one action.                            *)
(***************************************************************************)
EXTENDS Integers, Sequences, FiniteSets

CONSTANT Clients  \* connections over all lives of the server

VARIABLES
    g_stop_requested,
    main,      \* where the main thread stands
    accepted,  \* the connection accept returned, while main = "accepted"
    worker,    \* where worker_main stands
    current,   \* the client whose job generate_job runs, while "generate"
    queue,     \* s->head ... s->tail
    stopping,  \* s->stopping
    clients,   \* s->clients
    client,    \* where each client_main stands
    done       \* the clients whose j.done is set

jobsVars == <<g_stop_requested, main, accepted, worker, current, queue, stopping, clients,
              client, done>>

Alive == {"reading", "asleep", "awake", "leaving"}

JobsInit ==
    /\ g_stop_requested = FALSE
    /\ main = "accept" /\ accepted = {}
    /\ worker = "test" /\ current = {}
    /\ queue = <<>> /\ stopping = FALSE /\ clients = 0
    /\ client = [c \in Clients |-> "new"]
    /\ done = {}

-----------------------------------------------------------------------------
(* main: the accept loop *)

(* The first signal; it also closes the listening socket, so that accept     *)
(* returns.                                                                 *)
stop_signal_handler ==
    /\ ~g_stop_requested /\ main # "closed"
    /\ g_stop_requested' = TRUE
    /\ UNCHANGED <<main, accepted, worker, current, queue, stopping, clients, client, done>>

Accept(c) ==
    /\ main = "accept" /\ ~g_stop_requested /\ client[c] = "new"
    /\ main' = "accepted" /\ accepted' = {c}
    /\ UNCHANGED <<g_stop_requested, worker, current, queue, stopping, clients, client, done>>

(* The thread is counted before it starts, and taken back if it cannot.     *)
Spawn ==
    /\ main = "accepted" /\ ~g_stop_requested
    /\ main' = "accept" /\ accepted' = {}
    /\ \/ /\ clients' = clients + 1
          /\ client' = [c \in Clients |-> IF c \in accepted THEN "reading" ELSE client[c]]
       \/ /\ client' = [c \in Clients |-> IF c \in accepted THEN "gone" ELSE client[c]]
          /\ UNCHANGED clients
    /\ UNCHANGED <<g_stop_requested, worker, current, queue, stopping, done>>

AcceptLoopEnds ==
    /\ main \in {"accept", "accepted"} /\ g_stop_requested
    /\ main' = "drain" /\ accepted' = {}
    /\ client' = [c \in Clients |-> IF c \in accepted THEN "gone" ELSE client[c]]
    /\ UNCHANGED <<g_stop_requested, worker, current, queue, stopping, clients, done>>

-----------------------------------------------------------------------------
(* client_main *)

(* A bad request, GET /v1/models or an unknown endpoint is answered here.    *)
AnswerDirectly(c) ==
    /\ client[c] = "reading"
    /\ client' = [client EXCEPT ![c] = "leaving"]
    /\ UNCHANGED <<g_stop_requested, main, accepted, worker, current, queue, stopping, clients,
                   done>>

Refused(c) ==
    /\ client[c] = "reading" /\ stopping
    /\ client' = [client EXCEPT ![c] = "leaving"]
    /\ UNCHANGED <<g_stop_requested, main, accepted, worker, current, queue, stopping, clients,
                   done>>

(* Mutant: the worker is not woken.                                         *)
enqueue_silent(c) ==
    /\ client[c] = "reading" /\ ~stopping
    /\ queue' = Append(queue, c)
    /\ client' = [client EXCEPT ![c] = "asleep"]
    /\ UNCHANGED <<g_stop_requested, main, accepted, worker, current, stopping, clients, done>>

(* The client holds j.mu from before the enqueue until it sleeps on j.cv.    *)
enqueue(c) ==
    /\ client[c] = "reading" /\ ~stopping
    /\ queue' = Append(queue, c)
    /\ worker' = IF worker = "asleep" THEN "test" ELSE worker
    /\ client' = [client EXCEPT ![c] = "asleep"]
    /\ UNCHANGED <<g_stop_requested, main, accepted, current, stopping, clients, done>>

SpuriousClient(c) ==
    /\ client[c] = "asleep"
    /\ client' = [client EXCEPT ![c] = "awake"]
    /\ UNCHANGED <<g_stop_requested, main, accepted, worker, current, queue, stopping, clients,
                   done>>

(* Mutant: if in place of while around pthread_cond_wait.                   *)
TestDone_once(c) ==
    /\ client[c] = "awake"
    /\ client' = [client EXCEPT ![c] = "leaving"]
    /\ UNCHANGED <<g_stop_requested, main, accepted, worker, current, queue, stopping, clients,
                   done>>

TestDone(c) ==
    /\ client[c] = "awake"
    /\ client' = [client EXCEPT ![c] = IF c \in done THEN "leaving" ELSE "asleep"]
    /\ UNCHANGED <<g_stop_requested, main, accepted, worker, current, queue, stopping, clients,
                   done>>

(* Mutant: main is not told.                                                *)
client_done_silent(c) ==
    /\ client[c] = "leaving"
    /\ client' = [client EXCEPT ![c] = "gone"]
    /\ clients' = IF clients > 0 THEN clients - 1 ELSE clients
    /\ UNCHANGED <<g_stop_requested, main, accepted, worker, current, queue, stopping, done>>

client_done(c) ==
    /\ client[c] = "leaving"
    /\ client' = [client EXCEPT ![c] = "gone"]
    /\ clients' = IF clients > 0 THEN clients - 1 ELSE clients
    /\ main' = IF main = "asleep" THEN "clients" ELSE main
    /\ UNCHANGED <<g_stop_requested, accepted, worker, current, queue, stopping, done>>

ClientStep(c) ==
    AnswerDirectly(c) \/ Refused(c) \/ enqueue(c) \/ TestDone(c) \/ client_done(c)

-----------------------------------------------------------------------------
(* worker_main *)

dequeue ==
    /\ worker = "test" /\ queue # <<>>
    /\ worker' = "generate" /\ current' = {Head(queue)}
    /\ queue' = Tail(queue)
    /\ UNCHANGED <<g_stop_requested, main, accepted, stopping, clients, client, done>>

DequeueSleeps ==
    /\ worker = "test" /\ queue = <<>> /\ ~stopping
    /\ worker' = "asleep"
    /\ UNCHANGED <<g_stop_requested, main, accepted, current, queue, stopping, clients, client,
                   done>>

SpuriousWorker ==
    /\ worker = "asleep"
    /\ worker' = "test"
    /\ UNCHANGED <<g_stop_requested, main, accepted, current, queue, stopping, clients, client,
                   done>>

DequeueNull ==
    /\ worker = "test" /\ queue = <<>> /\ stopping
    /\ worker' = "exited"
    /\ UNCHANGED <<g_stop_requested, main, accepted, current, queue, stopping, clients, client,
                   done>>

(* generate_job has returned: the job is marked done and its client woken.  *)
FinishJob ==
    /\ worker = "generate"
    /\ worker' = "test" /\ current' = {}
    /\ done' = done \cup current
    /\ client' = [c \in Clients |->
                    IF c \in current /\ client[c] = "asleep" THEN "awake" ELSE client[c]]
    /\ UNCHANGED <<g_stop_requested, main, accepted, queue, stopping, clients>>

WorkerStep == dequeue \/ DequeueSleeps \/ DequeueNull \/ FinishJob

-----------------------------------------------------------------------------
(* main: the way out *)

StopWorker ==
    /\ main = "drain"
    /\ main' = "join" /\ stopping' = TRUE
    /\ worker' = IF worker = "asleep" THEN "test" ELSE worker
    /\ UNCHANGED <<g_stop_requested, accepted, current, queue, clients, client, done>>

(* Mutant: pthread_join is dropped.                                         *)
JoinWorker_returns ==
    /\ main = "join"
    /\ main' = "clients"
    /\ UNCHANGED <<g_stop_requested, accepted, worker, current, queue, stopping, clients, client,
                   done>>

JoinWorker ==
    /\ main = "join" /\ worker = "exited"
    /\ main' = "clients"
    /\ UNCHANGED <<g_stop_requested, accepted, worker, current, queue, stopping, clients, client,
                   done>>

AwaitClients ==
    /\ main = "clients"
    /\ main' = IF clients > 0 THEN "asleep" ELSE "persist"
    /\ UNCHANGED <<g_stop_requested, accepted, worker, current, queue, stopping, clients, client,
                   done>>

SpuriousMain ==
    /\ main = "asleep"
    /\ main' = "clients"
    /\ UNCHANGED <<g_stop_requested, accepted, worker, current, queue, stopping, clients, client,
                   done>>

(* The session was stored; everything the other threads used is freed.      *)
Close ==
    /\ main = "persist"
    /\ main' = "closed"
    /\ UNCHANGED <<g_stop_requested, accepted, worker, current, queue, stopping, clients, client,
                   done>>

MainStep == Spawn \/ AcceptLoopEnds \/ StopWorker \/ JoinWorker \/ AwaitClients \/ Close

(* A second signal, or a crash: every connection is reset and the server is  *)
(* started again.                                                           *)
Die ==
    /\ main # "closed"
    /\ g_stop_requested' = FALSE
    /\ main' = "accept" /\ accepted' = {}
    /\ worker' = "test" /\ current' = {}
    /\ queue' = <<>> /\ stopping' = FALSE /\ clients' = 0
    /\ client' = [c \in Clients |->
                    IF client[c] \in Alive \/ c \in accepted THEN "gone" ELSE client[c]]
    /\ done' = {}

JobsNext ==
    \/ stop_signal_handler
    \/ \E c \in Clients : Accept(c) \/ ClientStep(c) \/ SpuriousClient(c)
    \/ MainStep \/ SpuriousMain
    \/ WorkerStep \/ SpuriousWorker
    \/ Die

(* Threads that can run do; a socket read ends (10 s receive timeout) and    *)
(* generate_job returns.                                                    *)
JobsFairness ==
    /\ WF_jobsVars(WorkerStep)
    /\ WF_jobsVars(MainStep)
    /\ \A c \in Clients : WF_jobsVars(ClientStep(c))

JobsSpec == JobsInit /\ [][JobsNext]_jobsVars /\ JobsFairness

-----------------------------------------------------------------------------
(* Properties *)

(* Every variable holds a value of its type.                                *)
JobsTypeOK ==
    /\ g_stop_requested \in BOOLEAN /\ stopping \in BOOLEAN
    /\ main \in {"accept", "accepted", "drain", "join", "clients", "asleep", "persist", "closed"}
    /\ worker \in {"test", "asleep", "generate", "exited"}
    /\ accepted \subseteq Clients /\ current \subseteq Clients
    /\ queue \in Seq(Clients)
    /\ clients \in Nat
    /\ client \in [Clients -> {"new", "gone"} \cup Alive]
    /\ done \subseteq Clients

(* client_main declares its job on its own stack.  A job the worker can      *)
(* still reach, queued or in generate_job, is not done and belongs to a       *)
(* thread that still waits for it, spurious wakeups included.               *)
JobOutlivesWorker ==
    \A c \in Clients :
        (\E i \in DOMAIN queue : queue[i] = c) \/ c \in current =>
            client[c] \in {"asleep", "awake"} /\ c \notin done

(* main closes the session, the mutexes and the engine only when no other    *)
(* thread can touch them: the worker has exited, no job is queued, and no     *)
(* client thread is alive.                                                  *)
NoUseAfterClose ==
    main \in {"persist", "closed"} =>
        /\ worker = "exited" /\ queue = <<>>
        /\ \A c \in Clients : client[c] \notin Alive

(* Every queued request is eventually finished and its connection closed:    *)
(* no wakeup of the worker or of a client is lost.                          *)
RequestsEnd == \A c \in Clients : client[c] = "asleep" ~> client[c] = "gone"

(* After the first signal the server closes down (or a second one kills it): *)
(* main, worker and clients never wait for each other in a circle.          *)
ShutdownEnds == g_stop_requested ~> main = "closed" \/ ~g_stop_requested
=============================================================================
