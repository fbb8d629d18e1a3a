--------------------------- MODULE Ds4JobsProofs ---------------------------
(***************************************************************************)
(* ds4-server, for any set of connections: no thread uses a job or the       *)
(* server after its owner is gone.                                          *)
(***************************************************************************)
EXTENDS Ds4Jobs, FiniteSetTheorems, TLAPS

Queued(c) == \E i \in DOMAIN queue : queue[i] = c
Held == {c \in Clients : client[c] \in Alive}

(* Who can reach a job: a client is in the queue at most once, and not while  *)
(* its job runs; a job nobody waits for yet is not done.                    *)
Ownership ==
    /\ JobOutlivesWorker
    /\ \A i, j \in DOMAIN queue : queue[i] = queue[j] => i = j
    /\ \A c \in Clients : c \in current => ~Queued(c)
    /\ \A c \in Clients : client[c] \in {"new", "reading"} => c \notin done
    /\ \A c \in Clients : c \in accepted => client[c] = "new"

(* How far the shutdown has come.                                           *)
Phases ==
    /\ stopping <=> main \in {"join", "clients", "asleep", "persist", "closed"}
    /\ main \in {"clients", "asleep", "persist", "closed"} => worker = "exited"
    /\ worker = "exited" => stopping /\ queue = <<>>
    /\ worker # "generate" => current = {}
    /\ main # "accepted" => accepted = {}
    /\ main = "accepted" => \E c \in Clients : accepted = {c}

(* s->clients is the number of client threads alive; none is left once main  *)
(* has gone past its wait.                                                  *)
Counting ==
    /\ IsFiniteSet(Held) /\ clients = Cardinality(Held)
    /\ main \in {"persist", "closed"} => clients = 0

Plain(c) == AnswerDirectly(c) \/ Refused(c) \/ TestDone(c) \/ SpuriousClient(c)

-----------------------------------------------------------------------------
LEMMA InitTypes == JobsInit => JobsTypeOK
  <1> SUFFICES ASSUME JobsInit PROVE JobsTypeOK
    OBVIOUS
  <1>1. client \in [Clients -> {"new", "gone"} \cup Alive]
    BY DEF JobsInit
  <1>2. queue \in Seq(Clients) /\ clients \in Nat
    BY DEF JobsInit
  <1>3. QED  BY <1>1, <1>2, Zenon DEF JobsInit, JobsTypeOK

LEMMA AcceptTypes ==
    ASSUME JobsTypeOK, (\E c \in Clients : Accept(c)) \/ Spawn \/ AcceptLoopEnds \/ Die
    PROVE  JobsTypeOK'
  <1>1. CASE \E c \in Clients : Accept(c)  BY <1>1 DEF JobsTypeOK, Accept
  <1>2. CASE Spawn  BY <1>2 DEF JobsTypeOK, Spawn, Alive
  <1>3. CASE AcceptLoopEnds  BY <1>3 DEF JobsTypeOK, AcceptLoopEnds, Alive
  <1>4. CASE Die
    <2>1. client' \in [Clients -> {"new", "gone"} \cup Alive]
      BY <1>4 DEF Die, JobsTypeOK
    <2>2. queue' \in Seq(Clients) /\ clients' \in Nat
      BY <1>4 DEF Die
    <2>3. QED  BY <1>4, <2>1, <2>2, Zenon DEF JobsTypeOK, Die
  <1>5. QED  BY <1>1, <1>2, <1>3, <1>4

LEMMA ClientTypes ==
    ASSUME JobsTypeOK, NEW c \in Clients, ClientStep(c) \/ SpuriousClient(c)
    PROVE  JobsTypeOK'
  <1>1. CASE Plain(c)
    BY <1>1 DEF Plain, JobsTypeOK, AnswerDirectly, Refused, TestDone, SpuriousClient, Alive
  <1>2. CASE enqueue(c)
    BY <1>2 DEF JobsTypeOK, enqueue, Alive
  <1>3. CASE client_done(c)
    BY <1>3 DEF JobsTypeOK, client_done, Alive
  <1>4. QED  BY <1>1, <1>2, <1>3 DEF ClientStep, Plain

LEMMA WorkerTypes ==
    ASSUME JobsTypeOK, WorkerStep \/ SpuriousWorker
    PROVE  JobsTypeOK'
  <1>1. CASE dequeue
    BY <1>1 DEF JobsTypeOK, dequeue
  <1>2. CASE FinishJob
    BY <1>2 DEF JobsTypeOK, FinishJob, Alive
  <1>3. CASE DequeueSleeps \/ SpuriousWorker \/ DequeueNull
    BY <1>3 DEF JobsTypeOK, DequeueSleeps, SpuriousWorker, DequeueNull
  <1>4. QED  BY <1>1, <1>2, <1>3 DEF WorkerStep

LEMMA MainTypes ==
    ASSUME JobsTypeOK,
           stop_signal_handler \/ StopWorker \/ JoinWorker \/ AwaitClients \/ SpuriousMain \/ Close
    PROVE  JobsTypeOK'
  <1>1. CASE stop_signal_handler
    BY <1>1, Zenon DEF JobsTypeOK, stop_signal_handler
  <1>2. CASE StopWorker
    <2>1. worker' \in {"test", "asleep", "generate", "exited"}
      BY <1>2 DEF JobsTypeOK, StopWorker
    <2>2. QED  BY <1>2, <2>1, Zenon DEF JobsTypeOK, StopWorker
  <1>3. CASE JoinWorker \/ AwaitClients \/ SpuriousMain \/ Close
    BY <1>3 DEF JobsTypeOK, JoinWorker, AwaitClients, SpuriousMain, Close
  <1>4. QED  BY <1>1, <1>2, <1>3

-----------------------------------------------------------------------------
LEMMA InitPhases == JobsInit => Ownership /\ Phases
  BY DEF JobsInit, Ownership, Phases, JobOutlivesWorker, Queued

LEMMA AcceptOwnership ==
    ASSUME JobsTypeOK, Ownership,
           (\E d \in Clients : Accept(d)) \/ Spawn \/ AcceptLoopEnds \/ Die
    PROVE  Ownership'
  <1>1. CASE \E d \in Clients : Accept(d)
    BY <1>1 DEF Ownership, JobOutlivesWorker, Queued, JobsTypeOK, Accept
  <1>2. CASE Spawn
    BY <1>2 DEF Ownership, JobOutlivesWorker, Queued, JobsTypeOK, Spawn
  <1>3. CASE AcceptLoopEnds
    BY <1>3 DEF Ownership, JobOutlivesWorker, Queued, JobsTypeOK, AcceptLoopEnds
  <1>4. CASE Die
    BY <1>4 DEF Ownership, JobOutlivesWorker, Queued, JobsTypeOK, Die
  <1>5. QED  BY <1>1, <1>2, <1>3, <1>4

LEMMA ClientOwnership ==
    ASSUME JobsTypeOK, Ownership, NEW d \in Clients, ClientStep(d) \/ SpuriousClient(d)
    PROVE  Ownership'
  <1>1. CASE Plain(d)
    BY <1>1 DEF Plain, Ownership, JobOutlivesWorker, Queued, JobsTypeOK, AnswerDirectly, Refused,
                TestDone, SpuriousClient
  <1>2. CASE enqueue(d)
    BY <1>2 DEF Ownership, JobOutlivesWorker, Queued, JobsTypeOK, enqueue
  <1>3. CASE client_done(d)
    BY <1>3 DEF Ownership, JobOutlivesWorker, Queued, JobsTypeOK, client_done
  <1>4. QED  BY <1>1, <1>2, <1>3 DEF ClientStep, Plain

LEMMA WorkerOwnership ==
    ASSUME JobsTypeOK, Ownership, WorkerStep \/ SpuriousWorker
    PROVE  Ownership'
  <1>1. CASE dequeue
    BY <1>1 DEF Ownership, JobOutlivesWorker, Queued, JobsTypeOK, dequeue
  <1>2. CASE FinishJob
    BY <1>2 DEF Ownership, JobOutlivesWorker, Queued, JobsTypeOK, FinishJob
  <1>3. CASE DequeueSleeps \/ SpuriousWorker \/ DequeueNull
    BY <1>3 DEF Ownership, JobOutlivesWorker, Queued, DequeueSleeps, SpuriousWorker, DequeueNull
  <1>4. QED  BY <1>1, <1>2, <1>3 DEF WorkerStep

LEMMA MainOwnership ==
    ASSUME Ownership,
           stop_signal_handler \/ StopWorker \/ JoinWorker \/ AwaitClients \/ SpuriousMain \/ Close
    PROVE  Ownership'
  BY DEF Ownership, JobOutlivesWorker, Queued, stop_signal_handler, StopWorker, JoinWorker,
         AwaitClients, SpuriousMain, Close

-----------------------------------------------------------------------------
LEMMA PhasesKept ==
    ASSUME JobsTypeOK, Phases, JobsNext
    PROVE  Phases'
  <1>1. CASE stop_signal_handler
    BY <1>1 DEF Phases, stop_signal_handler
  <1>2. ASSUME NEW d \in Clients, Accept(d)  PROVE Phases'
    BY <1>2 DEF Phases, Accept
  <1>3. ASSUME NEW d \in Clients, Plain(d)  PROVE Phases'
    BY <1>3 DEF Phases, Plain, AnswerDirectly, Refused, TestDone, SpuriousClient
  <1>4. ASSUME NEW d \in Clients, enqueue(d)  PROVE Phases'
    BY <1>4 DEF Phases, enqueue
  <1>5. ASSUME NEW d \in Clients, client_done(d)  PROVE Phases'
    BY <1>5 DEF Phases, client_done
  <1>6. CASE Spawn \/ AcceptLoopEnds \/ Die
    BY <1>6 DEF Phases, Spawn, AcceptLoopEnds, Die
  <1>7. CASE StopWorker \/ JoinWorker
    BY <1>7 DEF Phases, StopWorker, JoinWorker
  <1>8. CASE AwaitClients \/ Close \/ SpuriousMain
    BY <1>8 DEF Phases, AwaitClients, Close, SpuriousMain
  <1>9. CASE dequeue \/ FinishJob
    BY <1>9 DEF Phases, dequeue, FinishJob, JobsTypeOK
  <1>10. CASE DequeueSleeps \/ SpuriousWorker \/ DequeueNull
    BY <1>10 DEF Phases, DequeueSleeps, SpuriousWorker, DequeueNull
  <1>11. QED
    BY <1>1, <1>2, <1>3, <1>4, <1>5, <1>6, <1>7, <1>8, <1>9, <1>10
    DEF JobsNext, ClientStep, Plain, MainStep, WorkerStep

-----------------------------------------------------------------------------
LEMMA InitCounting == JobsInit => Counting
  <1> SUFFICES ASSUME JobsInit PROVE Counting
    OBVIOUS
  <1>1. Held = {}
    BY DEF JobsInit, Held, Alive
  <1>2. QED  BY <1>1, FS_EmptySet DEF JobsInit, Counting

(* A thread that starts, one that ends, and steps of threads that stay.     *)
LEMMA SpawnCounting ==
    ASSUME JobsTypeOK, Ownership, Phases, Counting, Spawn
    PROVE  Counting'
  <1>1. PICK c \in Clients : accepted = {c}
    BY DEF Phases, Spawn
  <1>2. client[c] = "new" /\ c \notin Held
    BY <1>1 DEF Ownership, Held, Alive
  <1>3. CASE clients' = clients + 1
             /\ client' = [e \in Clients |-> IF e \in accepted THEN "reading" ELSE client[e]]
    <2>1. Held' = Held \cup {c}
      BY <1>1, <1>3 DEF Held, Alive, JobsTypeOK
    <2>2. IsFiniteSet(Held') /\ Cardinality(Held') = Cardinality(Held) + 1
      BY <1>2, <2>1, FS_AddElement DEF Counting
    <2>3. QED  BY <1>3, <2>2 DEF Counting, Spawn
  <1>4. CASE clients' = clients
             /\ client' = [e \in Clients |-> IF e \in accepted THEN "gone" ELSE client[e]]
    <2>1. Held' = Held
      BY <1>1, <1>2, <1>4 DEF Held, Alive, JobsTypeOK
    <2>2. QED  BY <1>4, <2>1 DEF Counting, Spawn
  <1>5. QED  BY <1>3, <1>4 DEF Spawn

LEMMA DoneCounting ==
    ASSUME JobsTypeOK, Counting, NEW c \in Clients, client_done(c)
    PROVE  Counting'
  <1>1. c \in Held /\ Held' = Held \ {c}
    BY DEF client_done, Held, Alive, JobsTypeOK
  <1>2. IsFiniteSet(Held') /\ Cardinality(Held') = Cardinality(Held) - 1
    BY <1>1, FS_RemoveElement DEF Counting
  <1>3. Cardinality(Held) \in Nat /\ Cardinality(Held) # 0
    BY <1>1, FS_CardinalityType, FS_EmptySet DEF Counting
  <1>4. QED  BY <1>2, <1>3 DEF Counting, client_done

LEMMA QuietCounting ==
    ASSUME JobsTypeOK, Ownership, Counting,
           \/ stop_signal_handler \/ StopWorker \/ JoinWorker \/ AwaitClients \/ SpuriousMain
           \/ Close \/ dequeue \/ DequeueSleeps \/ DequeueNull \/ SpuriousWorker
    PROVE  Counting'
  <1> USE DEF stop_signal_handler, StopWorker, JoinWorker, AwaitClients, SpuriousMain, Close,
              dequeue, DequeueSleeps, DequeueNull, SpuriousWorker
  <1>1. client' = client /\ clients' = clients
    OBVIOUS
  <1>2. Held' = Held
    BY <1>1 DEF Held
  <1>3. clients \in Nat
    BY DEF JobsTypeOK
  <1>4. main' \in {"persist", "closed"} => main \in {"persist", "closed"} \/ clients = 0
    BY <1>3
  <1>5. QED  BY <1>1, <1>2, <1>4 DEF Counting

LEMMA StayCounting ==
    ASSUME JobsTypeOK, Ownership, Counting,
           \/ FinishJob \/ AcceptLoopEnds
           \/ \E c \in Clients : Accept(c) \/ Plain(c) \/ enqueue(c)
    PROVE  Counting'
  <1>1. Held' = Held
    <2>1. ASSUME NEW c \in Clients, Plain(c)  PROVE Held' = Held
      BY <2>1 DEF Held, Alive, JobsTypeOK, Plain, AnswerDirectly, Refused, TestDone,
                  SpuriousClient
    <2>2. ASSUME NEW c \in Clients, enqueue(c) \/ Accept(c)  PROVE Held' = Held
      BY <2>2 DEF Held, Alive, JobsTypeOK, enqueue, Accept
    <2>3. CASE FinishJob
      BY <2>3 DEF Held, Alive, JobsTypeOK, FinishJob
    <2>4. CASE AcceptLoopEnds
      BY <2>4 DEF Held, Alive, JobsTypeOK, Ownership, AcceptLoopEnds
    <2>5. QED  BY <2>1, <2>2, <2>3, <2>4
  <1>2. clients' = clients /\ main' \in {main, "drain", "accepted"}
    BY DEF Plain, AnswerDirectly, Refused, TestDone, SpuriousClient, enqueue, Accept, FinishJob,
           AcceptLoopEnds
  <1>3. QED  BY <1>1, <1>2 DEF Counting

LEMMA DieCounting ==
    ASSUME JobsTypeOK, Die
    PROVE  Counting'
  <1>1. Held' = {}
    BY DEF Die, Held, Alive, JobsTypeOK
  <1>2. QED  BY <1>1, FS_EmptySet DEF Die, Counting

-----------------------------------------------------------------------------
IInv == JobsTypeOK /\ Ownership /\ Phases /\ Counting

LEMMA StepKeeps ==
    ASSUME IInv, JobsNext
    PROVE  IInv'
  <1> USE DEF IInv
  <1>1. Phases'
    BY PhasesKept
  <1>2. CASE stop_signal_handler \/ SpuriousMain \/ StopWorker \/ JoinWorker \/ AwaitClients \/ Close
    BY <1>1, <1>2, MainTypes, MainOwnership, QuietCounting
  <1>3. CASE WorkerStep \/ SpuriousWorker
    BY <1>1, <1>3, WorkerTypes, WorkerOwnership, QuietCounting, StayCounting DEF WorkerStep
  <1>4. ASSUME NEW c \in Clients, Accept(c)  PROVE IInv'
    BY <1>1, <1>4, AcceptTypes, AcceptOwnership, StayCounting
  <1>5. ASSUME NEW c \in Clients, ClientStep(c) \/ SpuriousClient(c)  PROVE IInv'
    BY <1>1, <1>5, ClientTypes, ClientOwnership, StayCounting, DoneCounting
    DEF ClientStep, Plain
  <1>6. CASE Spawn \/ AcceptLoopEnds \/ Die
    BY <1>1, <1>6, AcceptTypes, AcceptOwnership, SpawnCounting, StayCounting, DieCounting
  <1>7. QED
    BY <1>2, <1>3, <1>4, <1>5, <1>6 DEF JobsNext, MainStep

LEMMA Inductive == JobsSpec => []IInv
  <1>1. JobsInit => IInv
    BY InitTypes, InitPhases, InitCounting DEF IInv
  <1>2. IInv /\ UNCHANGED jobsVars => IInv'
    BY DEF IInv, JobsTypeOK, Ownership, Phases, Counting, JobOutlivesWorker, Queued, Held,
           jobsVars
  <1>3. QED  BY <1>1, <1>2, StepKeeps, PTL DEF JobsSpec

-----------------------------------------------------------------------------
(* Every variable of the server's threads keeps its type; s->clients never    *)
(* goes negative.                                                           *)
THEOREM JobsTypeCorrect == JobsSpec => []JobsTypeOK
  BY Inductive, PTL DEF IInv

(* For any number of connections, whatever wakeups are spurious: a job on a   *)
(* client thread's stack is never reached after its thread has left.        *)
THEOREM JobLifetimeCorrect == JobsSpec => []JobOutlivesWorker
  <1>1. IInv => JobOutlivesWorker
    BY DEF IInv, Ownership
  <1>2. QED  BY <1>1, Inductive, PTL

(* For any number of connections: when main stores the session and frees the  *)
(* server's resources, every other thread has ended.                        *)
THEOREM CloseCorrect == JobsSpec => []NoUseAfterClose
  <1>1. IInv => NoUseAfterClose
    <2> SUFFICES ASSUME IInv, main \in {"persist", "closed"} PROVE NoUseAfterClose
      BY DEF NoUseAfterClose
    <2>1. Held = {}
      BY FS_EmptySet DEF IInv, Counting
    <2>2. QED  BY <2>1 DEF IInv, Phases, Held, NoUseAfterClose
  <1>2. QED  BY <1>1, Inductive, PTL
=============================================================================
