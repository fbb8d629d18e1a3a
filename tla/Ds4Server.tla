----------------------------- MODULE Ds4Server -----------------------------
(***************************************************************************)
(* ds4-server as a whole: the threads of Ds4Jobs around the session and the  *)
(* disk cache of Ds4Cache.  generate_job, one step of Ds4Jobs, is the steps   *)
(* of Ds4Cache from StartJob until its job is idle again; main stores the     *)
(* session before it closes.                                                *)
(***************************************************************************)
EXTENDS Ds4Jobs

CONSTANTS
    Prompts, ToolPrompts, ToolTexts, Sampled, MaxTokens, CtxSize, MinTokens, ColdMaxTokens,
    TrimTokens, AlignTokens, IntervalTokens, PrefillCap, ResumeMin, FileOverhead, MaxToolMap,
    BudgetBytes, MaxJobs, MaxCrashes, MaxErrors

VARIABLES
    session, files, last_store, job, store, jobs, crashes, errors,
    persisted  \* main has called kv_cache_store_current

C == INSTANCE Ds4Cache

diskVars == <<session, files, last_store, job, store, jobs, crashes, errors>>
serverVars == <<jobsVars, diskVars, persisted>>

ServerInit == JobsInit /\ C!CacheInit /\ persisted = FALSE

-----------------------------------------------------------------------------
(* kv_cache_open has returned before the threads start.                     *)
Opening == store.pc = "evict" /\ worker # "generate" /\ ~persisted
Outside == ~Opening /\ UNCHANGED <<diskVars, persisted>>

(* The worker thread: generate_job from dequeue to done.                    *)
StartGenerate == dequeue /\ (\E text \in Prompts : C!StartJob(text)) /\ UNCHANGED persisted
GenerateStep ==
    /\ worker = "generate"
    /\ C!JobStep \/ C!StoreStep
    /\ UNCHANGED <<jobsVars, persisted>>
EndGenerate == job.pc = "idle" /\ store.pc = "off" /\ FinishJob /\ Outside
WorkerIdle == (DequeueSleeps \/ DequeueNull) /\ Outside
WorkerThread == StartGenerate \/ GenerateStep \/ EndGenerate \/ WorkerIdle

(* Mutant: the live session is not stored on the way out.                   *)
PersistBegin_skips ==
    /\ main = "persist" /\ ~persisted
    /\ persisted' = TRUE
    /\ UNCHANGED <<jobsVars, diskVars>>

(* The main thread: kv_cache_open's eviction pass, and the last store.       *)
PersistBegin ==
    /\ main = "persist" /\ ~persisted
    /\ persisted' = TRUE
    /\ C!StorePrefix(session, session.tokens, 0, last_store)
    /\ UNCHANGED <<jobsVars, session, job, jobs, crashes, errors>>
MainStore ==
    /\ worker # "generate"
    /\ C!StoreStep
    /\ UNCHANGED <<jobsVars, persisted>>
Closing == persisted /\ store.pc = "off" /\ Close /\ Outside
MainJobs == (Spawn \/ AcceptLoopEnds \/ StopWorker \/ JoinWorker \/ AwaitClients) /\ Outside
MainThread == PersistBegin \/ MainStore \/ Closing \/ MainJobs

Signal == stop_signal_handler /\ UNCHANGED <<diskVars, persisted>>
Kill == Die /\ C!Crash /\ persisted' = FALSE
Network == (\E c \in Clients : Accept(c)) /\ Outside
Wakeups == (SpuriousMain \/ SpuriousWorker \/ \E c \in Clients : SpuriousClient(c)) /\ Outside
ClientThread(c) == ClientStep(c) /\ Outside

ServerNext ==
    \/ WorkerThread \/ MainThread
    \/ \E c \in Clients : ClientThread(c)
    \/ Network \/ Wakeups \/ Signal \/ Kill

(* Every thread that can run does.                                          *)
ServerSpec ==
    /\ ServerInit
    /\ [][ServerNext]_serverVars
    /\ WF_serverVars(WorkerThread)
    /\ WF_serverVars(MainThread)
    /\ \A c \in Clients : WF_serverVars(ClientThread(c))

-----------------------------------------------------------------------------
(* Properties *)

(* With the cache inside, the threads still behave as Ds4Jobs says; in        *)
(* particular generate_job returns, so that its FinishJob is fair.          *)
ImplementsJobs == JobsSpec

(* README of ds4: "shutdown: when the server exits cleanly".  After a clean   *)
(* exit the valid live session is on disk, whatever request the signal        *)
(* interrupted, unless an I/O error occurred or all the files kept are worth  *)
(* at least as much.                                                        *)
ShutdownPersists ==
    main = "closed" /\ session.valid /\ Len(session.tokens) >= MinTokens /\ errors = 0 =>
        \/ C!Text(session.tokens) \in C!Visible
        \/ C!WorthLeast(session.tokens)
=============================================================================
