----------------------------- MODULE Ds4Cache -----------------------------
(***************************************************************************)
(* ds4-server: the one live session of the inference worker and the disk    *)
(* KV cache beside it.  A file holds the token history and graph of one     *)
(* checkpoint; its name is the hash of the text those tokens render to.     *)
(*                                                                         *)
(* One action is one stretch of generate_job between two points where a     *)
(* crash, a signal or a client can be noticed.  Writing a checkpoint is a    *)
(* subroutine: while store.pc is not "off" the job waits for it.            *)
(*                                                                         *)
(* A text is a sequence of characters, a token a text of one or two         *)
(* characters.  The tokenizer pairs characters, so the model may sample      *)
(* tokens the tokenizer would have merged.  The server keeps one context     *)
(* size and one quantisation throughout.                                    *)
(***************************************************************************)
EXTENDS Integers, Sequences, FiniteSets, SequencesExt, FiniteSetsExt

CONSTANTS
    Prompts,      \* rendered prompts clients send; a last 0 is the think tag
    ToolPrompts,  \* those of them that declare tools
    ToolTexts,    \* what the client's JSON of a tool call renders back to
    Sampled,      \* tokens the model may sample
    MaxTokens,    \* max_tokens of a request
    CtxSize, MinTokens, ColdMaxTokens, TrimTokens, AlignTokens, IntervalTokens,
    PrefillCap,   \* tokens of a prefill chunk
    ResumeMin,    \* a shorter suffix is decoded token by token
    FileOverhead, \* size of a file beyond one unit a token
    MaxToolMap,   \* largest tool map of a file
    BudgetBytes,
    MaxJobs, MaxCrashes, MaxErrors  \* bounds

VARIABLES
    session,     \* [tokens, valid, graph]: checkpoint, checkpoint_valid and the
                 \* history that the rows of the backend were computed from
    files,       \* text -> [tokens, graph, hits, map, whole], the <sha1>.kv files
    last_store,  \* continued_last_store_tokens
    job,         \* generate_job's locals and where it stands
    store,       \* kv_cache_store_live_prefix: [pc, tokens, note]
    g_stop_requested,
    jobs, crashes, errors

kv == <<session, files, last_store, store>>
cacheVars == <<kv, job, g_stop_requested, jobs, crashes, errors>>

Text(tokens) == FlattenSeq(tokens)
Tokenize(text) ==
    [i \in 1 .. (Len(text) + 1) \div 2 |->
        SubSeq(text, 2 * i - 1, IF 2 * i > Len(text) THEN Len(text) ELSE 2 * i)]
After(text, prefix) == SubSeq(text, Len(prefix) + 1, Len(text))

(* Mutant: the tail of the full prompt's tokens, not of its text.           *)
ExactPrefixAndSuffix_slices(tokens, text) ==
    tokens \o SubSeq(Tokenize(text), Len(tokens) + 1, Len(Tokenize(text)))

(* The exact history of a checkpoint, then the tokens of the remaining text.*)
ExactPrefixAndSuffix(tokens, text) == tokens \o Tokenize(After(text, Text(tokens)))

(* Rows that a failed step or an invalidation left behind: of no history.    *)
Torn == << <<-1>> >>
NoSession == [tokens |-> <<>>, valid |-> FALSE, graph |-> Torn]
NoStore == [pc |-> "off", tokens |-> <<>>, note |-> 0]
NoJob == [pc |-> "idle", prompt |-> <<>>, sync |-> <<>>, cached |-> 0, cold |-> 0,
          chunked |-> FALSE, made |-> 0, tool |-> FALSE]

Larger(a, b) == IF a > b THEN a ELSE b
Smaller(a, b) == IF a < b THEN a ELSE b

(* Mutant: the rows are kept up to where the histories part, and only the    *)
(* tokens are taken back to that point.                                     *)
Computed_in_place(s, tokens) ==
    LET common == LongestCommonPrefix({s.tokens, tokens})
    IN [tokens |-> tokens, valid |-> TRUE,
        graph |-> IF s.valid THEN s.graph \o After(tokens, common) ELSE tokens]

(* The session s once the tokens are computed: behind its rows, if it is     *)
(* valid and they extend it, or from token zero.                            *)
Computed(s, tokens) ==
    [tokens |-> tokens, valid |-> TRUE,
     graph |-> IF s.valid /\ IsPrefix(s.tokens, tokens)
               THEN s.graph \o After(tokens, s.tokens) ELSE tokens]

-----------------------------------------------------------------------------
(* Which prefixes are stored *)

store_len(n) ==
    LET stable == n - TrimTokens
        aligned == IF AlignTokens > 0 THEN stable - (stable % AlignTokens) ELSE stable
    IN IF n > MinTokens + TrimTokens /\ aligned >= MinTokens THEN aligned ELSE n

continued_step ==
    IF AlignTokens > 0
    THEN ((IntervalTokens + AlignTokens - 1) \div AlignTokens) * AlignTokens
    ELSE IntervalTokens

AtFrontier(n) == continued_step > 0 /\ n >= MinTokens /\ n % continued_step = 0

(* kv_tool_map_write: a text with tool calls may take a map of their ids     *)
(* along.  How many of them the tool memory knows is left open, since         *)
(* client threads restore and prune it.                                     *)
ToolMaps(text) ==
    IF \E p \in ToolPrompts : IsPrefix(p, text) THEN 0 .. MaxToolMap ELSE {0}

(* kv_cache_rewrite_tool_map: when a call of the text is known, the map of    *)
(* the file is cut off and written anew, with what is known by then.  No      *)
(* eviction pass follows.                                                   *)
RewriteToolMap(text) ==
    \E n \in {files[text].map} \cup ToolMaps(text) :
        files' = [files EXCEPT ![text].map = n]

(* kv_cache_store_live_prefix up to the first byte: refused unless the valid *)
(* session stands exactly at the tokens.  A file that is there is kept.      *)
StorePrefix(s, tokens, note, last) ==
    LET able == s.valid /\ s.tokens = tokens /\ Len(tokens) >= MinTokens
        there == Text(tokens) \in DOMAIN files /\ files[Text(tokens)].whole
    IN \/ /\ ~able
          /\ store' = NoStore
          /\ last_store' = last
          /\ UNCHANGED files
       \/ /\ able /\ there
          /\ store' = NoStore
          /\ last_store' = Larger(last, note)
          /\ RewriteToolMap(Text(tokens))
       \/ /\ able /\ ~there
          /\ store' = [pc |-> "write", tokens |-> tokens, note |-> note]
          /\ last_store' = last
          /\ UNCHANGED files

maybe_store_continued(s) ==
    IF AtFrontier(Len(s.tokens)) /\ Len(s.tokens) > last_store
    THEN StorePrefix(s, s.tokens, Len(s.tokens), last_store)
    ELSE UNCHANGED <<files, store, last_store>>

-----------------------------------------------------------------------------
(* Writing a checkpoint and keeping the directory within its budget *)

Size(entry) == FileOverhead + Len(entry.tokens) + entry.map
Visible == {k \in DOMAIN files : files[k].whole}
TotalBytes == MapThenSumSet(LAMBDA k : Size(files[k]), Visible)

(* a's eviction score, (hits + 1) * tokens / file_size, is below b's.       *)
ScoresBelow(a, b) ==
    (a.hits + 1) * Len(a.tokens) * Size(b) < (b.hits + 1) * Len(b.tokens) * Size(a)

Without(f, k) == [x \in DOMAIN f \ {k} |-> f[x]]

(* The temporary file, with the payload of the live session, is complete and *)
(* takes the final name.                                                    *)
StoreRename ==
    /\ store.pc = "write"
    /\ \E n \in ToolMaps(Text(store.tokens)) :
          files' = [k \in DOMAIN files \cup {Text(store.tokens)} |->
                      IF k = Text(store.tokens)
                      THEN [tokens |-> session.tokens, graph |-> session.graph,
                            hits |-> 0, map |-> n, whole |-> TRUE]
                      ELSE files[k]]
    /\ store' = [store EXCEPT !.pc = "evict"]
    /\ UNCHANGED <<session, last_store, job, g_stop_requested, jobs, crashes, errors>>

(* A write or the rename fails: the temporary file is unlinked.             *)
StoreFails ==
    /\ store.pc = "write"
    /\ errors < MaxErrors
    /\ errors' = errors + 1
    /\ store' = NoStore
    /\ UNCHANGED <<session, files, last_store, job, g_stop_requested, jobs, crashes>>

(* kv_cache_evict unlinks the entry of least score; equal scores are told    *)
(* apart by a clock of one second, so any of them may go.                   *)
EvictOne ==
    /\ store.pc = "evict"
    /\ TotalBytes > BudgetBytes
    /\ \E k \in Visible :
          /\ \A j \in Visible : ~ScoresBelow(files[j], files[k])
          /\ files' = Without(files, k)
    /\ UNCHANGED <<session, last_store, store, job, g_stop_requested, jobs, crashes, errors>>

(* Mutant: the overhead of one file is not counted.                         *)
EvictEnd_short ==
    /\ store.pc = "evict"
    /\ TotalBytes <= BudgetBytes + FileOverhead
    /\ last_store' = Larger(last_store, store.note)
    /\ store' = NoStore
    /\ UNCHANGED <<session, files, job, g_stop_requested, jobs, crashes, errors>>

(* The total is forgotten when an unlink fails, which ends the pass.        *)
EvictEnd ==
    /\ store.pc = "evict"
    /\ \/ TotalBytes <= BudgetBytes /\ UNCHANGED errors
       \/ TotalBytes > BudgetBytes /\ errors < MaxErrors /\ errors' = errors + 1
    /\ last_store' = Larger(last_store, store.note)
    /\ store' = NoStore
    /\ UNCHANGED <<session, files, job, g_stop_requested, jobs, crashes>>

StoreStep == StoreRename \/ StoreFails \/ EvictOne \/ EvictEnd

-----------------------------------------------------------------------------
(* Reading a checkpoint *)

StoredPrefixes(text) ==
    {k \in Visible : IsPrefix(k, text) /\ Len(files[k].tokens) >= MinTokens}
Longest(keys) == CHOOSE k \in keys : \A j \in keys : Len(j) <= Len(k)

LoadResult(s, f, last, loaded, prompt, error) ==
    [session |-> s, files |-> f, last |-> last, loaded |-> loaded, prompt |-> prompt,
     error |-> error]

(* kv_cache_try_load_text: the longest stored prefix of the text becomes the *)
(* session.  A long one is consumed, a short one counts a hit.  A file that  *)
(* does not read back leaves the session alone (header), or invalid          *)
(* (payload), or invalid and the file unlinked (wrong token count).          *)
LoadResults(text) ==
    IF StoredPrefixes(text) = {}
    THEN {LoadResult(session, files, last_store, 0, Tokenize(text), 0)}
    ELSE LET k == Longest(StoredPrefixes(text))
             e == files[k]
             n == Len(e.tokens)
             kept == [files EXCEPT ![k].hits = @ + 1]
         IN {LoadResult([tokens |-> e.tokens, valid |-> TRUE, graph |-> e.graph],
                        IF ColdMaxTokens > 0 /\ n > ColdMaxTokens
                        THEN Without(files, k) ELSE kept,
                        n, n, ExactPrefixAndSuffix(e.tokens, text), 0),
             LoadResult(session, files, last_store, 0, Tokenize(text), 1),
             LoadResult(NoSession, files, last_store, 0, Tokenize(text), 1),
             LoadResult(NoSession, Without(files, k), last_store, 0, Tokenize(text), 1)}

-----------------------------------------------------------------------------
(* generate_job: find what to reuse *)

Working == store.pc = "off"
ColdStoreLen(cached, n) ==
    IF cached = 0 /\ ColdMaxTokens > 0 /\ n >= MinTokens /\ n <= ColdMaxTokens
    THEN store_len(n) ELSE 0

Phase(cold, n) == IF cold >= MinTokens /\ cold < n THEN "cold" ELSE "full"

TokenHit(text) ==
    session.valid /\ session.tokens # <<>> /\ IsPrefix(session.tokens, Tokenize(text))
TextHit(text) == session.tokens # <<>> /\ IsPrefix(Text(session.tokens), text)

HitMemory(text) ==
    /\ TokenHit(text) \/ TextHit(text)
    /\ job' = [NoJob EXCEPT !.pc = "full", !.prompt = text,
                            !.sync = IF TokenHit(text) THEN Tokenize(text)
                                     ELSE ExactPrefixAndSuffix(session.tokens, text),
                            !.cached = Len(session.tokens)]
    /\ UNCHANGED <<files, store, last_store>>

(* Mutant: the live session is not written before it is replaced.           *)
MissMemory_discards(text) ==
    /\ ~TokenHit(text) /\ ~TextHit(text)
    /\ job' = [NoJob EXCEPT !.pc = "load", !.prompt = text]
    /\ last_store' = 0
    /\ UNCHANGED <<files, store>>

(* A miss stores the live session, which is about to be replaced.           *)
MissMemory(text) ==
    /\ ~TokenHit(text) /\ ~TextHit(text)
    /\ job' = [NoJob EXCEPT !.pc = "load", !.prompt = text]
    /\ StorePrefix(session, session.tokens, 0, 0)

StartJob(text) ==
    /\ job.pc = "idle" /\ Working
    /\ jobs < MaxJobs
    /\ jobs' = jobs + 1
    /\ HitMemory(text) \/ MissMemory(text)
    /\ UNCHANGED <<session, g_stop_requested, crashes, errors>>

Load ==
    /\ job.pc = "load" /\ Working
    /\ \E r \in LoadResults(job.prompt) :
          LET n == Len(r.prompt)
              cold == ColdStoreLen(r.loaded, n)
          IN /\ errors + r.error <= MaxErrors
             /\ errors' = errors + r.error
             /\ session' = r.session
             /\ files' = r.files
             /\ last_store' = r.last
             /\ job' = [job EXCEPT !.pc = Phase(cold, n), !.sync = r.prompt,
                                   !.cached = r.loaded, !.cold = cold]
    /\ UNCHANGED <<store, g_stop_requested, jobs, crashes>>

-----------------------------------------------------------------------------
(* generate_job: ds4_session_sync to the cold prefix, then to the prompt *)

Target == IF job.pc = "cold" THEN SubSeq(job.sync, 1, job.cold) ELSE job.sync
Extends == session.valid /\ IsPrefix(session.tokens, Target)
Syncing == job.pc \in {"cold", "full"} /\ Working
Synced == session.valid /\ session.tokens = Target
Chunked ==
    \/ Extends /\ Len(Target) - Len(session.tokens) >= ResumeMin
    \/ ~Extends /\ Len(Target) > PrefillCap

(* A short suffix is decoded token by token: a failure keeps those decoded.  *)
(* A failing prefill keeps the tokens it had.                               *)
FailedSessions(s, tokens, short) ==
    LET kept == IF short THEN Len(s.tokens) .. Len(tokens) - 1 ELSE {}
    IN {[tokens |-> t, valid |-> FALSE, graph |-> Torn] :
          t \in {s.tokens} \cup {SubSeq(tokens, 1, i) : i \in kept}}

EndJob == job' = NoJob

SyncTooLong ==
    /\ Syncing /\ Len(Target) >= CtxSize
    /\ EndJob
    /\ UNCHANGED <<kv, g_stop_requested, jobs, crashes, errors>>

SyncAtOnce ==
    /\ Syncing /\ Len(Target) < CtxSize /\ ~Synced /\ ~Chunked /\ ~job.chunked
    /\ session' = Computed(session, Target)
    /\ UNCHANGED <<files, last_store, store, job, g_stop_requested, jobs, crashes, errors>>

(* A resumed prefill reports where it starts.                               *)
SyncResume ==
    /\ Syncing /\ Len(Target) < CtxSize /\ ~Synced /\ Chunked /\ ~job.chunked
    /\ IF Extends /\ Len(session.tokens) > job.cached
       THEN maybe_store_continued(session) ELSE UNCHANGED <<files, store, last_store>>
    /\ job' = [job EXCEPT !.chunked = TRUE]
    /\ UNCHANGED <<session, g_stop_requested, jobs, crashes, errors>>

(* Mutant: the chunk ends at the multiple before, not after, its start.     *)
SyncChunk_stays ==
    /\ Syncing /\ ~Synced /\ job.chunked
    /\ LET start == IF Extends THEN Len(session.tokens) ELSE 0
           stop == (start \div PrefillCap) * PrefillCap
       IN session' = Computed(session, SubSeq(Target, 1, stop))
    /\ UNCHANGED <<files, last_store, store, job, g_stop_requested, jobs, crashes, errors>>

(* One prefill chunk, up to the next multiple of the chunk size, and the     *)
(* progress callback.                                                       *)
SyncChunk ==
    /\ Syncing /\ ~Synced /\ job.chunked
    /\ LET start == IF Extends THEN Len(session.tokens) ELSE 0
           stop == Smaller((start \div PrefillCap + 1) * PrefillCap, Len(Target))
           s == Computed(session, SubSeq(Target, 1, stop))
       IN /\ session' = s
          /\ IF stop > job.cached THEN maybe_store_continued(s)
                                  ELSE UNCHANGED <<files, store, last_store>>
    /\ UNCHANGED <<job, g_stop_requested, jobs, crashes, errors>>

(* The backend fails: 500.                                                  *)
SyncFails ==
    /\ Syncing /\ Len(Target) < CtxSize /\ ~Synced
    /\ errors < MaxErrors
    /\ errors' = errors + 1
    /\ session' \in FailedSessions(session, Target, Extends /\ ~Chunked /\ ~job.chunked)
    /\ EndJob
    /\ UNCHANGED <<files, last_store, store, g_stop_requested, jobs, crashes>>

SyncEnd ==
    /\ Syncing /\ Len(Target) < CtxSize /\ Synced
    /\ job' = [job EXCEPT !.pc = IF @ = "cold" THEN "full" ELSE "decode", !.chunked = FALSE]
    /\ IF job.cold > 0 /\ job.cold = Len(Target)
       THEN StorePrefix(session, SubSeq(job.sync, 1, job.cold), job.cold, last_store)
       ELSE UNCHANGED <<files, store, last_store>>
    /\ UNCHANGED <<session, g_stop_requested, jobs, crashes, errors>>

-----------------------------------------------------------------------------
(* generate_job: decode, one token an iteration, then canonicalize *)

Tools == job.prompt \in ToolPrompts
Think == ~Tools /\ job.prompt # <<>> /\ Last(job.prompt) = 0
MayDecode ==
    /\ ~g_stop_requested
    /\ job.made < MaxTokens
    /\ Len(session.tokens) < CtxSize

DecodeBegin ==
    /\ job.pc = "decode" /\ Working /\ MayDecode
    /\ IF job.tool THEN UNCHANGED <<files, store, last_store>>
                   ELSE maybe_store_continued(session)
    /\ job' = [job EXCEPT !.pc = "sample"]
    /\ UNCHANGED <<session, g_stop_requested, jobs, crashes, errors>>

(* Length, context or a signal ends the loop, or the client is gone: such a  *)
(* turn is not canonicalized.                                               *)
DecodeEnd ==
    /\ job.pc = "decode" /\ Working
    /\ EndJob
    /\ UNCHANGED <<kv, g_stop_requested, jobs, crashes, errors>>

(* A token joins the session.  In a request with tools it may open a call,   *)
(* or close one, which ends the turn.                                       *)
Sample ==
    /\ job.pc = "sample" /\ Working
    /\ \E token \in Sampled :
          session' = [session EXCEPT !.tokens = Append(@, token),
                                     !.graph = Append(@, token)]
    /\ \/ job' = [job EXCEPT !.pc = "decode", !.made = @ + 1]
       \/ Tools /\ job' = [job EXCEPT !.pc = "decode", !.made = @ + 1, !.tool = TRUE]
       \/ Tools /\ job' = [job EXCEPT !.pc = "canon", !.made = @ + 1, !.tool = TRUE]
    /\ UNCHANGED <<files, last_store, store, g_stop_requested, jobs, crashes, errors>>

(* End of sequence: a thinking turn is canonicalized.                       *)
SampleEos ==
    /\ job.pc = "sample" /\ Working
    /\ job' = IF Think THEN [job EXCEPT !.pc = "canon"] ELSE NoJob
    /\ UNCHANGED <<kv, g_stop_requested, jobs, crashes, errors>>

(* A stop string was sampled: the session holds more than the answer.       *)
SampleStop ==
    /\ job.pc = "sample" /\ Working
    /\ session' = NoSession
    /\ EndJob
    /\ UNCHANGED <<files, last_store, store, g_stop_requested, jobs, crashes, errors>>

SampleFails ==
    /\ job.pc = "sample" /\ Working
    /\ errors < MaxErrors
    /\ errors' = errors + 1
    /\ session' = [session EXCEPT !.valid = FALSE, !.graph = Torn]
    /\ EndJob
    /\ UNCHANGED <<files, last_store, store, g_stop_requested, jobs, crashes>>

(* The text the next request will have for this turn: the reasoning and the  *)
(* think tag are dropped, or the tool call is rendered from its JSON.        *)
Stable == IF Think THEN Front(job.prompt) ELSE job.prompt
Canonical ==
    LET answer == After(Text(session.tokens), job.prompt)
    IN IF Think THEN {Stable \o SubSeq(answer, i, Len(answer)) : i \in 1 .. Len(answer) + 1}
                ELSE {job.prompt \o t : t \in ToolTexts}

(* ds4_session_sync without a progress callback, from s.                    *)
SyncResults(s, tokens) ==
    LET short == s.valid /\ IsPrefix(s.tokens, tokens) /\ Len(tokens) - Len(s.tokens) < ResumeMin
    IN IF Len(tokens) >= CtxSize THEN {[session |-> s, error |-> 0]}
       ELSE {[session |-> Computed(s, tokens), error |-> 0]}
              \cup {[session |-> f, error |-> 1] : f \in FailedSessions(s, tokens, short)}

(* The live tail is extended in place, or replaced from an older checkpoint  *)
(* on disk or from token zero.                                              *)
Rewritten(tokens) ==
    {[session |-> y.session, files |-> files, last |-> last_store, error |-> y.error] :
        y \in SyncResults(session, tokens)}
Rebuilt(text) ==
    UNION {{[session |-> y.session, files |-> r.files, last |-> r.last,
             error |-> r.error + y.error] :
               y \in SyncResults(IF r.loaded > 0 THEN r.session ELSE NoSession, r.prompt)} :
           r \in LoadResults(text)}

canonicalize(text) ==
    LET tokens == Tokenize(text)
        common == Len(LongestCommonPrefix({tokens, session.tokens}))
        kept == \/ tokens = session.tokens
                \/ Tools /\ text = Text(session.tokens)
                \/ common < Len(Tokenize(Stable))
        results == IF common = Len(session.tokens) THEN Rewritten(tokens) ELSE Rebuilt(text)
    IN IF kept \/ Len(tokens) >= CtxSize
       THEN UNCHANGED <<session, files, last_store, errors>>
       ELSE \E r \in results :
               /\ errors + r.error <= MaxErrors
               /\ errors' = errors + r.error
               /\ session' = r.session
               /\ files' = r.files
               /\ last_store' = r.last

(* Not if the call does not parse, the turn ended inside its reasoning or a  *)
(* signal came meanwhile.                                                   *)
Canonicalize ==
    /\ job.pc = "canon" /\ Working
    /\ \/ \E text \in Canonical : canonicalize(text)
       \/ UNCHANGED <<session, files, last_store, errors>>
    /\ EndJob
    /\ UNCHANGED <<store, g_stop_requested, jobs, crashes>>

JobStep ==
    \/ Load \/ SyncTooLong \/ SyncAtOnce \/ SyncResume \/ SyncChunk \/ SyncFails \/ SyncEnd
    \/ DecodeBegin \/ DecodeEnd \/ Sample \/ SampleEos \/ SampleStop \/ SampleFails
    \/ Canonicalize

-----------------------------------------------------------------------------
(* Start, signal and crash *)

(* The process starts over: kv_cache_open runs an eviction pass.            *)
Reopen ==
    /\ session' = NoSession
    /\ last_store' = 0
    /\ store' = [NoStore EXCEPT !.pc = "evict"]
    /\ EndJob
    /\ g_stop_requested' = FALSE

(* The process dies (a second signal, a crash, a power loss) and is started  *)
(* again.  Files are not fsynced: a power loss may leave one of them short.  *)
Crash ==
    /\ crashes < MaxCrashes
    /\ crashes' = crashes + 1
    /\ Reopen
    /\ \/ UNCHANGED files
       \/ \E k \in Visible : files' = [files EXCEPT ![k].whole = FALSE]
    /\ UNCHANGED <<jobs, errors>>

CacheInit ==
    /\ session = NoSession
    /\ files = <<>>
    /\ last_store = 0
    /\ job = NoJob
    /\ store = [NoStore EXCEPT !.pc = "evict"]
    /\ g_stop_requested = FALSE
    /\ jobs = 0 /\ crashes = 0 /\ errors = 0

Next ==
    \/ \E text \in Prompts : StartJob(text)
    \/ JobStep
    \/ StoreStep
    \/ Crash

Spec == CacheInit /\ [][Next]_cacheVars

-----------------------------------------------------------------------------
(* Properties *)

(* What the model decodes from is the request: whether the history came from *)
(* memory by tokens, from memory by text, from a file sampled in another     *)
(* spelling, or from a cold prefill cut in two, the valid session renders to *)
(* the prompt followed by what was sampled.                                 *)
DecodesItsPrompt ==
    job.pc \in {"decode", "sample", "canon"} =>
        /\ session.valid
        /\ IsPrefix(job.prompt, Text(session.tokens))
        /\ job.made = 0 => Text(session.tokens) = job.prompt

(* "A DS4 session checkpoint is more than a token vector": the tokens of a    *)
(* valid session and of every file are the history that its rows were        *)
(* computed from, and they render to the name of the file.  So it stays       *)
(* when a request hits tokens that a failed step left behind, when a prompt   *)
(* parts from the session or a call is rewritten, through stores in the       *)
(* middle of a prefill, loads and restarts.                                 *)
CheckpointsAreExact ==
    /\ session.valid => session.graph = session.tokens
    /\ \A k \in DOMAIN files :
          files[k].graph = files[k].tokens /\ Text(files[k].tokens) = k

MapBytes == MapThenSumSet(LAMBDA k : files[k].map, Visible)

(* --kv-disk-space-mb: outside a store the checkpoints that count fit the     *)
(* budget, a crash between a rename and its eviction pass included.  What     *)
(* may exceed it is the tool maps, which a store into an existing file        *)
(* rewrites without a pass; apart from that, only an unlink that failed       *)
(* leaves more.                                                             *)
WithinBudget == store.pc = "off" /\ errors = 0 => TotalBytes - MapBytes <= BudgetBytes

(* generate_job: "Persist the current checkpoint first, otherwise a cache    *)
(* hit for an older prefix would silently discard the newer conversation     *)
(* state."  When a job replaces a valid session, that session is on disk,    *)
(* unless an I/O error occurred or the eviction pass found it worth least.   *)
Discards ==
    /\ job.pc \in {"load", "cold", "full"}
    /\ session.valid /\ Len(session.tokens) >= MinTokens
    /\ ~IsPrefix(session.tokens, session'.tokens)
    /\ crashes' = crashes
WorthLeast(tokens) ==
    \E n \in ToolMaps(Text(tokens)) :
        LET entry == [tokens |-> tokens, hits |-> 0, map |-> n]
        IN /\ TotalBytes + Size(entry) > BudgetBytes
           /\ \A k \in Visible : ~ScoresBelow(files[k], entry)
ReplacedSessionIsOnDisk ==
    [][Discards =>
          \/ Text(session.tokens) \in Visible
          \/ errors' > 0
          \/ WorthLeast(session.tokens)]_cacheVars
=============================================================================
