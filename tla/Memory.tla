------------------------------- MODULE Memory -------------------------------
(***************************************************************************)
(* What Server2 remembers about one user and one session: the table of     *)
(* turns and its compressed summary (memory/session.py, summarizer.py), the *)
(* profile facts (facts.py) and the cached warm profile made of them       *)
(* (warm.py).                                                              *)
(*                                                                         *)
(* Everything awaits Postgres, Redis or the model between any two steps:   *)
(* compression passes (background tasks), calls of set_fact (made by       *)
(* passes, by finished sub-agents and by replies) and builds of the warm   *)
(* profile (made by every turn) interleave there. A call of a database is  *)
(* one step and may fail; the process may die and start again.             *)
(***************************************************************************)
EXTENDS Integers, Sequences, FiniteSets

CONSTANTS
  Passes,       (* background tasks _maybe_summarize_session                  *)
  Reports,      (* finished sub-agents whose facts are persisted              *)
  Replies,      (* replies whose [REMEMBER] directives are executed           *)
  Builds,       (* callers of build_warm_profile                              *)
  Keys,         (* keys of facts                                              *)
  WarmKeys,     (* those that affects_warm_profile                            *)
  Batches,      (* the keys one output of a model asks to store, in order     *)
  Keep,         (* summarizer_recent_turn_keep                                *)
  Threshold,    (* summarizer_token_threshold, counted in rows                *)
  MaxRetries,   (* summarizer_max_retries                                     *)
  Disturbances, (* a subset of AllDisturbances                                *)
  NoFact, NoBlock, NoPass,
  MaxTurns      (* bound: rows stored in turns                                *)

(* llm: the summarizer fails or answers no JSON; error: Postgres, Redis or   *)
(* the embedding fails; crash: the process dies.                             *)
AllDisturbances == {"llm", "error", "crash"}

Actors == Passes \cup Reports \cup Replies
Turns == 1 .. MaxTurns

ASSUME KeysAssumption == WarmKeys \subseteq Keys /\ NoFact \notin Actors
ASSUME BatchesAssumption == Batches \subseteq Seq(Keys)
ASSUME PassesAssumption == NoPass \notin Passes /\ Passes \cap (Reports \cup Replies) = {}
ASSUME BlockAssumption == NoBlock \notin [WarmKeys -> Actors \cup {NoFact}]
ASSUME NumbersAssumption ==
  /\ Keep \in Nat \ {0} /\ Threshold \in Nat /\ MaxRetries \in Nat
  /\ MaxTurns \in Nat
ASSUME DisturbancesAssumption == Disturbances \subseteq AllDisturbances

VARIABLES
  stored,   (* rows ever inserted into turns: 1 .. stored, by created_at      *)
  table,    (* those still there                                              *)
  summary,  (* the turns sessions.compressed_summary tells of                 *)
  lock,     (* who holds the lock of the session                              *)
  pass,     (* the compression passes                                         *)
  facts,    (* the active row of each key: whose value it holds               *)
  call,     (* the calls of set_fact each actor makes one after the other     *)
  dirty,    (* whether _dirty_users has the user                              *)
  cache,    (* warm_cache:<user> in Redis                                     *)
  late,     (* history: why the cached block may be stale without a mark      *)
  build     (* the calls of build_warm_profile                                *)

turnVars == <<stored, table, summary>>
passVars == <<lock, pass>>
factVars == <<facts, call>>
warmVars == <<dirty, cache, late, build>>
vars == <<stored, table, summary, lock, pass, facts, call, dirty, cache, late, build>>

-----------------------------------------------------------------------------
(* A pass holds the lock from estimating to the end. It is persisting while  *)
(* its calls of set_fact run.                                                *)
Holding == {"estimating", "reading", "basing", "asking", "updating",
            "persisting", "pruning"}

Pass == [at : {"unused", "gone"} \cup Holding,
         old : SUBSET Turns,    (* the turns it compresses                    *)
         base : SUBSET Turns,   (* the summary it starts from                 *)
         attempt : Nat,
         keys : Seq(Keys)]      (* the facts in the answer of the model       *)

(* Where set_fact stands with the first key of a batch: before its SELECT,   *)
(* its UPDATE, its INSERT, the embedding, and the DEL of mark_dirty.         *)
InCall == {"selecting", "updating", "inserting", "embedding", "marking"}
Call == [at : {"unused", "done"} \cup InCall, todo : Seq(Keys)]

Block == [k \in WarmKeys |-> facts[k]]
Blocks == [WarmKeys -> Actors \cup {NoFact}]
Build == [at : {"idle", "cached", "rows", "writing"}, block : Blocks \cup {NoBlock}]

NewPass == [at |-> "unused", old |-> {}, base |-> {}, attempt |-> 0, keys |-> <<>>]
GonePass == [NewPass EXCEPT !.at = "gone"]
NewCall == [at |-> "unused", todo |-> <<>>]
NewBuild == [at |-> "idle", block |-> NoBlock]

Init ==
  /\ stored = 0 /\ table = {} /\ summary = {}
  /\ lock = NoPass /\ pass = [p \in Passes |-> NewPass]
  /\ facts = [k \in Keys |-> NoFact] /\ call = [a \in Actors |-> NewCall]
  /\ dirty = FALSE /\ cache = NoBlock /\ late = FALSE
  /\ build = [b \in Builds |-> NewBuild]

-----------------------------------------------------------------------------
(* Turns and their compression                                              *)

(* append_turn                                                               *)
AppendTurn ==
  /\ stored < MaxTurns
  /\ stored' = stored + 1
  /\ table' = table \cup {stored + 1}
  /\ UNCHANGED <<summary, passVars, factVars, warmVars>>

(* Mutant: turns[:-keep_recent] is off by one.                               *)
BugOlderOffByOne == {t \in table : Cardinality({u \in table : u > t}) >= Keep - 1}

(* turns_for_summarization: all rows but the last Keep                       *)
Older == {t \in table : Cardinality({u \in table : u > t}) >= Keep}

(* estimate_history_tokens, in rows: the summary counts as one               *)
HistorySize == Cardinality(table) + (IF summary = {} THEN 0 ELSE 1)

Goes(p, at) == pass' = [pass EXCEPT ![p].at = at] /\ UNCHANGED lock

(* The pass returns and with it releases the lock.                           *)
Ends(p) == pass' = [pass EXCEPT ![p] = GonePass] /\ lock' = NoPass

(* Mutant: nobody looks at the lock.                                         *)
BugPassStartsUnlocked(p) ==
  /\ pass[p].at = "unused" /\ stored > 0
  /\ lock' = p /\ pass' = [pass EXCEPT ![p].at = "estimating"]
  /\ UNCHANGED <<turnVars, factVars, warmVars>>

(* A task that schedule_session_summarization has created, at the end of a   *)
(* turn, comes to run _maybe_summarize_session: another pass in flight is    *)
(* enough.                                                                   *)
PassStarts(p) ==
  /\ pass[p].at = "unused" /\ stored > 0
  /\ \/ lock # NoPass /\ Goes(p, "gone")
     \/ lock = NoPass /\ lock' = p /\ pass' = [pass EXCEPT ![p].at = "estimating"]
  /\ UNCHANGED <<turnVars, factVars, warmVars>>

Estimates(p) ==
  /\ pass[p].at = "estimating"
  /\ IF HistorySize < Threshold THEN Ends(p) ELSE Goes(p, "reading")
  /\ UNCHANGED <<turnVars, factVars, warmVars>>

ReadsTurns(p) ==
  /\ pass[p].at = "reading"
  /\ IF Older = {}
       THEN Ends(p)
       ELSE pass' = [pass EXCEPT ![p].at = "basing", ![p].old = Older] /\ UNCHANGED lock
  /\ UNCHANGED <<turnVars, factVars, warmVars>>

ReadsSummary(p) ==
  /\ pass[p].at = "basing"
  /\ pass' = [pass EXCEPT ![p].at = "asking", ![p].base = summary]
  /\ UNCHANGED <<turnVars, lock, factVars, warmVars>>

(* Mutant: attempts are not counted.                                         *)
BugRetriesForever(p) == Goes(p, "asking")

(* The next attempt asks with the messages of the first one; a pass that has *)
(* none left gives up.                                                       *)
Retries(p) ==
  IF pass[p].attempt < MaxRetries
    THEN /\ pass' = [pass EXCEPT ![p].at = "asking", ![p].attempt = @ + 1]
         /\ UNCHANGED lock
    ELSE Ends(p)

(* The model answers a summary and facts, or a summary that is empty.        *)
Summarizes(p) ==
  /\ pass[p].at = "asking"
  /\ \/ Ends(p)
     \/ \E keys \in Batches :
          /\ pass' = [pass EXCEPT ![p].at = "updating", ![p].keys = keys]
          /\ UNCHANGED lock
  /\ UNCHANGED <<turnVars, factVars, warmVars>>

(* The model fails, or answers something that is no JSON.                    *)
AnswersNothing(p) ==
  /\ "llm" \in Disturbances /\ pass[p].at = "asking"
  /\ Retries(p)
  /\ UNCHANGED <<turnVars, factVars, warmVars>>

(* The calls an actor has still to make, of which the first one begins.      *)
Batch(keys) == [at |-> IF keys = <<>> THEN "done" ELSE "selecting", todo |-> keys]

(* update_compressed_summary, then the first call of _persist_extracted_facts *)
UpdatesSummary(p) ==
  /\ pass[p].at = "updating"
  /\ summary' = pass[p].base \cup pass[p].old
  /\ pass' = [pass EXCEPT ![p].at = "persisting", ![p].keys = <<>>] /\ UNCHANGED lock
  /\ call' = [call EXCEPT ![p] = Batch(pass[p].keys)]
  /\ UNCHANGED <<stored, table, facts, warmVars>>

FactsPersisted(p) ==
  /\ pass[p].at = "persisting" /\ call[p].at = "done"
  /\ Goes(p, "pruning")
  /\ UNCHANGED <<turnVars, factVars, warmVars>>

(* Mutant: deletes what is old by now instead of what has been compressed.   *)
BugPrunesWhatIsOld(p) ==
  /\ pass[p].at = "pruning"
  /\ table' = table \ Older
  /\ Ends(p)
  /\ UNCHANGED <<stored, summary, factVars, warmVars>>

(* prune_turns                                                               *)
Prunes(p) ==
  /\ pass[p].at = "pruning"
  /\ table' = table \ pass[p].old
  /\ Ends(p)
  /\ UNCHANGED <<stored, summary, factVars, warmVars>>

(* An exception ends the pass before its loop and is retried inside it.      *)
PassFails(p) ==
  /\ "error" \in Disturbances
  /\ \/ pass[p].at \in {"estimating", "reading", "basing"} /\ Ends(p)
     \/ pass[p].at \in {"updating", "pruning"} /\ Retries(p)
  /\ UNCHANGED <<turnVars, factVars, warmVars>>

-----------------------------------------------------------------------------
(* Facts                                                                    *)

(* extract_facts_from_task, the [REMEMBER]s of execute_directives            *)
BeginCalls(a) ==
  /\ a \in Reports \cup Replies /\ call[a].at = "unused"
  /\ \E keys \in Batches : call' = [call EXCEPT ![a] = Batch(keys)]
  /\ UNCHANGED <<turnVars, passVars, facts, warmVars>>

Key(a) == Head(call[a].todo)
Calling(a, at) == call' = [call EXCEPT ![a].at = at]
Returns(a) == call' = [call EXCEPT ![a] = Batch(Tail(call[a].todo))]

(* Mutant: goes on with the next fact although there may be none.            *)
BugRaisesGoesOn(a) ==
  call' = [call EXCEPT ![a] = [at |-> "selecting", todo |-> Tail(@.todo)]]

(* set_fact raises: passes and reports go on with their next fact, the       *)
(* exception ends the turn of a reply.                                       *)
Raises(a) ==
  call' = [call EXCEPT ![a] = Batch(IF a \in Replies THEN <<>> ELSE Tail(call[a].todo))]

Selects(a) ==
  /\ call[a].at = "selecting"
  /\ Calling(a, IF facts[Key(a)] = NoFact THEN "inserting" ELSE "updating")
  /\ UNCHANGED <<turnVars, passVars, facts, warmVars>>

(* The UPDATE makes superseded_by refer to the row that the INSERT after it  *)
(* would create. The foreign key of the schema is not deferrable, so that    *)
(* Postgres refuses the statement and rolls the transaction back.            *)
Supersedes(a) ==
  /\ call[a].at = "updating"
  /\ Raises(a)
  /\ UNCHANGED <<turnVars, passVars, facts, warmVars>>

(* INSERT and COMMIT. The unique index refuses a second active row.          *)
Inserts(a) ==
  /\ call[a].at = "inserting"
  /\ \/ /\ facts[Key(a)] = NoFact
        /\ facts' = [facts EXCEPT ![Key(a)] = a]
        /\ Calling(a, "embedding")
     \/ facts[Key(a)] # NoFact /\ Raises(a) /\ UNCHANGED facts
  /\ UNCHANGED <<turnVars, passVars, warmVars>>

(* A fact of the profile is committed and mark_dirty has not begun.          *)
Unmarked(a) == call[a].at = "embedding" /\ Key(a) \in WarmKeys

(* Mutant: mark_dirty is forgotten.                                          *)
BugEmbedsUnmarked(a) ==
  /\ call[a].at = "embedding"
  /\ Returns(a)
  /\ UNCHANGED <<turnVars, passVars, facts, warmVars>>

(* The fact is embedded; mark_dirty adds the user before it awaits Redis.    *)
Embeds(a) ==
  /\ call[a].at = "embedding"
  /\ \/ Key(a) \in WarmKeys /\ dirty' = TRUE /\ Calling(a, "marking")
     \/ Key(a) \notin WarmKeys /\ UNCHANGED dirty /\ Returns(a)
  /\ UNCHANGED <<turnVars, passVars, facts, cache, late, build>>

(* mark_dirty: DEL warm_cache:<user>                                         *)
MarkDirty(a) ==
  /\ call[a].at = "marking"
  /\ cache' = NoBlock /\ late' = FALSE
  /\ Returns(a)
  /\ UNCHANGED <<turnVars, passVars, facts, dirty, build>>

CallFails(a) ==
  /\ "error" \in Disturbances /\ call[a].at \in InCall
  /\ Raises(a)
  /\ late' = (late \/ Unmarked(a))
  /\ UNCHANGED <<turnVars, passVars, facts, dirty, cache, build>>

-----------------------------------------------------------------------------
(* The warm profile                                                         *)

BuildStarts(b) ==
  /\ build[b].at = "idle"
  /\ build' = [build EXCEPT ![b].at = IF dirty THEN "rows" ELSE "cached"]
  /\ UNCHANGED <<turnVars, passVars, factVars, dirty, cache, late>>

ReadsCache(b) ==
  /\ build[b].at = "cached"
  /\ build' = [build EXCEPT ![b].at = IF cache = NoBlock THEN "rows" ELSE "idle"]
  /\ UNCHANGED <<turnVars, passVars, factVars, dirty, cache, late>>

ReadsRows(b) ==
  /\ build[b].at = "rows"
  /\ build' = [build EXCEPT ![b] = [at |-> "writing", block |-> Block]]
  /\ UNCHANGED <<turnVars, passVars, factVars, dirty, cache, late>>

WritesCache(b) ==
  /\ build[b].at = "writing"
  /\ cache' = build[b].block /\ late' = (build[b].block # Block)
  /\ dirty' = FALSE
  /\ build' = [build EXCEPT ![b] = NewBuild]
  /\ UNCHANGED <<turnVars, passVars, factVars>>

BuildFails(b) ==
  /\ "error" \in Disturbances /\ build[b].at # "idle"
  /\ build' = [build EXCEPT ![b] = NewBuild]
  /\ UNCHANGED <<turnVars, passVars, factVars, dirty, cache, late>>

(* Redis lets the block expire after _WARM_CACHE_TTL_SECONDS.                *)
CacheExpires ==
  /\ cache # NoBlock
  /\ cache' = NoBlock /\ late' = FALSE
  /\ UNCHANGED <<turnVars, passVars, factVars, dirty, build>>

(* Everything but Postgres and Redis is lost, _dirty_users included.         *)
Crash ==
  /\ "crash" \in Disturbances
  /\ lock' = NoPass
  /\ pass' = [p \in Passes |->
                IF pass[p].at = "unused" THEN NewPass ELSE GonePass]
  /\ call' = [a \in Actors |-> IF call[a].at = "unused" THEN NewCall ELSE Batch(<<>>)]
  /\ dirty' = FALSE /\ late' = (late \/ dirty \/ \E a \in Actors : Unmarked(a))
  /\ build' = [b \in Builds |-> NewBuild]
  /\ UNCHANGED <<turnVars, facts, cache>>

-----------------------------------------------------------------------------
PassStep(p) ==
  \/ Estimates(p) \/ ReadsTurns(p) \/ ReadsSummary(p)
  \/ Summarizes(p) \/ AnswersNothing(p) \/ UpdatesSummary(p) \/ FactsPersisted(p)
  \/ Prunes(p) \/ PassFails(p)

CallStep(a) ==
  Selects(a) \/ Supersedes(a) \/ Inserts(a) \/ Embeds(a) \/ MarkDirty(a) \/ CallFails(a)

BuildStep(b) == ReadsCache(b) \/ ReadsRows(b) \/ WritesCache(b) \/ BuildFails(b)

Next ==
  \/ AppendTurn
  \/ \E p \in Passes : PassStarts(p) \/ PassStep(p)
  \/ \E a \in Actors : BeginCalls(a) \/ CallStep(a)
  \/ \E b \in Builds : BuildStarts(b) \/ BuildStep(b)
  \/ CacheExpires
  \/ Crash

Spec == Init /\ [][Next]_vars

(* The event loop runs what is ready, and what is awaited answers or fails.  *)
(* Nobody has to speak or to remember anything. The client of the model      *)
(* has no timeout: that the model answers is an assumption.                  *)
Fairness ==
  /\ \A p \in Passes : WF_vars(PassStep(p))
  /\ \A a \in Actors : WF_vars(CallStep(a))

FairSpec == Spec /\ Fairness

-----------------------------------------------------------------------------
(* Properties                                                               *)

TypeOK ==
  /\ stored \in 0 .. MaxTurns /\ table \subseteq 1 .. stored /\ summary \subseteq 1 .. stored
  /\ lock \in Passes \cup {NoPass} /\ pass \in [Passes -> Pass]
  /\ facts \in [Keys -> Actors \cup {NoFact}] /\ call \in [Actors -> Call]
  /\ \A a \in Actors : call[a].at \in InCall => call[a].todo # <<>>
  /\ dirty \in BOOLEAN /\ cache \in Blocks \cup {NoBlock} /\ late \in BOOLEAN
  /\ build \in [Builds -> Build]
  /\ \A b \in Builds : build[b].at = "writing" => build[b].block \in Blocks

(* Compression loses nothing: every turn ever stored is still a row or is    *)
(* covered by the summary, whatever fails, is retried or dies between the    *)
(* reading of the rows and their DELETE.                                     *)
NothingForgotten == 1 .. stored \subseteq table \cup summary

(* The last Keep turns, which the prompt of the next turn shows word by word, *)
(* are never compressed away, though turns are stored while a pass runs.     *)
RecentKept == {t \in 1 .. stored : t + Keep > stored} \subseteq table

(* The summary never goes back to an older one: no pass stores what it made  *)
(* of a summary that another pass has replaced since.                        *)
SummaryGrows == [][summary \subseteq summary']_vars

Stale == cache # NoBlock /\ cache # Block

(* A cached profile that is not that of the facts is marked dirty, so that   *)
(* the next build goes to the rows, or the set_fact that made it so has not  *)
(* come to mark it, or mark and cached key have met with one of three        *)
(* things (late): a build that overlaps with set_fact caches what it read    *)
(* before and clears the mark; set_fact fails between COMMIT and mark_dirty;  *)
(* the process dies with its marks. A DEL that fails, or a build that does,  *)
(* is no such thing. Such a block stays for _WARM_CACHE_TTL_SECONDS, or      *)
(* until another fact of the profile is stored.                              *)
StaleIsExplained == Stale => dirty \/ late \/ \E a \in Actors : Unmarked(a)

(* A pass ends and releases the lock, so that the next one is not skipped.   *)
LockIsReleased == lock # NoPass ~> lock = NoPass

(* "Facts are versioned, never overwritten. Old value goes to superseded_by, *)
(* new value becomes active." (PLAN.md): with no error of the database the   *)
(* transaction of set_fact makes its value the active one.                   *)
NewValueBecomesActive ==
  [][\A a \in Actors :
       call[a].at \in {"updating", "inserting"} /\ call'[a] # call[a]
         => facts'[Key(a)] = a]_vars
=============================================================================
