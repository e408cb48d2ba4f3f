-------------------------- MODULE StorageCollection --------------------------
(***************************************************************************)
(* SystemManager.State (src/internal/modules/storage/manager.go) and the   *)
(* health cache (cache.go): one goroutine per core adapter, then one per   *)
(* enricher, each under its own timeout inside the deadline of the call;   *)
(* results arrive on a buffered channel and race the deadline.  Calls of   *)
(* several users run at the same time and share the cache, which stamps a  *)
(* result with the time of storing.                                        *)
(*                                                                         *)
(* A collection is a process that is killed when its context ends, but one *)
(* in uninterruptible sleep (a dead disk) is "hung": it returns an error   *)
(* later or never.  seen is the time at which a collection began, the      *)
(* earliest at which it can have looked at the disk.                       *)
(***************************************************************************)
EXTENDS Naturals, Sequences, FiniteSets, Functions

CONSTANTS Calls, Cores, Optional, Cached, TTL, CollectTimeout, OverallTimeout, MaxTime

VARIABLES
    now,
    call,    \* of a State call: pc, began, ended (its context), collected
    work,    \* of its goroutines: at, began, old (the cache entry found), result
    cache    \* the entry of the cached enricher: at, seen; or Nothing

collectionVars == <<now, call, work, cache>>

Nothing == [at |-> 0, seen |-> 0, found |-> FALSE]

Names == Cores \cup Optional

\* The timeouts are durations, and the lists of backends are finite.
ASSUME CollectionAssumption ==
    TTL \in Nat /\ CollectTimeout \in Nat /\ OverallTimeout \in Nat /\ IsFiniteSet(Names)

Outcome(name, err, seen, marked) == [name |-> name, err |-> err, seen |-> seen, marked |-> marked]

TimedOut(name) == Outcome(name, "timeout", 0, FALSE)

NoWork == [at |-> "none", began |-> 0, old |-> Nothing, result |-> TimedOut("")]

NoCall == [pc |-> "idle", began |-> 0, ended |-> FALSE, collected |-> <<>>]

Received(c) == {call[c].collected[i].name : i \in DOMAIN call[c].collected}

Expected(c) == IF call[c].pc = "core" THEN Cores ELSE Names

OverallDone(c) == call[c].ended \/ now >= call[c].began + OverallTimeout

Expired(w) == now >= w.began + CollectTimeout

CollectionInit ==
    /\ now = 0
    /\ call = [c \in Calls |-> NoCall]
    /\ work = [c \in Calls |-> [n \in Names |-> NoWork]]
    /\ cache = Nothing

\* A request for the inventory: the goroutines of the core adapters start.
StateBegins(c) ==
    /\ call[c].pc = "idle"
    /\ now + OverallTimeout <= MaxTime
    /\ call' = [call EXCEPT ![c] = [NoCall EXCEPT !.pc = "core", !.began = now]]
    /\ work' = [work EXCEPT ![c] = [n \in Names |->
                   IF n \in Cores THEN [NoWork EXCEPT !.at = "run", !.began = now] ELSE NoWork]]
    /\ UNCHANGED <<now, cache>>

-----------------------------------------------------------------------------
(* The goroutines: collectEnricher, Adapter.Collect *)

fresh == cache.found /\ now - cache.at < TTL

\* HealthCache.Load, and the start of the collection if there is no fresh entry.
Load(c, n) ==
    /\ work[c][n].at = "load"
    /\ work' = [work EXCEPT ![c][n] =
          IF n \in Cached /\ fresh
          THEN [@ EXCEPT !.at = "sent", !.result = Outcome(n, "", cache.seen, FALSE)]
          ELSE [@ EXCEPT !.at = "run", !.began = now, !.old = IF n \in Cached THEN cache ELSE Nothing]]
    /\ UNCHANGED <<now, call, cache>>

\* HealthCache.Store of a result collected since seen.
Store(seen) == cache' = [at |-> now, seen |-> seen, found |-> TRUE]

Collected(c, n) ==
    LET w == work[c][n]
    IN  /\ w.at = "run"
        /\ ~Expired(w) /\ ~OverallDone(c)
        /\ work' = [work EXCEPT ![c][n].at = "sent", ![c][n].result = Outcome(n, "", w.began, FALSE)]
        /\ IF n \in Cached THEN Store(w.began) ELSE UNCHANGED cache
        /\ UNCHANGED <<now, call>>

\* What is sent after a failure: the entry found before, marked, or nothing.
failedOutcome(n, w) ==
    LET err == IF Expired(w) THEN "timeout" ELSE "error"
    IN  IF w.old.found THEN Outcome(n, err, w.old.seen, TRUE) ELSE Outcome(n, err, 0, FALSE)

\* Mutant: a failed refresh is cached as if it had succeeded.
CollectFailsCached(c, n) ==
    /\ work[c][n].at \in {"run", "hung"}
    /\ work[c][n].at = "hung" => Expired(work[c][n]) \/ OverallDone(c)
    /\ work' = [work EXCEPT ![c][n].at = "sent",
                            ![c][n].result = failedOutcome(n, work[c][n])]
    /\ IF work[c][n].old.found THEN Store(work[c][n].old.seen) ELSE UNCHANGED cache
    /\ UNCHANGED <<now, call>>

CollectFails(c, n) ==
    /\ work[c][n].at \in {"run", "hung"}
    /\ work[c][n].at = "hung" => Expired(work[c][n]) \/ OverallDone(c)
    /\ work' = [work EXCEPT ![c][n].at = "sent",
                            ![c][n].result = failedOutcome(n, work[c][n])]
    /\ UNCHANGED <<now, call, cache>>

Hang(c, n) ==
    /\ work[c][n].at = "run"
    /\ work' = [work EXCEPT ![c][n].at = "hung"]
    /\ UNCHANGED <<now, call, cache>>

-----------------------------------------------------------------------------
(* The select loops of State *)

Receive(c, n) ==
    /\ call[c].pc \in {"core", "enrich"}
    /\ Received(c) # Expected(c)
    /\ work[c][n].at = "sent"
    /\ n \notin Received(c)
    /\ call' = [call EXCEPT ![c].collected = Append(@, work[c][n].result)]
    /\ work' = [work EXCEPT ![c][n] = [NoWork EXCEPT !.at = "over"]]
    /\ UNCHANGED <<now, cache>>

\* Mutant: every backend is marked, those that have answered included.
missingAll(c) == Expected(c)

missing(c) == Expected(c) \ Received(c)

\* They are gone through in one order, that of the manager's list.
ListingOf(S) == CHOOSE f \in Bijection(1..Cardinality(S), S) : TRUE

\* Mutant: the loop waits for the processes it started to end.
ExpireWithTools(c) ==
    /\ call[c].pc \in {"core", "enrich"}
    /\ Received(c) # Expected(c)
    /\ OverallDone(c) /\ \A n \in missing(c) : work[c][n].at # "hung"
    /\ LET late == ListingOf(missing(c))
       IN  call' = [call EXCEPT ![c].collected = @ \o [i \in DOMAIN late |-> TimedOut(late[i])]]
    /\ UNCHANGED <<now, work, cache>>

Expire(c) ==
    /\ call[c].pc \in {"core", "enrich"}
    /\ Received(c) # Expected(c)
    /\ OverallDone(c)
    /\ LET late == ListingOf(missing(c))
       IN  call' = [call EXCEPT ![c].collected = @ \o [i \in DOMAIN late |-> TimedOut(late[i])]]
    /\ UNCHANGED <<now, work, cache>>

\* The core is complete: give up if one failed, else start the enrichers.
StartEnrichers(c) ==
    /\ call[c].pc = "core"
    /\ Received(c) = Cores
    /\ IF \E i \in DOMAIN call[c].collected : call[c].collected[i].err # ""
       THEN /\ call' = [call EXCEPT ![c].pc = "failed", ![c].ended = TRUE]
            /\ UNCHANGED work
       ELSE /\ call' = [call EXCEPT ![c].pc = "enrich"]
            /\ work' = [work EXCEPT ![c] = [n \in Names |->
                           IF n \in Optional THEN [NoWork EXCEPT !.at = "load"] ELSE @[n]]]
    /\ UNCHANGED <<now, cache>>

\* normalize and return; the deferred cancel ends the contexts of the rest.
Return(c) ==
    /\ call[c].pc = "enrich"
    /\ Received(c) = Names
    /\ call' = [call EXCEPT ![c].pc = "done", ![c].ended = TRUE]
    /\ UNCHANGED <<now, work, cache>>

\* The browser leaves: the context of the query is cancelled.
Leave(c) ==
    /\ call[c].pc \in {"core", "enrich"} /\ ~call[c].ended
    /\ call' = [call EXCEPT ![c].ended = TRUE]
    /\ UNCHANGED <<now, work, cache>>

\* A call that is over and has no goroutine left makes room for another.
Again(c) ==
    /\ call[c].pc \in {"done", "failed"}
    /\ \A n \in Names : work[c][n].at \in {"none", "sent", "over"}
    /\ call' = [call EXCEPT ![c] = NoCall]
    /\ work' = [work EXCEPT ![c] = [n \in Names |-> NoWork]]
    /\ UNCHANGED <<now, cache>>

\* Time passes; a collection that is not hung does not outlive its context.
Tick ==
    /\ now < MaxTime
    /\ \A c \in Calls, n \in Names :
          work[c][n].at = "run" => ~Expired(work[c][n]) /\ ~OverallDone(c)
    /\ now' = now + 1
    /\ UNCHANGED <<call, work, cache>>

CollectionNext ==
    \/ Tick
    \/ \E c \in Calls : StateBegins(c) \/ Expire(c) \/ StartEnrichers(c) \/ Return(c) \/ Leave(c) \/ Again(c)
    \/ \E c \in Calls, n \in Names :
          Load(c, n) \/ Collected(c, n) \/ CollectFails(c, n) \/ Hang(c, n) \/ Receive(c, n)

CollectionSpec == CollectionInit /\ [][CollectionNext]_collectionVars

\* A process that is not hung ends, select serves what is ready, time goes on.
\* Nothing is owed for a hung process, and nobody has to ask again.
CallFairness ==
    /\ \A c \in Calls : WF_collectionVars(Expire(c) \/ StartEnrichers(c) \/ Return(c))
    /\ \A c \in Calls, n \in Names :
          /\ WF_collectionVars(Load(c, n))
          /\ WF_collectionVars(work[c][n].at = "run" /\ (Collected(c, n) \/ CollectFails(c, n)))
          /\ WF_collectionVars(Receive(c, n))

CollectionFairness == WF_collectionVars(Tick) /\ CallFairness

-----------------------------------------------------------------------------
(* Properties *)

\* A snapshot reports every backend exactly once, with a result or as failed,
\* although answers race the deadline and arrive after it; it has a result of
\* every core adapter; and an answer that is marked stale is a failed refresh.
AnswersAreComplete ==
    \A c \in Calls :
        /\ Len(call[c].collected) = Cardinality(Received(c))
        /\ call[c].pc = "done" =>
              /\ Received(c) = Names
              /\ \A i \in DOMAIN call[c].collected :
                    /\ call[c].collected[i].name \in Cores => call[c].collected[i].err = ""
                    /\ call[c].collected[i].marked => call[c].collected[i].err # ""

\* Health shown without the stale mark was read from the disk less than the
\* cache's lifetime and one collection before the request: storing a slow
\* collection over a newer one, or serving an entry, never makes it older.
HealthIsFreshOrMarked ==
    \A c \in Calls : call[c].pc = "done" =>
        \A i \in DOMAIN call[c].collected :
            LET o == call[c].collected[i]
            IN  o.err = "" => o.seen + TTL + CollectTimeout > call[c].began

\* A request for the inventory is answered, even if a tool hangs for ever.
StateEnds ==
    \A c \in Calls : call[c].pc \in {"core", "enrich"} ~> call[c].pc \in {"done", "failed"}
=============================================================================
