--------------------------- MODULE CapabilityCache ---------------------------
(***************************************************************************)
(* The web process's copy of the broker's capability set: the cache of     *)
(* internal/web/capabilities.go and the handlers of internal/web/server.go *)
(* that fill it and mark it stale, against a broker that goes away and     *)
(* comes back with another set and without its sessions.                   *)
(*                                                                         *)
(* A capability set is the number of the broker process that advertises    *)
(* it, and so is a session: 0 is the empty set and no session.             *)
(***************************************************************************)
EXTENDS Naturals

CONSTANTS Browsers,   \* each with one request at a time
          MaxRestarts

ASSUME RestartsAssumption == MaxRestarts \in Nat

VARIABLES gen,       \* the current broker process
          reachable, \* it answers
          cached,    \* capabilityCache.caps
          down,      \* capabilityCache.down
          cookie,    \* the browser's session
          ended,     \* that session has ended in the broker that made it
          pc,        \* where its request is
          token,     \* the session the request uses
          got,       \* the set the request has fetched
          overtaken, \* history: the set of an earlier broker was stored
          refused,   \* history: a fetch with a valid session was refused
          emptied    \* history: the web process started anew and has no set yet

cacheVars == <<gen, reachable, cached, down, cookie, ended, pc, token, got, overtaken, refused, emptied>>

CacheTypeOK ==
  /\ gen \in 1..MaxRestarts + 1
  /\ reachable \in BOOLEAN /\ down \in BOOLEAN /\ {overtaken, refused, emptied} \subseteq BOOLEAN
  /\ cached \in 0..gen
  /\ cookie \in [Browsers -> 0..gen]
  /\ pc \in [Browsers -> {"idle", "check", "fetch", "set", "note", "serve", "noteIdle"}]
  /\ ended \in [Browsers -> BOOLEAN]
  /\ token \in [Browsers -> 0..gen]
  /\ got \in [Browsers -> 0..gen]

CacheInit ==
  /\ gen = 1 /\ reachable = TRUE
  /\ cached = 0 /\ down = FALSE
  /\ cookie = [b \in Browsers |-> 0]
  /\ ended = [b \in Browsers |-> FALSE]
  /\ pc = [b \in Browsers |-> "idle"]
  /\ token = [b \in Browsers |-> 0]
  /\ got = [b \in Browsers |-> 0]
  /\ overtaken = FALSE /\ refused = FALSE /\ emptied = FALSE

GoesTo(b, next) == pc' = [pc EXCEPT ![b] = next]

BrokerStops ==
  /\ reachable /\ gen <= MaxRestarts
  /\ reachable' = FALSE
  /\ UNCHANGED <<gen, cached, down, cookie, pc, token, got, overtaken, refused, emptied, ended>>

BrokerReturns ==
  /\ ~reachable
  /\ reachable' = TRUE /\ gen' = gen + 1
  /\ UNCHANGED <<cached, down, cookie, pc, token, got, overtaken, refused, emptied, ended>>

(* The web process starts anew, with no set and no mark; the browsers keep *)
(* their cookies and send their requests again.                            *)
WebRestart ==
  /\ cached' = 0 /\ down' = FALSE /\ emptied' = TRUE
  /\ pc' = [b \in Browsers |-> "idle"]
  /\ token' = [b \in Browsers |-> 0] /\ got' = [b \in Browsers |-> 0]
  /\ UNCHANGED <<gen, reachable, cookie, overtaken, refused, ended>>

(* The broker ends a session: a time limit, or an account that is gone.  A *)
(* session that ends under a request (FetchRefused) ends after it here.    *)
SessionEnds(b) ==
  /\ pc[b] = "idle" /\ reachable /\ cookie[b] = gen /\ ~ended[b]
  /\ ended' = [ended EXCEPT ![b] = TRUE]
  /\ UNCHANGED <<gen, reachable, cached, down, cookie, pc, token, got, overtaken, refused, emptied>>

(* A call can fail with ErrUnavailable whenever the broker is slow or down.*)
Accepts(b) == reachable /\ token[b] = gen

------------------------------------------------------------------------------
(* login: the broker makes a session, then refreshCapabilities runs.  An   *)
(* unavailable broker changes nothing.                                     *)
Login(b) ==
  /\ pc[b] = "idle" /\ reachable
  /\ token' = [token EXCEPT ![b] = gen]
  /\ GoesTo(b, "fetch")
  /\ UNCHANGED <<gen, reachable, cached, down, cookie, got, overtaken, refused, emptied, ended>>

(* authenticate: Session accepts the cookie.                               *)
SessionAccepted(b) ==
  /\ pc[b] = "idle" /\ reachable /\ cookie[b] = gen /\ ~ended[b]
  /\ token' = [token EXCEPT ![b] = cookie[b]]
  /\ GoesTo(b, "check")
  /\ UNCHANGED <<gen, reachable, cached, down, cookie, got, overtaken, refused, emptied, ended>>

(* Session answers 401: the cookie is cleared.                             *)
SessionRefused(b) ==
  /\ pc[b] = "idle" /\ reachable /\ cookie[b] # 0
  /\ cookie[b] # gen \/ ended[b]
  /\ cookie' = [cookie EXCEPT ![b] = 0]
  /\ ended' = [ended EXCEPT ![b] = FALSE]
  /\ UNCHANGED <<gen, reachable, cached, down, pc, token, got, overtaken, refused, emptied>>

(* Session cannot be asked: noteResult, and 503.                           *)
SessionUnavailable(b) ==
  /\ pc[b] = "idle" /\ cookie[b] # 0
  /\ GoesTo(b, "noteIdle")
  /\ UNCHANGED <<gen, reachable, cached, down, cookie, token, got, overtaken, refused, emptied, ended>>

staleAfterOutage(b) ==
  /\ pc[b] = "check"
  /\ GoesTo(b, IF down THEN "fetch" ELSE "serve")
  /\ UNCHANGED <<gen, reachable, cached, down, cookie, token, got, overtaken, refused, emptied, ended>>

(* refreshCapabilities: the query is answered ...                          *)
Fetched(b) ==
  /\ pc[b] = "fetch" /\ Accepts(b)
  /\ got' = [got EXCEPT ![b] = gen]
  /\ GoesTo(b, "set")
  /\ UNCHANGED <<gen, reachable, cached, down, cookie, token, overtaken, refused, emptied, ended>>

(* ... or refused (the session is gone, or its account is), with no mark   *)
(* on the cache ...                                                        *)
FetchRefused(b) ==
  /\ pc[b] = "fetch" /\ reachable
  /\ refused' = (refused \/ Accepts(b))
  /\ GoesTo(b, "serve")
  /\ UNCHANGED <<gen, reachable, cached, down, cookie, token, got, overtaken, emptied, ended>>

(* ... or the broker is unavailable.                                       *)
FetchUnavailable(b) ==
  /\ pc[b] = "fetch"
  /\ GoesTo(b, "note")
  /\ UNCHANGED <<gen, reachable, cached, down, cookie, token, got, overtaken, refused, emptied, ended>>

set(b) ==
  /\ pc[b] = "set"
  /\ cached' = got[b]
  /\ down' = FALSE
  /\ overtaken' = (overtaken \/ got[b] < gen)
  /\ emptied' = FALSE
  /\ GoesTo(b, "serve")
  /\ UNCHANGED <<gen, reachable, cookie, token, got, refused, ended>>

(* Mutant: the failed fetch leaves no mark.                                *)
FetchFailureUnnoted(b) ==
  /\ pc[b] \in {"note", "noteIdle"}
  /\ down' = (down \/ pc[b] = "noteIdle")
  /\ GoesTo(b, IF pc[b] = "note" THEN "serve" ELSE "idle")
  /\ UNCHANGED <<gen, reachable, cached, cookie, token, got, overtaken, refused, emptied, ended>>

noteResult(b) ==
  /\ pc[b] \in {"note", "noteIdle"}
  /\ down' = TRUE
  /\ GoesTo(b, IF pc[b] = "note" THEN "serve" ELSE "idle")
  /\ UNCHANGED <<gen, reachable, cached, cookie, token, got, overtaken, refused, emptied, ended>>

(* The page is made from the cached set; after a login, the cookie is set. *)
Serve(b) ==
  /\ pc[b] = "serve"
  /\ cookie' = [cookie EXCEPT ![b] = token[b]]
  /\ ended' = [ended EXCEPT ![b] = FALSE]
  /\ GoesTo(b, "idle")
  /\ UNCHANGED <<gen, reachable, cached, down, token, got, overtaken, refused, emptied>>

(* logout: the cookie goes whether or not the broker can be told.          *)
Logout(b) ==
  /\ pc[b] = "serve" /\ cookie[b] = token[b]
  /\ cookie' = [cookie EXCEPT ![b] = 0]
  /\ ended' = [ended EXCEPT ![b] = FALSE]
  /\ GoesTo(b, "idle")
  /\ UNCHANGED <<gen, reachable, cached, down, token, got, overtaken, refused, emptied>>

(* A broker call of the page's own fails.                                  *)
CallUnavailable(b) ==
  /\ pc[b] = "serve"
  /\ GoesTo(b, "note")
  /\ UNCHANGED <<gen, reachable, cached, down, cookie, token, got, overtaken, refused, emptied, ended>>

CacheNext ==
  \/ BrokerStops
  \/ BrokerReturns
  \/ WebRestart
  \/ \E b \in Browsers :
       \/ Login(b)
       \/ SessionAccepted(b) \/ SessionRefused(b) \/ SessionUnavailable(b)
       \/ staleAfterOutage(b)
       \/ Fetched(b) \/ FetchRefused(b) \/ FetchUnavailable(b)
       \/ set(b) \/ noteResult(b)
       \/ Serve(b) \/ CallUnavailable(b) \/ Logout(b) \/ SessionEnds(b)

CacheSpec == CacheInit /\ [][CacheNext]_cacheVars

------------------------------------------------------------------------------
(* A page that is served to a session of the running broker is made from   *)
(* that broker's set, or the cache is marked so that the next request      *)
(* fetches it, as long as no set was stored later than a restart, no       *)
(* authorised fetch was refused, and the web process has had a set.        *)
StaleIsMarked ==
  \A b \in Browsers :
    pc[b] = "serve" /\ token[b] = gen /\ ~(overtaken \/ refused \/ emptied) =>
      cached = gen \/ down

(* An outage logs nobody out: but for a logout, a cookie is cleared only   *)
(* when a running broker does not know the session, or no longer.          *)
OutageKeepsCookie ==
  [][\A b \in Browsers :
       cookie[b] # 0 /\ cookie'[b] = 0 =>
         \/ Logout(b)
         \/ reachable /\ (cookie[b] # gen \/ ended[b])]_cacheVars

(* A stale set is marked, at every moment, and no outage logs anyone out.  *)
CacheRules == [](CacheTypeOK /\ StaleIsMarked) /\ OutageKeepsCookie
==============================================================================
