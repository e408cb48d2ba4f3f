---------------------------- MODULE SessionStore ----------------------------
(***************************************************************************)
(* The broker's sessions (internal/broker/sessions.go).  Create and Get    *)
(* read the clock first and take the mutex later, so a goroutine that is   *)
(* delayed in between works with a time that is behind the others'.        *)
(***************************************************************************)
EXTENDS Integers

CONSTANTS Calls,    \* concurrent calls
          Tokens,   \* random tokens, each handed out once
          NoToken,
          IdleTTL, AbsoluteTTL,
          MaxDelay, \* longest delay between the clock and the mutex
          MaxTime

ASSUME SessionAssumption ==
  /\ IdleTTL \in Nat \ {0} /\ AbsoluteTTL \in Nat \ {0}
  /\ MaxDelay \in Nat /\ MaxTime \in Nat
  /\ NoToken \notin Tokens

VARIABLES clock,
          sessions, \* the map: [abs, last] by token
          call,     \* what each call is doing: [op, token, now]
          issued,   \* tokens that Create has drawn
          created,  \* history: when a token's session was created
          used,     \* history: the latest time at which Get accepted it
          ended     \* history: tokens that were logged out

sessionVars == <<clock, sessions, call, issued, created, used, ended>>

NoCall == [op |-> "none", token |-> NoToken, now |-> 0]

Ops == {"none", "create", "get"}

TypeOK ==
  /\ clock \in Nat
  /\ DOMAIN sessions \subseteq issued
  /\ \A t \in DOMAIN sessions : sessions[t] \in [abs : Nat, last : Nat]
  /\ call \in [Calls -> [op : Ops, token : Tokens \cup {NoToken}, now : 0..clock]]
  /\ issued \subseteq Tokens
  /\ created \in [Tokens -> Nat] /\ used \in [Tokens -> Nat]
  /\ ended \subseteq Tokens

Init ==
  /\ clock = 0
  /\ sessions = [t \in {} |-> [abs |-> 0, last |-> 0]]
  /\ call = [c \in Calls |-> NoCall]
  /\ issued = {}
  /\ created = [t \in Tokens |-> 0] /\ used = [t \in Tokens |-> 0]
  /\ ended = {}

(* Time passes, but no call is delayed by more than MaxDelay.              *)
Tick ==
  /\ clock < MaxTime
  /\ \A c \in Calls : call[c].op # "none" => clock + 1 - call[c].now <= MaxDelay
  /\ clock' = clock + 1
  /\ UNCHANGED <<sessions, call, issued, created, used, ended>>

(* The test that Create and Get share: the session is over at time now.    *)
Expired(s, now) == now >= s.abs \/ now - s.last >= IdleTTL

With(t, s) == [u \in DOMAIN sessions \cup {t} |-> IF u = t THEN s ELSE sessions[u]]

Without(gone) == [u \in DOMAIN sessions \ gone |-> sessions[u]]

Return(c) == call' = [call EXCEPT ![c] = NoCall]

(* Create draws its tokens and reads the clock ...                         *)
CreateReadsClock(c, t) ==
  /\ call[c].op = "none"
  /\ t \notin issued
  /\ issued' = issued \cup {t}
  /\ call' = [call EXCEPT ![c] = [op |-> "create", token |-> t, now |-> clock]]
  /\ UNCHANGED <<clock, sessions, created, used, ended>>

(* Mutant: the sweep measures idleness from the far side.                  *)
CreateSweepsActive(c) ==
  /\ call[c].op = "create"
  /\ LET now == call[c].now
         kept == {t \in DOMAIN sessions : ~(now >= sessions[t].abs \/ sessions[t].last <= now)}
     IN  sessions' = [t \in kept \cup {call[c].token} |->
                        IF t = call[c].token THEN [abs |-> now + AbsoluteTTL, last |-> now]
                        ELSE sessions[t]]
  /\ created' = [created EXCEPT ![call[c].token] = call[c].now]
  /\ used' = [used EXCEPT ![call[c].token] = call[c].now]
  /\ Return(c)
  /\ UNCHANGED <<clock, issued, ended>>

(* ... then sweeps out what has expired and adds the session.              *)
CreateStores(c) ==
  /\ call[c].op = "create"
  /\ LET now == call[c].now
         kept == {t \in DOMAIN sessions : ~Expired(sessions[t], now)}
     IN  sessions' = [t \in kept \cup {call[c].token} |->
                        IF t = call[c].token THEN [abs |-> now + AbsoluteTTL, last |-> now]
                        ELSE sessions[t]]
  /\ created' = [created EXCEPT ![call[c].token] = call[c].now]
  /\ used' = [used EXCEPT ![call[c].token] = call[c].now]
  /\ Return(c)
  /\ UNCHANGED <<clock, issued, ended>>

(* Get reads the clock, for a token its caller has been given ...          *)
GetReadsClock(c, t) ==
  /\ call[c].op = "none"
  /\ t \in issued
  /\ \A d \in Calls : call[d].op = "create" => call[d].token # t
  /\ call' = [call EXCEPT ![c] = [op |-> "get", token |-> t, now |-> clock]]
  /\ UNCHANGED <<clock, sessions, issued, created, used, ended>>

(* Mutant: the entry read for the check is written back unconditionally.   *)
GetWritesBack(c) ==
  /\ call[c].op = "get"
  /\ LET t == call[c].token
         now == call[c].now
     IN  /\ created[t] + AbsoluteTTL > now /\ now - used[t] < IdleTTL
         /\ sessions' = With(t, [abs |-> created[t] + AbsoluteTTL, last |-> now])
         /\ used' = [used EXCEPT ![t] = IF @ < now THEN now ELSE @]
  /\ Return(c)
  /\ UNCHANGED <<clock, issued, created, ended>>

(* ... and renews the session, setting last to what may be an older time,  *)
GetAccepts(c) ==
  /\ call[c].op = "get"
  /\ LET t == call[c].token
         now == call[c].now
     IN  /\ t \in DOMAIN sessions /\ ~Expired(sessions[t], now)
         /\ sessions' = With(t, [sessions[t] EXCEPT !.last = now])
         /\ used' = [used EXCEPT ![t] = IF @ < now THEN now ELSE @]
  /\ Return(c)
  /\ UNCHANGED <<clock, issued, created, ended>>

(* or deletes it.                                                          *)
GetRejects(c) ==
  /\ call[c].op = "get"
  /\ LET t == call[c].token
     IN  /\ t \in DOMAIN sessions => Expired(sessions[t], call[c].now)
         /\ sessions' = Without({t})
  /\ Return(c)
  /\ UNCHANGED <<clock, issued, created, used, ended>>

Delete(t) ==
  /\ t \in issued
  /\ \A d \in Calls : call[d].op = "create" => call[d].token # t
  /\ sessions' = Without({t})
  /\ ended' = ended \cup {t}
  /\ UNCHANGED <<clock, call, issued, created, used>>

Next ==
  \/ Tick
  \/ \E c \in Calls, t \in Tokens : CreateReadsClock(c, t) \/ GetReadsClock(c, t)
  \/ \E c \in Calls : CreateStores(c) \/ GetAccepts(c) \/ GetRejects(c)
  \/ \E t \in Tokens : Delete(t)

Spec == Init /\ [][Next]_sessionVars

------------------------------------------------------------------------------
(* "Sessions expire after 15 minutes without activity and always expire    *)
(* after eight hours" (docs/authentication.md:32): whatever the order of   *)
(* the racing calls, a request is accepted only within IdleTTL of an       *)
(* earlier accepted use and within AbsoluteTTL of the login.               *)
AcceptedWithinLimits ==
  [][\A c \in Calls :
       GetAccepts(c) =>
         /\ call[c].now < created[call[c].token] + AbsoluteTTL
         /\ call[c].now - used[call[c].token] < IdleTTL]_sessionVars

(* A session is not lost while its user is active: it is refused, or swept *)
(* by somebody else's login, only after a logout, at the absolute limit,   *)
(* or when it has been idle for IdleTTL less the time a racing call was    *)
(* delayed.                                                                *)
ActiveSessionSurvives ==
  [][\A t \in DOMAIN sessions \ DOMAIN sessions' :
       \/ t \in ended'
       \/ clock >= created[t] + AbsoluteTTL
       \/ clock - used[t] >= IdleTTL - MaxDelay]_sessionVars

(* Both: a session ends when its limits say so, not later and not sooner.  *)
SessionsKeepTime == AcceptedWithinLimits /\ ActiveSessionSurvives

(* A session that was logged out does not come back, also not through a    *)
(* Get that was under way.                                                 *)
LoggedOutStaysOut == ended \cap DOMAIN sessions = {}

(* What the limits rest on: a session's stored times never run ahead of    *)
(* what happened, and lag behind by at most MaxDelay.                      *)
StoredTimes ==
  \A t \in DOMAIN sessions :
    /\ sessions[t].abs = created[t] + AbsoluteTTL
    /\ sessions[t].last <= used[t]
    /\ used[t] - sessions[t].last <= MaxDelay

(* What a call under way may rely on: it read the clock at most MaxDelay   *)
(* ago, and a token being created is in no one else's hands.               *)
CallsCurrent ==
  \A c \in Calls : call[c].op # "none" =>
    /\ clock - call[c].now <= MaxDelay
    /\ call[c].token \in issued

CreatesUnknown ==
  \A c \in Calls : call[c].op = "create" =>
    /\ call[c].token \notin DOMAIN sessions
    /\ call[c].token \notin ended
    /\ \A d \in Calls : call[d].op = "create" /\ call[d].token = call[c].token => d = c

EndedWereIssued == ended \subseteq issued

UsesPast == \A t \in Tokens : used[t] <= clock

(* What every step of a call preserves: the above, and that a session      *)
(* that was logged out stays out.                                          *)
SessionInv ==
  /\ TypeOK /\ CallsCurrent /\ CreatesUnknown /\ EndedWereIssued /\ UsesPast
  /\ StoredTimes /\ LoggedOutStaysOut
==============================================================================
