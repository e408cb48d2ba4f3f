--------------------------- MODULE BrokerRequests ---------------------------
(***************************************************************************)
(* Who may do what at the broker: a request's way through authorize, which *)
(* looks the session up and resolves its account again                     *)
(* (internal/broker/server.go, internal/auth/identity.go), and through the *)
(* registry's checks to its handler (actions.go, streams.go), while        *)
(* accounts change, sessions end and actions wait for each other.          *)
(*                                                                         *)
(* There is one session per account.  Actions contend for one resource,    *)
(* with the abstract lock that ResourceLocks implements; queries take none.*)
(***************************************************************************)
EXTENDS FiniteSets

CONSTANTS Requests, Accounts, Resource, NoOwner,
          Operations \* records: admin (the Admin flag) and locks (an action)

ASSUME OperationsAssumption == Operations \subseteq [admin : BOOLEAN, locks : BOOLEAN]

Groups == {"login", "admin"}

VARIABLES groups,   \* groups of the accounts that exist
          loggedIn, \* accounts with a session
          at,       \* where the request's handler is
          account,  \* whose session the request carries
          op,       \* the operation it asks for
          admin,    \* Identity.Admin, as resolved for it
          held,     \* history: groups its account had since it arrived that let it log in
          owner     \* the resource's lock

requestVars == <<groups, loggedIn, at, account, op, admin, held, owner>>

Lock == INSTANCE ExclusiveLock WITH Callers <- Requests, Resources <- {Resource}

RequestTypeOK ==
  /\ groups \in UNION {[known -> SUBSET Groups] : known \in SUBSET Accounts}
  /\ loggedIn \subseteq Accounts
  /\ at \in [Requests -> {"idle", "session", "account", "groups", "dispatch", "lock", "run"}]
  /\ account \in [Requests -> Accounts]
  /\ op \in [Requests -> Operations]
  /\ admin \in [Requests -> BOOLEAN]
  /\ held \in [Requests -> SUBSET SUBSET Groups]
  /\ owner \in [{Resource} -> {r \in Requests : at[r] = "run" /\ op[r].locks} \cup {NoOwner}]

RequestInit ==
  /\ groups = [a \in Accounts |-> Groups]
  /\ loggedIn = {}
  /\ at = [r \in Requests |-> "idle"]
  /\ \E a \in Accounts : account = [r \in Requests |-> a]
  /\ \E o \in Operations : op = [r \in Requests |-> o]
  /\ admin = [r \in Requests |-> FALSE]
  /\ held = [r \in Requests |-> {}]
  /\ Lock!Init

MayLogIn(a) == a \in DOMAIN groups /\ "login" \in groups[a]

MoveTo(r, next) == at' = [at EXCEPT ![r] = next]

LettingIn(sets) == {g \in sets : "login" \in g}

MembershipsNow(a) == IF a \in DOMAIN groups THEN LettingIn({groups[a]}) ELSE {}

(* The account of a request under way has new groups: they are noted.      *)
Note(a, now) ==
  held' = [r \in Requests |-> IF at[r] # "idle" /\ account[r] = a THEN held[r] \cup now ELSE held[r]]

------------------------------------------------------------------------------
(* The host's administrators: an account's groups change, or it goes.      *)
ChangeGroups(a, g) ==
  /\ a \in DOMAIN groups /\ g # groups[a]
  /\ groups' = [groups EXCEPT ![a] = g]
  /\ Note(a, LettingIn({g}))
  /\ UNCHANGED <<loggedIn, at, account, op, admin, owner>>

RemoveAccount(a) ==
  /\ a \in DOMAIN groups
  /\ groups' = [b \in DOMAIN groups \ {a} |-> groups[b]]
  /\ UNCHANGED <<loggedIn, at, account, op, admin, held, owner>>

(* login: an account gets its session only if it resolves.                 *)
login(a) ==
  /\ a \notin loggedIn /\ MayLogIn(a)
  /\ loggedIn' = loggedIn \cup {a}
  /\ UNCHANGED <<groups, at, account, op, admin, held, owner>>

(* logout, or the session has reached one of its limits.                   *)
EndSession(a) ==
  /\ a \in loggedIn
  /\ loggedIn' = loggedIn \ {a}
  /\ UNCHANGED <<groups, at, account, op, admin, held, owner>>

------------------------------------------------------------------------------
Arrive(r, a, o) ==
  /\ at[r] = "idle" /\ a \in Accounts
  /\ account' = [account EXCEPT ![r] = a]
  /\ op' = [op EXCEPT ![r] = o]
  /\ held' = [held EXCEPT ![r] = MembershipsNow(a)]
  /\ MoveTo(r, "session")
  /\ UNCHANGED <<groups, loggedIn, admin, owner>>

Refuse(r, place) ==
  /\ at[r] = place
  /\ MoveTo(r, "idle")
  /\ held' = [held EXCEPT ![r] = {}]
  /\ UNCHANGED <<groups, loggedIn, account, op, admin, owner>>

(* authorize: sessions.Get.                                                *)
SessionFound(r) ==
  /\ at[r] = "session" /\ account[r] \in loggedIn
  /\ MoveTo(r, "account")
  /\ UNCHANGED <<groups, loggedIn, account, op, admin, held, owner>>

SessionMissing(r) ==
  /\ account[r] \notin loggedIn
  /\ Refuse(r, "session")

(* Resolve: the account is looked up ...                                   *)
AccountFound(r) ==
  /\ at[r] = "account" /\ account[r] \in DOMAIN groups
  /\ MoveTo(r, "groups")
  /\ UNCHANGED <<groups, loggedIn, account, op, admin, held, owner>>

AccountMissing(r) ==
  /\ account[r] \notin DOMAIN groups
  /\ Refuse(r, "account")

(* Mutant: an earlier answer for the same caller is used again.            *)
GroupsRemembered(r) ==
  /\ at[r] = "groups" /\ MayLogIn(account[r])
  /\ admin' = [admin EXCEPT ![r] = @ \/ "admin" \in groups[account[r]]]
  /\ MoveTo(r, "dispatch")
  /\ UNCHANGED <<groups, loggedIn, account, op, held, owner>>

(* ... then its groups, which decide.                                      *)
GroupsRead(r) ==
  /\ at[r] = "groups" /\ MayLogIn(account[r])
  /\ admin' = [admin EXCEPT ![r] = "admin" \in groups[account[r]]]
  /\ MoveTo(r, "dispatch")
  /\ UNCHANGED <<groups, loggedIn, account, op, held, owner>>

GroupsRefused(r) ==
  /\ ~MayLogIn(account[r])
  /\ Refuse(r, "groups")

(* The registry's Admin check; a query then runs, an action takes its lock.*)
Dispatch(r) ==
  /\ at[r] = "dispatch" /\ (op[r].admin => admin[r])
  /\ MoveTo(r, IF op[r].locks THEN "lock" ELSE "run")
  /\ UNCHANGED <<groups, loggedIn, account, op, admin, held, owner>>

(* Not authorised, parameters or confirmation do not match, no such id.    *)
DispatchRefused(r) == Refuse(r, "dispatch")

LockTaken(r) ==
  /\ at[r] = "lock"
  /\ Lock!Take(r, Resource)
  /\ MoveTo(r, "run")
  /\ UNCHANGED <<groups, loggedIn, account, op, admin, held>>

(* The caller gives up, or the resource is busy and the action NonBlocking.*)
LockRefused(r) == Refuse(r, "lock")

HandlerReturns(r) ==
  /\ at[r] = "run"
  /\ IF op[r].locks THEN Lock!Give(r, Resource) ELSE UNCHANGED owner
  /\ MoveTo(r, "idle")
  /\ held' = [held EXCEPT ![r] = {}]
  /\ UNCHANGED <<groups, loggedIn, account, op, admin>>

RequestStep(r) ==
  \/ SessionFound(r) \/ SessionMissing(r)
  \/ AccountFound(r) \/ AccountMissing(r)
  \/ GroupsRead(r) \/ GroupsRefused(r)
  \/ Dispatch(r) \/ DispatchRefused(r)
  \/ LockTaken(r)
  \/ HandlerReturns(r)

RequestNext ==
  \/ \E a \in Accounts :
       \/ \E g \in SUBSET Groups : ChangeGroups(a, g)
       \/ RemoveAccount(a)
       \/ login(a) \/ EndSession(a)
  \/ \E r \in Requests :
       \/ \E a \in Accounts, o \in Operations : Arrive(r, a, o)
       \/ RequestStep(r)
       \/ LockRefused(r)

RequestSpec == RequestInit /\ [][RequestNext]_requestVars

(* Handlers run on and return, and a waiter on the lock's channel is       *)
(* served in its turn, however many others come and go.                    *)
RequestFairness ==
  \A r \in Requests : WF_requestVars(RequestStep(r)) /\ SF_requestVars(LockTaken(r))

------------------------------------------------------------------------------
(* Whatever runs, its account was in the login group and, where the        *)
(* operation needs it, in the admin group, both at one moment since the    *)
(* request arrived: a membership that ended before the request does not    *)
(* count, however old the session is.                                      *)
MembershipWasHeld ==
  \A r \in Requests :
    at[r] = "run" =>
      \E g \in held[r] : "login" \in g /\ (op[r].admin => "admin" \in g)

(* Group removal takes effect without waiting for the session: once an     *)
(* account is out of the admin group for good, its privileged operations   *)
(* come to an end and no more of them run, also of those that waited.      *)
RevocationTakesHold ==
  \A a \in Accounts :
    <>[](a \notin DOMAIN groups \/ "admin" \notin groups[a]) =>
      <>[](\A r \in Requests : ~(at[r] = "run" /\ account[r] = a /\ op[r].admin))

(* Types (the lock's owner is a running action), and that what runs was    *)
(* allowed.                                                                *)
RequestInv == RequestTypeOK /\ MembershipWasHeld
==============================================================================
